---------------------------- MODULE TrafficProofs ----------------------------
(***************************************************************************)
(* The safety of traffic.go for every bandwidth within the tolerance,      *)
(* every buffer, any number of packets of any sizes, handed over at any    *)
(* times: no fatal error, one wakeup, an exact buffer, no overtaking, and  *)
(* the bandwidth kept.  The invariant says that no packet is ever past its *)
(* end (NotFinished), that the wakeup is at the time the first one would   *)
(* reach it with what is in the link now (WakeupExact), which packets are  *)
(* where and in what order (Books, Ordered), and what the bytes add up to  *)
(* (BufferExact, Full, Kept).  The rest is the arithmetic of the two       *)
(* truncations and of sums over finite sets.                               *)
(*                                                                         *)
(* The last part puts links that satisfy LinkInv into the program of       *)
(* BitcoinSimulation.tla: no packet is in two places, no wakeup fails, and *)
(* the steps are those of BitcoinNetwork.tla.                              *)
(***************************************************************************)
EXTENDS Traffic, BitcoinSimulation, GraphProofs

\* The packets of BitcoinNetwork.tla when the blocks below n have edges.
NetPackets(n) ==
    [type : {"INV"}, from : Miners, to : Miners, block : 0..(n - 1), slot : 1..2]
    \cup [type : {"GET", "GETCompact", "SendBlock"}, from : Miners, to : Miners, block : 0..(n - 1)]

\* What a packet in a link is: one of these, or in Traffic.tla a number.
Names == Nat \cup NetPackets(MaxBlock + 1)

Packet == [packet : Names, size : Nat, accSize : Nat]
Wake   == [timestamp : Nat, current : BOOLEAN]

NodeOutbound == [accSize : Nat, lastWakeupT : Nat, queue : SUBSET Packet, waiting : Seq(Packet),
                 buffer : Int, wakeups : SUBSET Wake]

\* What holds of a link that has last been touched at lastWakeupT.
LinkType(s) == s \in NodeOutbound /\ IsFiniteSet(s.queue)

\* The first packets and the others have not been sent more than their size.
NotFinished(s) == \A p \in s.queue : s.accSize <= p.accSize

\* The time the next wakeup is due.
WakeupTime(s) == s.lastWakeupT + ((FirstAcc(s) - s.accSize) * Cardinality(s.queue)) \div Bandwidth

WakeupExact(s) ==
    s.wakeups = IF s.queue = {} THEN {}
                ELSE {[timestamp |-> WakeupTime(s), current |-> TRUE]}

LinkInv(s) == LinkType(s) /\ NotFinished(s) /\ WakeupExact(s)

USE LinkAssumption, TrafficAssumption

-----------------------------------------------------------------------------
\* Arithmetic of \div, which int64(...) is for numbers that are not negative.
LEMMA DivFacts ==
    ASSUME NEW a \in Nat, NEW n \in Nat \ {0}
    PROVE  /\ a \div n \in Nat
           /\ (a \div n) * n <= a
           /\ a < (a \div n) * n + n
OBVIOUS

\* A factor can be cancelled, up to one.
LEMMA Cancel ==
    ASSUME NEW x \in Int, NEW y \in Int, NEW n \in Nat \ {0}, x * n < y * n + n
    PROVE  x <= y
OBVIOUS

\* Multiplying keeps the order.
LEMMA MulMono ==
    ASSUME NEW x \in Nat, NEW y \in Nat, NEW n \in Nat, x <= y
    PROVE  x * n <= y * n
OBVIOUS

\* Until the time at which d more bytes are to have been sent, e ticks at
\* most, no more than d are: n packets share the bandwidth B.
LEMMA NoOvershoot ==
    ASSUME NEW d \in Nat, NEW e \in Nat, NEW n \in Nat \ {0}, NEW B \in Nat \ {0},
           e <= (d * n) \div B
    PROVE  (e * B) \div n \in Nat /\ (e * B) \div n <= d
<1>1. d * n \in Nat /\ e * B \in Nat
  OBVIOUS
<1>2. (d * n) \div B \in Nat /\ ((d * n) \div B) * B <= d * n
  BY <1>1, DivFacts
<1>3. e * B <= ((d * n) \div B) * B
  BY <1>2, MulMono
<1>4. e * B <= d * n
  <2> DEFINE q == ((d * n) \div B) * B
  <2>1. q \in Nat
    BY <1>2
  <2>2. q <= d * n /\ e * B <= q
    BY <1>2, <1>3
  <2> HIDE DEF q
  <2> QED
    BY <2>1, <2>2, <1>1
<1>5. (e * B) \div n \in Nat /\ ((e * B) \div n) * n <= e * B
  BY <1>1, DivFacts
<1> DEFINE r == (e * B) \div n
<1>6. r \in Nat /\ r * n \in Nat /\ r * n <= e * B
  BY <1>5
<1> HIDE DEF r
<1>7. r * n < d * n + n
  BY <1>4, <1>6, <1>1
<1>8. r <= d
  BY <1>6, <1>7, Cancel
<1> QED
  BY <1>6, <1>8 DEF r

\* At that time, no more than one tick's worth of bytes is missing.
LEMMA SmallRest ==
    ASSUME NEW d \in Nat, NEW n \in Nat \ {0}, NEW B \in Nat \ {0}
    PROVE  d - ((((d * n) \div B) * B) \div n) <= B
<1> DEFINE e == (d * n) \div B
           q == (e * B) \div n
<1>1. d * n \in Nat
  OBVIOUS
<1>2. e \in Nat /\ d * n < e * B + B
  BY <1>1, DivFacts
<1>3. e * B \in Nat
  BY <1>2
<1>4. q \in Nat /\ e * B < q * n + n
  BY <1>3, DivFacts
<1> HIDE DEF e, q
<1>5. d * n < q * n + n + B
  BY <1>1, <1>2, <1>3, <1>4
<1>6. B <= B * n
  OBVIOUS
<1>7. (d - B) * n < q * n + n
  <2>1. (d - B) * n = d * n - B * n
    OBVIOUS
  <2> QED
    BY <2>1, <1>1, <1>4, <1>5, <1>6
<1>8. d - B <= q
  BY <1>4, <1>7, Cancel
<1>9. d - q <= B
  BY <1>4, <1>8
<1> QED
  BY <1>9 DEF e, q

-----------------------------------------------------------------------------
\* A link that is busy has a first packet, and a number to share among.
LEMMA FirstExists ==
    ASSUME NEW s, LinkType(s), s.queue # {}
    PROVE  /\ Cardinality(s.queue) \in Nat \ {0}
           /\ FirstAcc(s) \in Nat
           /\ \A p \in s.queue : FirstAcc(s) <= p.accSize
           /\ \A p \in Firsts(s) : p \in s.queue /\ p.accSize = FirstAcc(s)
           /\ \E p \in s.queue : p.accSize = FirstAcc(s)
<1> DEFINE Q == s.queue
           Below(x) == {y \in Q : y.accSize < x.accSize}
           T == {Below(x) : x \in Q}
<1>1. IsFiniteSet(Q) /\ Q # {} /\ \A p \in Q : p.accSize \in Nat
  BY DEF LinkType, NodeOutbound, Packet
<1> HIDE DEF Q
<1>2. PICK t \in T : \A u \in T : <<u, t>> \notin StrictSubsetOrdering(Q)
  <2>1. IsWellFoundedOn(StrictSubsetOrdering(Q), SUBSET Q)
    BY <1>1, FS_StrictSubsetOrderingWellFounded, FS_FiniteSubsetsOfFinite
  <2>2. T \subseteq SUBSET Q /\ T # {}
    BY <1>1
  <2> HIDE DEF T
  <2> QED BY <2>1, <2>2, WFMin
<1>3. PICK m \in Q : t = Below(m)
  BY <1>2
<1>4. \A x \in Q : m.accSize <= x.accSize
  <2> SUFFICES ASSUME NEW x \in Q, x.accSize < m.accSize PROVE FALSE
    BY <1>1
  <2>1. x \in Below(m) /\ x \notin Below(x) /\ Below(x) \subseteq Below(m)
    BY <1>1
  <2>2. Below(x) \in T /\ <<Below(x), Below(m)>> \in StrictSubsetOrdering(Q)
    BY <2>1 DEF StrictSubsetOrdering
  <2> QED BY <1>2, <1>3, <2>2
<1>5. m \in Firsts(s)
  BY <1>3, <1>4 DEF Firsts, Q
<1>6. \A p, q \in Firsts(s) : p \in Q /\ p.accSize = q.accSize /\ p.accSize = m.accSize
  BY <1>1, <1>4, <1>5 DEF Firsts, Q
<1>7. FirstAcc(s) = m.accSize
  BY <1>5, <1>6 DEF FirstAcc
<1>8. Cardinality(Q) \in Nat \ {0}
  BY <1>1, FS_CardinalityType, FS_EmptySet
<1> QED
  BY <1>1, <1>3, <1>4, <1>6, <1>7, <1>8 DEF Q

\* The time of the next wakeup is not before the link was last touched, and
\* NextWakeup computes it.
LEMMA WakeupTimeIs ==
    ASSUME NEW s, LinkType(s), NotFinished(s), s.queue # {}
    PROVE  /\ WakeupTime(s) \in Nat /\ WakeupTime(s) >= s.lastWakeupT
           /\ NextWakeup(s, s.lastWakeupT) = WakeupTime(s)
<1> DEFINE n == Cardinality(s.queue)
           d == FirstAcc(s) - s.accSize
           wait == (d * n) \div Bandwidth
<1>1. n \in Nat \ {0} /\ FirstAcc(s) \in Nat /\ s.accSize \in Nat /\ s.lastWakeupT \in Nat
  BY FirstExists DEF LinkType, NodeOutbound
<1>2. d \in Nat
  <2>1. s.accSize <= FirstAcc(s)
    BY FirstExists DEF NotFinished
  <2> QED
    BY <2>1, <1>1
<1> HIDE DEF n, d
<1>3. d * n \in Nat
  BY <1>1, <1>2
<1>4. wait \in Nat
  BY <1>3, DivFacts
<1> HIDE DEF wait
<1>5. Max({0, wait}) = wait
  BY <1>4 DEF Max
<1>6. WakeupTime(s) = s.lastWakeupT + wait /\ NextWakeup(s, s.lastWakeupT) = s.lastWakeupT + Max({0, wait})
  BY DEF WakeupTime, NextWakeup, wait, n, d
<1> QED
  BY <1>1, <1>4, <1>5, <1>6

\* Bringing accSize up to date passes no packet's end, as long as the wakeup
\* has not been missed.
LEMMA ElapseKeeps ==
    ASSUME NEW s, LinkType(s), NotFinished(s), NEW t \in Nat, s.lastWakeupT <= t,
           s.queue # {} => t <= WakeupTime(s)
    PROVE  LET e == Elapse(s, t)
           IN  /\ LinkType(e) /\ NotFinished(e) /\ e.lastWakeupT = t
               /\ e.queue = s.queue /\ e.waiting = s.waiting
               /\ e.buffer = s.buffer /\ e.wakeups = s.wakeups
<1> DEFINE e == Elapse(s, t)
           n == Cardinality(s.queue)
           gain == IF s.queue = {} THEN 0 ELSE ((t - s.lastWakeupT) * Bandwidth) \div n
<1>1. /\ s \in NodeOutbound /\ IsFiniteSet(s.queue) /\ s.accSize \in Nat /\ s.lastWakeupT \in Nat
      /\ s.queue \subseteq Packet
  BY DEF LinkType, NodeOutbound
<1>2. gain \in Nat /\ (s.queue # {} => s.accSize + gain <= FirstAcc(s))
  <2>1. CASE s.queue = {}
    BY <2>1
  <2>2. CASE s.queue # {}
    <3> DEFINE d == FirstAcc(s) - s.accSize
               k == t - s.lastWakeupT
    <3>1. n \in Nat \ {0} /\ FirstAcc(s) \in Nat /\ s.accSize <= FirstAcc(s)
      BY <2>2, FirstExists DEF NotFinished
    <3>2. d \in Nat /\ k \in Nat
      BY <3>1, <1>1
    <3>3. WakeupTime(s) = s.lastWakeupT + (d * n) \div Bandwidth
      BY DEF WakeupTime
    <3>4. (d * n) \div Bandwidth \in Nat
      <4>1. d * n \in Nat
        BY <3>1, <3>2
      <4> QED
        BY <4>1, DivFacts
    <3>5. k <= (d * n) \div Bandwidth
      <4> HIDE DEF d, n
      <4> QED
        BY <2>2, <3>3, <3>4, <1>1
    <3> HIDE DEF d, k, n
    <3>6. (k * Bandwidth) \div n \in Nat /\ (k * Bandwidth) \div n <= d
      BY <3>1, <3>2, <3>5, NoOvershoot
    <3>7. gain = (k * Bandwidth) \div n
      BY <2>2 DEF k, n
    <3> QED
      BY <3>1, <3>6, <3>7, <1>1 DEF d
  <2> QED
    BY <2>1, <2>2
<1> HIDE DEF gain
<1>3. e = [s EXCEPT !.lastWakeupT = t, !.accSize = s.accSize + gain]
  BY <1>1 DEF Elapse, NodeOutbound, gain
<1>4. /\ e \in NodeOutbound /\ e.accSize = s.accSize + gain /\ e.lastWakeupT = t
      /\ e.queue = s.queue /\ e.waiting = s.waiting
      /\ e.buffer = s.buffer /\ e.wakeups = s.wakeups
  <2> DEFINE acc == s.accSize + gain
  <2>1. acc \in Nat /\ e = [s EXCEPT !.lastWakeupT = t, !.accSize = acc]
    BY <1>1, <1>2, <1>3
  <2>2. s \in NodeOutbound
    BY <1>1
  <2> HIDE DEF e, acc
  <2>3. /\ e \in NodeOutbound /\ e.accSize = acc /\ e.lastWakeupT = t
        /\ e.queue = s.queue /\ e.waiting = s.waiting
        /\ e.buffer = s.buffer /\ e.wakeups = s.wakeups
    BY <2>1, <2>2 DEF NodeOutbound
  <2> QED
    BY <2>3 DEF acc
<1> HIDE DEF e
<1>5. NotFinished(e)
  <2> SUFFICES ASSUME NEW p \in s.queue PROVE s.accSize + gain <= p.accSize
    BY <1>4 DEF NotFinished
  <2>1. FirstAcc(s) \in Nat /\ FirstAcc(s) <= p.accSize /\ p.accSize \in Nat
    BY <1>1, FirstExists DEF Packet
  <2>2. s.accSize + gain <= FirstAcc(s)
    BY <1>2
  <2> QED
    BY <2>1, <2>2, <1>1, <1>2
<1> QED
  BY <1>1, <1>4, <1>5 DEF LinkType, e

-----------------------------------------------------------------------------
\* What the link is like when updateNextWakeup is called: touched just now,
\* and no wakeup is pending for an empty queue, nor any nextWakeupE has
\* forgotten.
Updatable(s) == /\ LinkType(s) /\ NotFinished(s)
                /\ \A w \in s.wakeups : w.current
                /\ s.queue = {} => s.wakeups = {}

\* updateNextWakeup makes or moves the wakeup to the right time.
LEMMA UpdateKeeps ==
    ASSUME NEW s, Updatable(s)
    PROVE  LET u == UpdateNextWakeup(s, s.lastWakeupT)
           IN  LinkInv(u) /\ u.lastWakeupT = s.lastWakeupT
<1> DEFINE u == UpdateNextWakeup(s, s.lastWakeupT)
<1>1. s \in NodeOutbound /\ IsFiniteSet(s.queue) /\ NotFinished(s)
  BY DEF Updatable, LinkType
<1>2. CASE s.queue = {}
  <2>1. s.wakeups = {}
    BY <1>2 DEF Updatable
  <2>2. u = [s EXCEPT !.wakeups = {}]
    BY <1>1, <1>2, <2>1 DEF UpdateNextWakeup, NodeOutbound
  <2>3. u = s
    BY <1>1, <2>1, <2>2 DEF NodeOutbound
  <2> QED
    BY <1>1, <1>2, <2>1, <2>3 DEF LinkInv, LinkType, WakeupExact
<1>3. CASE s.queue # {}
  <2> DEFINE w == [timestamp |-> WakeupTime(s), current |-> TRUE]
  <2>1. NextWakeup(s, s.lastWakeupT) = WakeupTime(s) /\ WakeupTime(s) \in Nat
    BY <1>1, <1>3, WakeupTimeIs DEF LinkType
  <2>2. {v \in s.wakeups : ~v.current} = {}
    BY DEF Updatable
  <2>3. u = [s EXCEPT !.wakeups = {w}]
    BY <1>3, <2>1, <2>2 DEF UpdateNextWakeup
  <2>4. w \in Wake
    BY <2>1 DEF Wake
  <2> HIDE DEF w, u
  <2>5. /\ u \in NodeOutbound /\ u.wakeups = {w} /\ u.queue = s.queue
        /\ u.accSize = s.accSize /\ u.lastWakeupT = s.lastWakeupT
    BY <1>1, <2>3, <2>4 DEF NodeOutbound
  <2>6. WakeupTime(u) = WakeupTime(s)
    BY <2>5 DEF WakeupTime, FirstAcc, Firsts
  <2> QED
    BY <1>1, <1>3, <2>5, <2>6 DEF LinkInv, LinkType, NotFinished, WakeupExact, u, w
<1> QED
  BY <1>2, <1>3

\* pushEvent: every packet in the link, the new one too, is still to end.
LEMMA PushKeeps ==
    ASSUME NEW s, LinkType(s), NotFinished(s), NEW t \in Nat, s.lastWakeupT <= t,
           s.queue # {} => t <= WakeupTime(s),
           \A w \in s.wakeups : w.current,
           NEW p \in Packet
    PROVE  LinkInv(PushEvent(s, t, p)) /\ PushEvent(s, t, p).lastWakeupT = t
<1> DEFINE e == Elapse(s, t)
<1>1. /\ LinkType(e) /\ NotFinished(e) /\ e.lastWakeupT = t
      /\ e.queue = s.queue /\ e.wakeups = s.wakeups
  BY ElapseKeeps
<1> HIDE DEF e
<1> DEFINE acc == e.accSize + p.size
           q == [p EXCEPT !.accSize = acc]
           f == [e EXCEPT !.queue = @ \cup {q}, !.buffer = @ + p.size]
<1>2. /\ e \in NodeOutbound /\ IsFiniteSet(e.queue) /\ e.accSize \in Nat /\ e.queue \subseteq Packet
      /\ p.size \in Nat /\ e.buffer \in Int
  BY <1>1 DEF LinkType, NodeOutbound, Packet
<1>3. acc \in Nat /\ e.accSize <= acc
  BY <1>2
<1> HIDE DEF acc
<1>4. q \in Packet /\ q.accSize = acc
  BY <1>3 DEF Packet
<1> HIDE DEF q
<1>5. /\ f \in NodeOutbound /\ f.queue = e.queue \cup {q} /\ f.accSize = e.accSize
      /\ f.lastWakeupT = t /\ f.wakeups = s.wakeups
  <2> DEFINE Q == e.queue \cup {q}
             b == e.buffer + p.size
  <2>1. Q \subseteq Packet /\ b \in Int /\ f = [e EXCEPT !.queue = Q, !.buffer = b]
    BY <1>2, <1>4 DEF NodeOutbound
  <2> HIDE DEF Q, b, f
  <2>2. /\ f \in NodeOutbound /\ f.queue = Q /\ f.accSize = e.accSize
        /\ f.lastWakeupT = e.lastWakeupT /\ f.wakeups = e.wakeups
    BY <1>2, <2>1 DEF NodeOutbound
  <2> QED
    BY <1>1, <2>2 DEF Q
<1>6. PushEvent(s, t, p) = UpdateNextWakeup(f, t)
  BY DEF PushEvent, e, f, q, acc
<1> HIDE DEF f
<1>7. Updatable(f)
  <2>1. IsFiniteSet(f.queue)
    BY <1>2, <1>5, FS_AddElement
  <2>2. NotFinished(f)
    BY <1>1, <1>3, <1>4, <1>5 DEF NotFinished
  <2>3. f.queue # {}
    BY <1>5
  <2> QED
    BY <1>5, <2>1, <2>2, <2>3 DEF Updatable, LinkType
<1> QED
  BY <1>5, <1>6, <1>7, UpdateKeeps

\* addEvent, whether the packet fits or not.
LEMMA AddKeeps ==
    ASSUME NEW s, LinkInv(s), NEW t \in Nat, s.lastWakeupT <= t,
           s.queue # {} => t <= WakeupTime(s), NEW p \in Packet
    PROVE  /\ LinkInv(AddEvent(s, t, p)) /\ AddEvent(s, t, p).lastWakeupT <= t
           /\ ~AddEventFails(s, t, p)
<1>1. CASE Fits(s, p)
  <2>1. \A w \in s.wakeups : w.current
    BY DEF LinkInv, WakeupExact
  <2>2. LinkInv(PushEvent(s, t, p)) /\ PushEvent(s, t, p).lastWakeupT = t
    BY <2>1, PushKeeps DEF LinkInv
  <2>3. AddEvent(s, t, p) = PushEvent(s, t, p)
    BY <1>1 DEF AddEvent
  <2> QED
    BY <2>2, <2>3 DEF AddEventFails, ForgetsLastWakeupT
<1>2. CASE ~Fits(s, p)
  <2> DEFINE a == [s EXCEPT !.waiting = Append(s.waiting, p)]
  <2>1. s \in NodeOutbound /\ Append(s.waiting, p) \in Seq(Packet)
    BY DEF LinkInv, LinkType, NodeOutbound
  <2>2. AddEvent(s, t, p) = a
    BY <1>2 DEF AddEvent
  <2>3. /\ a \in NodeOutbound /\ a.queue = s.queue /\ a.accSize = s.accSize
        /\ a.lastWakeupT = s.lastWakeupT /\ a.wakeups = s.wakeups
    BY <2>1 DEF NodeOutbound
  <2> HIDE DEF a
  <2>4. WakeupTime(a) = WakeupTime(s)
    BY <2>3 DEF WakeupTime, FirstAcc, Firsts
  <2> QED
    BY <1>2, <2>2, <2>3, <2>4 DEF LinkInv, LinkType, NotFinished, WakeupExact, AddEventFails
<1> QED
  BY <1>1, <1>2

\* pullWaitingListAndUpdate, after popEvent has taken the packet out.
LEMMA PullKeeps ==
    ASSUME NEW s, LinkType(s), NotFinished(s), s.wakeups = {}
    PROVE  LET u == PullWaitingListAndUpdate(s, s.lastWakeupT)
           IN  LinkInv(u) /\ u.lastWakeupT = s.lastWakeupT
<1>1. s \in NodeOutbound /\ s.lastWakeupT \in Nat /\ s.waiting \in Seq(Packet)
  BY DEF LinkType, NodeOutbound
<1>2. CASE s.waiting # <<>> /\ Fits(s, Head(s.waiting))
  <2> DEFINE p == Head(s.waiting)
             a == [s EXCEPT !.waiting = Tail(s.waiting)]
  <2>1. p \in Packet /\ Tail(s.waiting) \in Seq(Packet)
    BY <1>1, <1>2
  <2>2. /\ a \in NodeOutbound /\ a.queue = s.queue /\ a.accSize = s.accSize
        /\ a.lastWakeupT = s.lastWakeupT /\ a.wakeups = {}
    BY <1>1, <2>1 DEF NodeOutbound
  <2>3. PullWaitingListAndUpdate(s, s.lastWakeupT) = PushEvent(a, s.lastWakeupT, p)
    BY <1>2 DEF PullWaitingListAndUpdate
  <2> HIDE DEF a, p
  <2>4. LinkType(a) /\ NotFinished(a)
    BY <2>2 DEF LinkType, NotFinished
  <2>5. a.queue # {} => s.lastWakeupT <= WakeupTime(a)
    BY <2>2, <2>4, WakeupTimeIs
  <2> QED
    BY <1>1, <2>1, <2>2, <2>3, <2>4, <2>5, PushKeeps
<1>3. CASE ~(s.waiting # <<>> /\ Fits(s, Head(s.waiting)))
  <2>1. Updatable(s)
    BY DEF Updatable
  <2> QED
    BY <1>3, <2>1, UpdateKeeps DEF PullWaitingListAndUpdate
<1> QED
  BY <1>2, <1>3

\* popEvent, called at the time of the wakeup: the packet it takes is finished
\* up to the tolerance, and the others are not past their ends.
LEMMA PopKeeps ==
    ASSUME NEW s, LinkType(s), NotFinished(s), s.wakeups = {}, s.queue # {},
           NEW p \in Firsts(s)
    PROVE  LET t == WakeupTime(s)
               u == PopEvent(s, t, p)
           IN  LinkInv(u) /\ u.lastWakeupT = t /\ ~PopEventFails(s, t, p)
<1> DEFINE t == WakeupTime(s)
           e == Elapse(s, t)
           n == Cardinality(s.queue)
           d == FirstAcc(s) - s.accSize
           f == [e EXCEPT !.queue = @ \ {p}, !.buffer = @ - p.size]
<1>1. t \in Nat /\ s.lastWakeupT <= t
  BY WakeupTimeIs
<1>2. /\ s.accSize \in Nat /\ s.lastWakeupT \in Nat /\ n \in Nat \ {0} /\ FirstAcc(s) \in Nat
      /\ s.accSize <= FirstAcc(s)
      /\ p \in s.queue /\ p \in Packet /\ p.accSize = FirstAcc(s) /\ p.size \in Nat
  <2>1. s.accSize \in Nat /\ s.lastWakeupT \in Nat /\ s.queue \subseteq Packet
    BY DEF LinkType, NodeOutbound
  <2>2. /\ n \in Nat \ {0} /\ FirstAcc(s) \in Nat
        /\ p \in s.queue /\ p.accSize = FirstAcc(s)
    BY FirstExists
  <2>3. s.accSize <= FirstAcc(s)
    BY <2>2 DEF NotFinished
  <2>4. p \in Packet /\ p.size \in Nat
    BY <2>1, <2>2 DEF Packet
  <2> QED
    BY <2>1, <2>2, <2>3, <2>4
<1>3. t = s.lastWakeupT + (d * n) \div Bandwidth
  BY DEF WakeupTime
<1>4. e.accSize = s.accSize + ((t - s.lastWakeupT) * Bandwidth) \div n
  BY DEF Elapse, LinkType, NodeOutbound
<1> HIDE DEF t
<1>5. /\ LinkType(e) /\ NotFinished(e) /\ e.lastWakeupT = t
      /\ e.queue = s.queue /\ e.wakeups = s.wakeups
  BY <1>1, ElapseKeeps DEF t
<1> HIDE DEF e
<1>6. ~OutOfTolerance(s, t, p)
  <2>1. e.accSize \in Nat /\ e.accSize <= p.accSize
    BY <1>2, <1>5 DEF LinkType, NodeOutbound, NotFinished
  <2>2. d \in Nat
    BY <1>2
  <2>3. (d * n) \div Bandwidth \in Nat
    <3>1. d * n \in Nat
      BY <1>2, <2>2
    <3> QED
      BY <3>1, DivFacts
  <2>4. t - s.lastWakeupT = (d * n) \div Bandwidth
    <3> HIDE DEF d, n
    <3> QED
      BY <1>2, <1>3, <2>3
  <2>5. d - (((t - s.lastWakeupT) * Bandwidth) \div n) <= Bandwidth
    <3> HIDE DEF d, n
    <3> QED
      BY <1>2, <2>2, <2>4, SmallRest
  <2> DEFINE gain == ((t - s.lastWakeupT) * Bandwidth) \div n
  <2>6. p.accSize - s.accSize - gain <= Bandwidth /\ e.accSize = s.accSize + gain
    BY <1>2, <1>4, <2>5
  <2> HIDE DEF gain
  <2>7. p.accSize - e.accSize <= Tolerance /\ e.accSize - p.accSize <= Tolerance
    <3>1. Bandwidth \in Nat /\ Tolerance \in Nat /\ Bandwidth <= Tolerance
      BY DEF LinkAssumption
    <3>2. gain = e.accSize - s.accSize
      <4>1. gain \in Int
        <5>1. (t - s.lastWakeupT) * Bandwidth \in Nat
          BY <1>1, <1>2
        <5> QED
          BY <5>1, <1>2, DivFacts DEF gain
      <4> QED
        BY <4>1, <1>2, <2>6
    <3> QED
      BY <3>1, <3>2, <1>2, <2>1, <2>6
  <2> QED
    BY <1>2, <2>1, <2>7 DEF OutOfTolerance, e
<1>7. LinkInv(PullWaitingListAndUpdate(f, t)) /\ PullWaitingListAndUpdate(f, t).lastWakeupT = t
  <2> DEFINE Q == e.queue \ {p}
             b == e.buffer - p.size
  <2>1. e \in NodeOutbound /\ Q \subseteq Packet /\ b \in Int /\ f = [e EXCEPT !.queue = Q, !.buffer = b]
    BY <1>2, <1>5, SMTT(60) DEF LinkType, NodeOutbound
  <2> HIDE DEF f, b
  <2>2. /\ f \in NodeOutbound /\ f.queue = Q /\ f.accSize = e.accSize
        /\ f.lastWakeupT = e.lastWakeupT /\ f.wakeups = e.wakeups
    BY <2>1 DEF NodeOutbound
  <2>3. IsFiniteSet(f.queue)
    BY <1>5, <2>2, FS_Subset DEF LinkType
  <2>4. LinkType(f) /\ NotFinished(f)
    BY <1>5, <2>2, <2>3 DEF LinkType, NotFinished
  <2> QED
    BY <1>5, <2>2, <2>4, PullKeeps
<1>8. PopEvent(s, t, p) = PullWaitingListAndUpdate(f, t)
  BY DEF PopEvent, e
<1>9. ~PopEventFails(s, t, p)
  BY <1>6, <1>7, <1>8 DEF PopEventFails, ForgetsLastWakeupT
<1> QED
  BY <1>7, <1>8, <1>9 DEF t

-----------------------------------------------------------------------------
(***************************************************************************)
(* Sums over finite sets.  MapThenSumSet takes the elements in an order    *)
(* CHOOSE decides; the sum does not depend on it.                          *)
(***************************************************************************)
OneOf(s) == CHOOSE x \in s : TRUE

\* F[s] is the sum of f over s, for the subsets s of S with up to k elements.
SumsUpTo(F, S, f, k) ==
    /\ F \in [SUBSET S -> Int]
    /\ F[{}] = 0
    /\ \A s \in SUBSET S : s # {} /\ Cardinality(s) <= k => F[s] = f[OneOf(s)] + F[s \ {OneOf(s)}]

Sums(F, S, f) ==
    /\ F \in [SUBSET S -> Int]
    /\ F[{}] = 0
    /\ \A s \in SUBSET S : s # {} => F[s] = f[OneOf(s)] + F[s \ {OneOf(s)}]

\* G obeys the equations of the sums of what exceeds f by c.
SumsMore(G, S, f, c) ==
    /\ G[{}] = 0
    /\ \A s \in SUBSET S : s # {} => G[s] = (f[OneOf(s)] + c) + G[s \ {OneOf(s)}]

AnyFirst(F, S, f) == \A s \in SUBSET S, x \in S : x \in s => F[s] = f[x] + F[s \ {x}]

\* What holds of a set if it holds of it without any one element holds of all.
LEMMA SubsetInduction ==
    ASSUME NEW S, IsFiniteSet(S), NEW P,
           \A s \in SUBSET S : (\A x \in s : s \ {x} \in P) => s \in P
    PROVE  \A s \in SUBSET S : s \in P
<1> DEFINE T == {s \in SUBSET S : s \notin P}
<1> SUFFICES ASSUME T # {} PROVE FALSE
  OBVIOUS
<1>1. PICK t \in T : \A u \in T : <<u, t>> \notin StrictSubsetOrdering(S)
  <2>1. IsWellFoundedOn(StrictSubsetOrdering(S), SUBSET S)
    <3>1. FiniteSubsetsOf(S) = SUBSET S
      BY FS_FiniteSubsetsOfFinite
    <3>2. IsWellFoundedOn(StrictSubsetOrdering(S), FiniteSubsetsOf(S))
      BY FS_StrictSubsetOrderingWellFounded
    <3> HIDE DEF T
    <3> QED BY <3>1, <3>2
  <2>2. T \subseteq SUBSET S
    OBVIOUS
  <2> HIDE DEF T
  <2> QED BY <2>1, <2>2, WFMin
<1>2. ASSUME NEW x \in t PROVE t \ {x} \in P
  <2>1. t \ {x} \in SUBSET S /\ <<t \ {x}, t>> \in StrictSubsetOrdering(S)
    BY DEF StrictSubsetOrdering
  <2> QED BY <2>1, <1>1
<1> QED BY <1>2

\* A set without one of its elements.
LEMMA OneLess ==
    ASSUME NEW S, IsFiniteSet(S), NEW s \in SUBSET S
    PROVE  /\ IsFiniteSet(s) /\ Cardinality(s) \in Nat /\ Cardinality(s) <= Cardinality(S)
           /\ \A x \in s : s \ {x} \in SUBSET S /\ Cardinality(s \ {x}) = Cardinality(s) - 1
           /\ s = {} <=> Cardinality(s) = 0
           /\ s # {} => OneOf(s) \in s
<1>1. IsFiniteSet(s) /\ Cardinality(s) <= Cardinality(S)
  BY FS_Subset
<1>2. Cardinality(s) \in Nat
  BY <1>1, FS_CardinalityType
<1>3. \A x \in s : Cardinality(s \ {x}) = Cardinality(s) - 1
  BY <1>1, FS_RemoveElement
<1>4. s = {} <=> Cardinality(s) = 0
  BY <1>1, FS_EmptySet
<1>5. s # {} => OneOf(s) \in s
  BY DEF OneOf
<1> QED BY <1>1, <1>2, <1>3, <1>4, <1>5

\* There are sums.
LEMMA SumsExist ==
    ASSUME NEW S, IsFiniteSet(S), NEW f \in [S -> Int]
    PROVE  \E F : Sums(F, S, f)
<1> DEFINE P == {s \in SUBSET S : \E F : SumsUpTo(F, S, f, Cardinality(s))}
<1>1. ASSUME NEW s \in SUBSET S, \A x \in s : s \ {x} \in P
      PROVE  s \in P
  <2>1. CASE s = {}
    <3> DEFINE F == [u \in SUBSET S |-> 0]
    <3>1. \A u \in SUBSET S : Cardinality(u) <= Cardinality(s) => u = {}
      BY <2>1, OneLess, FS_EmptySet
    <3>2. SumsUpTo(F, S, f, Cardinality(s))
      <4>1. F \in [SUBSET S -> Int] /\ F[{}] = 0
        OBVIOUS
      <4> HIDE DEF F
      <4> QED BY <3>1, <4>1 DEF SumsUpTo
    <3> HIDE DEF F
    <3> QED BY <3>2
  <2>2. CASE s # {}
    <3> DEFINE r == s \ {OneOf(s)}
               k == Cardinality(r)
    <3>1. OneOf(s) \in s /\ r \in P /\ k \in Nat /\ Cardinality(s) = k + 1
      <4>1. OneOf(s) \in s
        BY <2>2, OneLess
      <4>2. k = Cardinality(s) - 1 /\ Cardinality(s) \in Nat /\ r \in SUBSET S
        BY <4>1, OneLess
      <4>3. k \in Nat
        BY <4>2, OneLess
      <4> HIDE DEF k, P
      <4> QED BY <4>1, <4>2, <4>3, <1>1
    <3>2. PICK G : SumsUpTo(G, S, f, k)
      BY <3>1
    <3> DEFINE H == [u \in SUBSET S |-> IF u = {} THEN 0 ELSE f[OneOf(u)] + G[u \ {OneOf(u)}]]
    <3> HIDE DEF k
    <3>3. /\ G \in [SUBSET S -> Int] /\ G[{}] = 0
          /\ \A u \in SUBSET S : u # {} /\ Cardinality(u) <= k => G[u] = f[OneOf(u)] + G[u \ {OneOf(u)}]
      BY <3>2 DEF SumsUpTo
    <3>4. \A u \in SUBSET S : u # {} => f[OneOf(u)] \in Int /\ u \ {OneOf(u)} \in SUBSET S
      BY OneLess
    <3>5. H \in [SUBSET S -> Int]
      BY <3>3, <3>4
    <3>6. \A u \in SUBSET S : H[u] = IF u = {} THEN 0 ELSE f[OneOf(u)] + G[u \ {OneOf(u)}]
      OBVIOUS
    <3> HIDE DEF H
    <3>7. ASSUME NEW u \in SUBSET S, Cardinality(u) <= k PROVE H[u] = G[u]
      BY <3>3, <3>6, <3>7
    <3>8. ASSUME NEW u \in SUBSET S, u # {}, Cardinality(u) <= k + 1
          PROVE  H[u] = f[OneOf(u)] + H[u \ {OneOf(u)}]
      <4> DEFINE v == u \ {OneOf(u)}
      <4>1. v \in SUBSET S /\ Cardinality(v) = Cardinality(u) - 1 /\ Cardinality(u) \in Nat
        BY <3>8, OneLess
      <4> HIDE DEF v
      <4>2. Cardinality(v) <= k
        BY <4>1, <3>8, <3>1
      <4>3. H[v] = G[v]
        BY <4>1, <4>2, <3>7
      <4> QED BY <3>6, <3>8, <4>3 DEF v
    <3>9. H[{}] = 0
      BY <3>6
    <3>10. SumsUpTo(H, S, f, Cardinality(s))
      BY <3>1, <3>5, <3>8, <3>9 DEF SumsUpTo
    <3> HIDE DEF r
    <3> QED BY <3>10
  <2> QED BY <2>1, <2>2
<1>2. \A s \in SUBSET S : (\A x \in s : s \ {x} \in P) => s \in P
  <2> HIDE DEF P
  <2> QED BY <1>1
<1>3. S \in P
  <2> HIDE DEF P
  <2>1. \A s \in SUBSET S : s \in P
    BY <1>2, SubsetInduction
  <2> QED BY <2>1
<1>4. PICK F : SumsUpTo(F, S, f, Cardinality(S))
  BY <1>3
<1>5. \A s \in SUBSET S : Cardinality(s) <= Cardinality(S)
  BY OneLess
<1>6. Sums(F, S, f)
  BY <1>4, <1>5 DEF SumsUpTo, Sums
<1> QED BY <1>6

\* Any element may be taken first.
LEMMA SumsAny ==
    ASSUME NEW S, IsFiniteSet(S), NEW f \in [S -> Int], NEW F, Sums(F, S, f)
    PROVE  AnyFirst(F, S, f)
<1>1. /\ F \in [SUBSET S -> Int] /\ F[{}] = 0
      /\ \A s \in SUBSET S : s # {} => F[s] = f[OneOf(s)] + F[s \ {OneOf(s)}]
  BY DEF Sums
<1> DEFINE P == {s \in SUBSET S : \A x \in s : F[s] = f[x] + F[s \ {x}]}
<1>2. ASSUME NEW s \in SUBSET S, \A x \in s : s \ {x} \in P
      PROVE  s \in P
  <2> SUFFICES ASSUME NEW x \in s PROVE F[s] = f[x] + F[s \ {x}]
    OBVIOUS
  <2> DEFINE c == OneOf(s)
  <2>1. c \in s /\ F[s] = f[c] + F[s \ {c}]
    BY <1>1, OneLess
  <2> HIDE DEF c
  <2>2. CASE x = c
    BY <2>1, <2>2
  <2>3. CASE x # c
    <3>1. s \ {c} \in P /\ s \ {x} \in P
      BY <1>2, <2>1
    <3>2. x \in s \ {c} /\ c \in s \ {x}
      BY <2>1, <2>3
    <3>3. F[s \ {c}] = f[x] + F[(s \ {c}) \ {x}] /\ F[s \ {x}] = f[c] + F[(s \ {x}) \ {c}]
      BY <3>1, <3>2
    <3> DEFINE r == s \ {c, x}
    <3>4. (s \ {c}) \ {x} = r /\ (s \ {x}) \ {c} = r /\ r \in SUBSET S
      OBVIOUS
    <3> HIDE DEF r
    <3>5. f[c] \in Int /\ f[x] \in Int /\ F[r] \in Int
      BY <1>1, <2>1, <3>4
    <3> DEFINE y == F[r]
    <3>6. F[s \ {c}] = f[x] + y /\ F[s \ {x}] = f[c] + y /\ y \in Int
      BY <3>3, <3>4, <3>5
    <3> HIDE DEF y
    <3> QED BY <2>1, <3>5, <3>6
  <2> QED BY <2>2, <2>3
<1>3. \A s \in SUBSET S : s \in P
  <2> HIDE DEF P
  <2> QED BY <1>2, SubsetInduction
<1>4. ASSUME NEW s \in SUBSET S, NEW x \in S, x \in s PROVE F[s] = f[x] + F[s \ {x}]
  <2>1. s \in P
    BY <1>3
  <2> QED BY <1>4, <2>1
<1> QED BY <1>4 DEF AnyFirst

\* Whatever obeys the equations is the sum, and functions that differ by a
\* number on every element have sums that differ by a multiple of it.
LEMMA SumsShift ==
    ASSUME NEW S, IsFiniteSet(S), NEW f \in [S -> Int], NEW F, Sums(F, S, f), NEW c \in Int,
           NEW G, SumsMore(G, S, f, c)
    PROVE  \A s \in SUBSET S : G[s] = F[s] + c * Cardinality(s)
<1>1. /\ F \in [SUBSET S -> Int] /\ F[{}] = 0
      /\ \A s \in SUBSET S : s # {} => F[s] = f[OneOf(s)] + F[s \ {OneOf(s)}]
  BY DEF Sums
<1>0. /\ G[{}] = 0
      /\ \A s \in SUBSET S : s # {} => G[s] = (f[OneOf(s)] + c) + G[s \ {OneOf(s)}]
  BY DEF SumsMore
<1> DEFINE P == {s \in SUBSET S : G[s] = F[s] + c * Cardinality(s)}
<1>2. ASSUME NEW s \in SUBSET S, \A x \in s : s \ {x} \in P
      PROVE  s \in P
  <2>1. CASE s = {}
    <3>1. Cardinality(s) = 0 /\ F[s] = 0 /\ G[s] = 0
      BY <1>0, <1>1, <2>1, FS_EmptySet
    <3>2. c * 0 = 0
      OBVIOUS
    <3> QED BY <3>1, <3>2
  <2>2. CASE s # {}
    <3> DEFINE x == OneOf(s)
               r == s \ {x}
               m == Cardinality(r)
               n == Cardinality(s)
    <3>1. x \in s /\ n \in Nat /\ r \in SUBSET S /\ m = n - 1
      <4>1. x \in s /\ n \in Nat
        BY <2>2, OneLess
      <4> HIDE DEF x
      <4> QED BY <4>1, OneLess
    <3>2. F[s] = f[x] + F[r] /\ G[s] = (f[x] + c) + G[r]
      BY <1>0, <1>1, <2>2
    <3> HIDE DEF x, m, n
    <3>3. G[r] = F[r] + c * m
      BY <1>2, <3>1 DEF m
    <3>4. f[x] \in Int /\ F[r] \in Int
      BY <1>1, <3>1
    <3> HIDE DEF r
    <3> DEFINE y == F[r]
    <3>5. y \in Int /\ F[s] = f[x] + y /\ G[s] = (f[x] + c) + (y + c * m)
      BY <3>2, <3>3, <3>4
    <3> HIDE DEF y
    <3>6. c * n = c * m + c
      BY <3>1
    <3>7. c * m \in Int
      BY <3>1
    <3>8. G[s] = F[s] + c * n
      BY <3>4, <3>5, <3>6, <3>7
    <3> QED BY <3>8 DEF n
  <2> QED BY <2>1, <2>2
<1>3. \A s \in SUBSET S : s \in P
  <2> HIDE DEF P
  <2> QED BY <1>2, SubsetInduction
<1> QED BY <1>3

\* Sums over part of the set.
LEMMA SumsOfPart ==
    ASSUME NEW S, IsFiniteSet(S), NEW f \in [S -> Int], NEW F, Sums(F, S, f), NEW T \in SUBSET S,
           NEW G, G = Restrict(F, SUBSET T), NEW g, g = Restrict(f, T)
    PROVE  Sums(G, T, g)
<1>0. G = [s \in SUBSET T |-> F[s]] /\ g = [x \in T |-> f[x]]
  BY DEF Restrict
<1>1. /\ F \in [SUBSET S -> Int] /\ F[{}] = 0
      /\ \A s \in SUBSET S : s # {} => F[s] = f[OneOf(s)] + F[s \ {OneOf(s)}]
  BY DEF Sums
<1>2. \A s \in SUBSET T : s \in SUBSET S /\ G[s] = F[s]
  BY <1>0
<1>3. \A x \in T : g[x] = f[x]
  BY <1>0
<1>4. G \in [SUBSET T -> Int]
  BY <1>0, <1>1
<1>5. ASSUME NEW s \in SUBSET T, s # {} PROVE G[s] = g[OneOf(s)] + G[s \ {OneOf(s)}]
  <2>1. OneOf(s) \in s
    BY <1>5, <1>2, OneLess
  <2>2. OneOf(s) \in T /\ s \ {OneOf(s)} \in SUBSET T /\ s \in SUBSET S
    BY <2>1
  <2> QED BY <1>1, <1>2, <1>3, <1>5, <2>2
<1>6. G[{}] = 0
  BY <1>1, <1>2
<1> QED BY <1>4, <1>5, <1>6 DEF Sums

\* SizesOf is the sum of the sizes.
LEMMA SizesAre ==
    ASSUME NEW S, IsFiniteSet(S), NEW f \in [S -> Int], \A p \in S : f[p] = p.size,
           NEW F, Sums(F, S, f)
    PROVE  SizesOf(S) = F[S]
<1> DEFINE Eq(g) == g = [s \in SUBSET S |-> IF s = {} THEN 0
                                            ELSE OneOf(s).size + g[s \ {OneOf(s)}]]
           G == CHOOSE g : Eq(g)
<1>1. /\ F \in [SUBSET S -> Int] /\ F[{}] = 0
      /\ \A s \in SUBSET S : s # {} => F[s] = f[OneOf(s)] + F[s \ {OneOf(s)}]
  BY DEF Sums
<1>2. \A s \in SUBSET S : s # {} => OneOf(s) \in S /\ f[OneOf(s)] = OneOf(s).size
  BY OneLess
<1>3. Eq(F)
  <2>1. F = [s \in SUBSET S |-> F[s]]
    BY <1>1
  <2>2. \A s \in SUBSET S : F[s] = IF s = {} THEN 0 ELSE OneOf(s).size + F[s \ {OneOf(s)}]
    BY <1>1, <1>2
  <2> QED BY <2>1, <2>2
<1>4. SizesOf(S) = G[S]
  BY DEF SizesOf, MapThenSumSet, MapThenFoldSet, OneOf
<1>5. Eq(G)
  BY <1>3
<1> HIDE DEF G
<1>6. \A s \in SUBSET S : G[s] = IF s = {} THEN 0 ELSE OneOf(s).size + G[s \ {OneOf(s)}]
  BY <1>5
<1>7. \A s \in SUBSET S : s # {} => G[s] = (f[OneOf(s)] + 0) + G[s \ {OneOf(s)}]
  <2> TAKE s \in SUBSET S
  <2> HAVE s # {}
  <2>1. f[OneOf(s)] + 0 = OneOf(s).size
    BY <1>2
  <2> QED BY <1>6, <2>1
<1>8. G[{}] = 0
  BY <1>6
<1>9. G[S] = F[S] + 0 * Cardinality(S)
  <2>1. SumsMore(G, S, f, 0)
    BY <1>7, <1>8 DEF SumsMore
  <2> QED BY <2>1, SumsShift
<1>10. Cardinality(S) \in Nat /\ F[S] \in Int
  BY <1>1, FS_CardinalityType
<1> QED BY <1>4, <1>9, <1>10

\* Packets whose numbers can be summed up.
Numbered(S) == IsFiniteSet(S) /\ \A p \in S : p.size \in Int /\ p.accSize \in Int

\* The sum of the sizes is a number, 0 of no packets, and any packet may be
\* taken first.
LEMMA SizesFacts ==
    ASSUME NEW S, Numbered(S)
    PROVE  /\ SizesOf(S) \in Int /\ (S = {} => SizesOf(S) = 0)
           /\ \A p \in S : SizesOf(S) = p.size + SizesOf(S \ {p})
<1>0. IsFiniteSet(S) /\ \A p \in S : p.size \in Int
  BY DEF Numbered
<1> DEFINE f == [p \in S |-> p.size]
<1>1. f \in [S -> Int] /\ \A p \in S : f[p] = p.size
  BY <1>0
<1> HIDE DEF f
<1>2. PICK F : Sums(F, S, f)
  BY <1>0, <1>1, SumsExist
<1>3. F \in [SUBSET S -> Int] /\ F[{}] = 0
  BY <1>2 DEF Sums
<1>4. SizesOf(S) = F[S]
  BY <1>0, <1>1, <1>2, SizesAre
<1>5. ASSUME NEW p \in S PROVE SizesOf(S) = p.size + SizesOf(S \ {p})
  <2> PICK T : T = S \ {p}
    OBVIOUS
  <2> PICK G : G = Restrict(F, SUBSET T)
    OBVIOUS
  <2> PICK g : g = Restrict(f, T)
    OBVIOUS
  <2>1. T \in SUBSET S /\ IsFiniteSet(T)
    <3>1. T \in SUBSET S
      OBVIOUS
    <3> QED BY <1>0, <3>1, FS_Subset
  <2>2. Sums(G, T, g)
    BY <1>0, <1>1, <1>2, <2>1, SumsOfPart
  <2>3. g \in [T -> Int] /\ (\A x \in T : g[x] = x.size) /\ G[T] = F[T]
    BY <1>1, <2>1 DEF Restrict
  <2>4. SizesOf(T) = G[T]
    BY <2>1, <2>2, <2>3, SizesAre
  <2>5. F[S] = f[p] + F[T]
    <3>1. AnyFirst(F, S, f)
      BY <1>0, <1>1, <1>2, SumsAny
    <3> QED BY <3>1 DEF AnyFirst
  <2> QED BY <1>1, <1>4, <2>3, <2>4, <2>5
<1> QED BY <1>3, <1>4, <1>5

\* A packet more adds its size.
LEMMA SizesAdd ==
    ASSUME NEW S, Numbered(S), NEW p, p.size \in Int, p.accSize \in Int, p \notin S
    PROVE  SizesOf(S \cup {p}) = SizesOf(S) + p.size
<1> DEFINE T == S \cup {p}
<1>1. p \in T /\ T \ {p} = S
  OBVIOUS
<1>4. Numbered(T)
  BY FS_AddElement DEF Numbered
<1> HIDE DEF T
<1>2. SizesOf(T) = p.size + SizesOf(S)
  BY <1>1, <1>4, SizesFacts
<1>3. SizesOf(S) \in Int
  BY SizesFacts
<1> QED BY <1>2, <1>3 DEF T

\* The same of what the packets of a queue have been sent.
SentSo(p, a) == p.size - (p.accSize - a)

SentMore(S, f, b, c) == \A p \in S : SentSo(p, b) = f[p] + c

SentBy(S, f, a) == \A p \in S : f[p] = SentSo(p, a)

\* SentOf is the sum too, when f is what has been sent at an accSize lower by c.
LEMMA SentAre ==
    ASSUME NEW S, IsFiniteSet(S), NEW f \in [S -> Int], NEW c \in Int, NEW b \in Int,
           SentMore(S, f, b, c), NEW F, Sums(F, S, f)
    PROVE  SentOf(S, b) = F[S] + c * Cardinality(S)
<1> DEFINE Eq(g) == g = [s \in SUBSET S |-> IF s = {} THEN 0
                                            ELSE SentSo(OneOf(s), b) + g[s \ {OneOf(s)}]]
           G == CHOOSE g : Eq(g)
<1> DEFINE h == [p \in S |-> f[p] + c]
<1>1. h \in [S -> Int]
  OBVIOUS
<1>2. PICK H : Sums(H, S, h)
  <2> HIDE DEF h
  <2> QED BY <1>1, SumsExist
<1>3. /\ H \in [SUBSET S -> Int] /\ H[{}] = 0
      /\ \A s \in SUBSET S : s # {} => H[s] = h[OneOf(s)] + H[s \ {OneOf(s)}]
  <2> HIDE DEF h
  <2> QED BY <1>1, <1>2 DEF Sums
<1>4. \A s \in SUBSET S : s # {} => /\ OneOf(s) \in S /\ h[OneOf(s)] = SentSo(OneOf(s), b)
                                    /\ SentSo(OneOf(s), b) = f[OneOf(s)] + c
  BY OneLess DEF SentMore
<1> HIDE DEF h
<1>5. Eq(H)
  <2>1. H = [s \in SUBSET S |-> H[s]]
    BY <1>3
  <2>2. \A s \in SUBSET S : H[s] = IF s = {} THEN 0 ELSE SentSo(OneOf(s), b) + H[s \ {OneOf(s)}]
    BY <1>3, <1>4
  <2> QED BY <2>1, <2>2
<1>6. SentOf(S, b) = G[S]
  BY DEF SentOf, MapThenSumSet, MapThenFoldSet, OneOf, SentSo
<1>7. Eq(G)
  BY <1>5
<1> HIDE DEF G
<1>8. \A s \in SUBSET S : G[s] = IF s = {} THEN 0 ELSE SentSo(OneOf(s), b) + G[s \ {OneOf(s)}]
  BY <1>7
<1>9. \A s \in SUBSET S : s # {} => G[s] = (f[OneOf(s)] + c) + G[s \ {OneOf(s)}]
  BY <1>4, <1>8
<1>10. G[{}] = 0
  BY <1>8
<1>11. \A s \in SUBSET S : G[s] = F[s] + c * Cardinality(s)
  <2>1. SumsMore(G, S, f, c)
    BY <1>9, <1>10 DEF SumsMore
  <2> QED BY <2>1, SumsShift
<1> QED BY <1>6, <1>11

\* The same when f is what has been sent at this accSize.
LEMMA SentIs ==
    ASSUME NEW S, IsFiniteSet(S), NEW f \in [S -> Int], NEW a \in Int, SentBy(S, f, a),
           NEW F, Sums(F, S, f)
    PROVE  SentOf(S, a) = F[S]
<1> PICK c \in Int : c = 0
  OBVIOUS
<1>0. \A p \in S : f[p] \in Int /\ f[p] + 0 = f[p]
  OBVIOUS
<1>1. SentMore(S, f, a, c)
  BY <1>0 DEF SentMore, SentBy
<1>2. SentOf(S, a) = F[S] + c * Cardinality(S)
  BY <1>1, SentAre
<1>3. Cardinality(S) \in Nat /\ F[S] \in Int
  BY FS_CardinalityType DEF Sums
<1> QED BY <1>2, <1>3

\* The same for some of the packets.
LEMMA SentOfPart ==
    ASSUME NEW S, IsFiniteSet(S), NEW f \in [S -> Int], NEW a \in Int, SentBy(S, f, a),
           NEW F, Sums(F, S, f), NEW T \in SUBSET S
    PROVE  SentOf(T, a) = F[T]
<1>1. \A G, g : G = Restrict(F, SUBSET T) /\ g = Restrict(f, T) => SentOf(T, a) = G[T]
  <2> TAKE G, g
  <2> HAVE G = Restrict(F, SUBSET T) /\ g = Restrict(f, T)
  <2>1. Sums(G, T, g)
    BY SumsOfPart
  <2>2. g \in [T -> Int] /\ SentBy(T, g, a)
    BY DEF SentBy, Restrict
  <2>3. IsFiniteSet(T)
    BY FS_Subset
  <2> QED BY <2>1, <2>2, <2>3, SentIs
<1>2. Restrict(F, SUBSET T)[T] = F[T]
  BY DEF Restrict
<1> QED BY <1>1, <1>2

\* What adding to accSize and taking away a packet do to that sum.
LEMMA SentFacts ==
    ASSUME NEW S, Numbered(S), NEW a \in Int
    PROVE  /\ SentOf(S, a) \in Int /\ (S = {} => SentOf(S, a) = 0)
           /\ \A c \in Int : SentOf(S, a + c) = SentOf(S, a) + c * Cardinality(S)
           /\ \A p \in S : SentOf(S, a) = SentSo(p, a) + SentOf(S \ {p}, a)
<1>0. IsFiniteSet(S) /\ \A p \in S : p.size \in Int /\ p.accSize \in Int
  BY DEF Numbered
<1> DEFINE f == [p \in S |-> SentSo(p, a)]
<1>1. f \in [S -> Int] /\ SentBy(S, f, a) /\ \A p \in S : f[p] = SentSo(p, a)
  BY <1>0 DEF SentSo, SentBy
<1> HIDE DEF f
<1>2. PICK F : Sums(F, S, f)
  BY <1>0, <1>1, SumsExist
<1>3. F \in [SUBSET S -> Int] /\ F[{}] = 0
  BY <1>2 DEF Sums
<1>4. ASSUME NEW c \in Int PROVE SentOf(S, a + c) = F[S] + c * Cardinality(S)
  <2> PICK b \in Int : b = a + c
    OBVIOUS
  <2>1. SentMore(S, f, b, c)
    BY <1>0, <1>1 DEF SentSo, SentMore
  <2>2. IsFiniteSet(S) /\ f \in [S -> Int] /\ Sums(F, S, f)
    BY <1>0, <1>1, <1>2
  <2>3. SentOf(S, b) = F[S] + c * Cardinality(S)
    BY <2>1, <2>2, SentAre
  <2> QED BY <2>3
<1>5. SentOf(S, a) = F[S]
  <2>1. IsFiniteSet(S) /\ f \in [S -> Int] /\ Sums(F, S, f) /\ SentBy(S, f, a)
    BY <1>0, <1>1, <1>2
  <2> QED BY <2>1, SentIs
<1>6. ASSUME NEW p \in S PROVE SentOf(S, a) = SentSo(p, a) + SentOf(S \ {p}, a)
  <2> PICK T : T = S \ {p}
    OBVIOUS
  <2>1. IsFiniteSet(S) /\ f \in [S -> Int] /\ Sums(F, S, f) /\ SentBy(S, f, a) /\ T \in SUBSET S
    BY <1>0, <1>1, <1>2
  <2>2. SentOf(T, a) = F[T]
    BY <2>1, SentOfPart
  <2>3. F[S] = f[p] + F[T]
    <3>1. AnyFirst(F, S, f)
      BY <2>1, SumsAny
    <3> QED BY <3>1 DEF AnyFirst
  <2> QED BY <1>1, <1>5, <2>2, <2>3
<1>7. S = {} => F[S] = 0
  BY <1>3
<1> QED BY <1>3, <1>4, <1>5, <1>6, <1>7

-----------------------------------------------------------------------------
(***************************************************************************)
(* Which packets there are and in what order, of a link with queue Q, list *)
(* W of waiting packets and accSize acc, when D has been delivered and A   *)
(* packets have arrived.                                                   *)
(***************************************************************************)
Same(Q, W, D) == \A p, q \in Q \cup ToSet(W) \cup ToSet(D) : p.size = q.size

\* Every packet is in one place, and those that wait do so in the order they
\* came.
Books(Q, W, D, A) ==
    /\ Q \subseteq Packet /\ IsFiniteSet(Q) /\ W \in Seq(Packet) /\ D \in Seq(Packet) /\ A \in Nat
    /\ \A p \in Q \cup ToSet(W) \cup ToSet(D) : p.packet \in 1..A
    /\ Q \cap ToSet(D) = {}
    /\ \A p \in Q \cup ToSet(D), q \in ToSet(W) : p.packet # q.packet
    /\ \A i, j \in DOMAIN W : i < j => W[i].packet < W[j].packet
    /\ Cardinality(Q) + Len(W) <= A

\* No packet is further from its end than when it was pushed.  With packets
\* of one size, those that wait came last, the others end in the order they
\* came, and those delivered did.
Ordered(Q, W, D, acc) ==
    /\ acc \in Nat
    /\ \A p \in Q : p.accSize <= acc + p.size
    /\ Same(Q, W, D) =>
          /\ \A p \in Q \cup ToSet(D), q \in ToSet(W) : p.packet < q.packet
          /\ \A p, q \in Q : p.packet < q.packet => p.accSize <= q.accSize
          /\ \A d \in ToSet(D), q \in Q : d.packet > q.packet => d.accSize = q.accSize
          /\ \A i, j \in DOMAIN D : i < j /\ D[i].packet > D[j].packet => D[i].accSize = D[j].accSize

\* The values of a sequence with one more.
LEMMA ValuesAppend ==
    ASSUME NEW V, NEW D \in Seq(V), NEW p \in V
    PROVE  /\ Append(D, p) \in Seq(V) /\ Len(Append(D, p)) = Len(D) + 1 /\ Len(D) \in Nat
           /\ DOMAIN Append(D, p) = DOMAIN D \cup {Len(D) + 1}
           /\ \A i \in DOMAIN D : Append(D, p)[i] = D[i] /\ i < Len(D) + 1 /\ i \in Nat
           /\ Append(D, p)[Len(D) + 1] = p
           /\ ToSet(Append(D, p)) = ToSet(D) \cup {p}
           /\ \A x \in ToSet(D) : x \in V
<1>1. /\ Append(D, p) \in Seq(V) /\ Len(Append(D, p)) = Len(D) + 1 /\ Len(D) \in Nat
      /\ DOMAIN D = 1..Len(D)
      /\ DOMAIN Append(D, p) = 1..(Len(D) + 1)
      /\ \A i \in DOMAIN D : Append(D, p)[i] = D[i] /\ D[i] \in V
      /\ Append(D, p)[Len(D) + 1] = p
  OBVIOUS
<1>2. DOMAIN Append(D, p) = DOMAIN D \cup {Len(D) + 1}
  BY <1>1
<1>3. \A i \in DOMAIN D : i < Len(D) + 1 /\ i \in Nat
  BY <1>1
<1>4. ToSet(Append(D, p)) = ToSet(D) \cup {p}
  <2> DEFINE E == Append(D, p)
             m == Len(D) + 1
  <2>1. DOMAIN E = DOMAIN D \cup {m} /\ (\A i \in DOMAIN D : E[i] = D[i]) /\ E[m] = p
    BY <1>1, <1>2
  <2> HIDE DEF E, m
  <2>2. ToSet(E) = ToSet(D) \cup {p}
    BY <2>1 DEF ToSet
  <2> QED BY <2>2 DEF E
<1>5. \A x \in ToSet(D) : x \in V
  BY <1>1 DEF ToSet
<1> QED BY <1>1, <1>2, <1>3, <1>4, <1>5

\* The values of a sequence without the first.
LEMMA ValuesTail ==
    ASSUME NEW V, NEW W \in Seq(V), W # <<>>
    PROVE  /\ Tail(W) \in Seq(V) /\ Len(Tail(W)) = Len(W) - 1 /\ Len(W) \in Nat
           /\ Head(W) \in V /\ Head(W) = W[1] /\ 1 \in DOMAIN W
           /\ \A i \in DOMAIN Tail(W) : /\ i \in Nat \ {0} /\ i + 1 \in DOMAIN W
                                        /\ Tail(W)[i] = W[i + 1]
           /\ ToSet(W) = ToSet(Tail(W)) \cup {Head(W)}
<1>1. /\ Tail(W) \in Seq(V) /\ Len(Tail(W)) = Len(W) - 1 /\ Len(W) \in Nat /\ Len(W) > 0
      /\ Head(W) \in V /\ Head(W) = W[1]
      /\ DOMAIN W = 1..Len(W) /\ DOMAIN Tail(W) = 1..(Len(W) - 1)
      /\ \A i \in DOMAIN Tail(W) : Tail(W)[i] = W[i + 1]
  OBVIOUS
<1>2. /\ 1 \in DOMAIN W
      /\ \A i \in DOMAIN Tail(W) : i \in Nat \ {0} /\ i + 1 \in DOMAIN W
      /\ \A i \in DOMAIN W : i = 1 \/ (i - 1 \in DOMAIN Tail(W) /\ (i - 1) + 1 = i)
  BY <1>1
<1>3. ToSet(W) = ToSet(Tail(W)) \cup {Head(W)}
  <2> DEFINE T == Tail(W)
             h == Head(W)
  <2>1. /\ \A i \in DOMAIN T : i + 1 \in DOMAIN W /\ T[i] = W[i + 1]
        /\ 1 \in DOMAIN W /\ W[1] = h
        /\ \A i \in DOMAIN W : i = 1 \/ (i - 1 \in DOMAIN T /\ (i - 1) + 1 = i)
    BY <1>1, <1>2
  <2> HIDE DEF T, h
  <2>2. \A x \in ToSet(W) : x \in ToSet(T) \cup {h}
    <3> TAKE x \in ToSet(W)
    <3>1. PICK i \in DOMAIN W : x = W[i]
      BY DEF ToSet
    <3>2. CASE i = 1
      BY <2>1, <3>1, <3>2
    <3>3. CASE i # 1
      <4>1. i - 1 \in DOMAIN T /\ T[i - 1] = x
        BY <2>1, <3>1, <3>3
      <4> QED BY <4>1 DEF ToSet
    <3> QED BY <3>2, <3>3
  <2>3. \A x \in ToSet(T) \cup {h} : x \in ToSet(W)
    BY <2>1 DEF ToSet
  <2>4. ToSet(W) = ToSet(T) \cup {h}
    BY <2>2, <2>3
  <2> QED BY <2>4 DEF T, h
<1> QED BY <1>1, <1>2, <1>3

\* A packet that has just arrived is pushed, or waits.
LEMMA BooksArrive ==
    ASSUME NEW Q, NEW W, NEW D, NEW A, Books(Q, W, D, A), NEW q \in Packet, q.packet = A + 1
    PROVE  /\ Books(Q \cup {q}, W, D, A + 1) /\ q \notin Q
           /\ Books(Q, Append(W, q), D, A + 1)
<1>1. /\ Q \subseteq Packet /\ IsFiniteSet(Q) /\ W \in Seq(Packet) /\ D \in Seq(Packet) /\ A \in Nat
      /\ \A p \in Q \cup ToSet(W) \cup ToSet(D) : p.packet \in 1..A
      /\ Q \cap ToSet(D) = {}
      /\ \A p \in Q \cup ToSet(D), r \in ToSet(W) : p.packet # r.packet
      /\ \A i, j \in DOMAIN W : i < j => W[i].packet < W[j].packet
      /\ Cardinality(Q) + Len(W) <= A
  BY DEF Books
<1>2. q \notin Q \cup ToSet(W) \cup ToSet(D)
  BY <1>1
<1>3. \A p \in Q \cup ToSet(W) \cup ToSet(D) : p.packet \in 1..(A + 1) /\ p.packet < A + 1
  BY <1>1
<1>4. A + 1 \in 1..(A + 1) /\ A + 1 \in Nat
  BY <1>1
<1>5. Cardinality(Q) \in Nat /\ Len(W) \in Nat
  BY <1>1, FS_CardinalityType
<1>6. Books(Q \cup {q}, W, D, A + 1)
  <2>1. IsFiniteSet(Q \cup {q}) /\ Cardinality(Q \cup {q}) = Cardinality(Q) + 1
    BY <1>1, <1>2, FS_AddElement
  <2>2. Cardinality(Q \cup {q}) + Len(W) <= A + 1
    BY <1>1, <1>5, <2>1
  <2>3. \A p \in (Q \cup {q}) \cup ToSet(D), r \in ToSet(W) : p.packet # r.packet
    BY <1>1, <1>3
  <2>4. (Q \cup {q}) \cap ToSet(D) = {}
    BY <1>1, <1>2
  <2>5. \A p \in (Q \cup {q}) \cup ToSet(W) \cup ToSet(D) : p.packet \in 1..(A + 1)
    BY <1>3, <1>4
  <2> QED BY <1>1, <1>4, <2>1, <2>2, <2>3, <2>4, <2>5 DEF Books
<1>7. Books(Q, Append(W, q), D, A + 1)
  <2> DEFINE V == Append(W, q)
             m == Len(W) + 1
  <2>1. /\ V \in Seq(Packet) /\ Len(V) = m /\ DOMAIN V = DOMAIN W \cup {m}
        /\ \A i \in DOMAIN W : V[i] = W[i] /\ i < m /\ i \in Nat
        /\ V[m] = q /\ ToSet(V) = ToSet(W) \cup {q} /\ m \in Nat
    BY <1>1, ValuesAppend
  <2>2. Cardinality(Q) + m <= A + 1
    BY <1>1, <1>5
  <2> HIDE DEF V, m
  <2>3. \A i, j \in DOMAIN V : i < j => V[i].packet < V[j].packet
    <3> TAKE i, j \in DOMAIN V
    <3> HAVE i < j
    <3>1. i \in DOMAIN W
      BY <2>1
    <3>2. W[i] \in ToSet(W)
      BY <3>1 DEF ToSet
    <3>3. W[i].packet < A + 1
      BY <1>3, <3>2
    <3>4. CASE j \in DOMAIN W
      BY <1>1, <2>1, <3>1, <3>4
    <3>5. CASE j = m
      BY <2>1, <3>1, <3>3, <3>5
    <3> QED BY <2>1, <3>4, <3>5
  <2>4. \A p \in Q \cup ToSet(D), r \in ToSet(V) : p.packet # r.packet
    BY <1>1, <1>3, <2>1
  <2>5. \A p \in Q \cup ToSet(V) \cup ToSet(D) : p.packet \in 1..(A + 1)
    BY <1>3, <1>4, <2>1
  <2>6. Books(Q, V, D, A + 1)
    BY <1>1, <1>4, <2>1, <2>2, <2>3, <2>4, <2>5 DEF Books
  <2> QED BY <2>6 DEF V
<1> QED BY <1>2, <1>6, <1>7

\* A packet is delivered.
LEMMA BooksLeave ==
    ASSUME NEW Q, NEW W, NEW D, NEW A, Books(Q, W, D, A), NEW p \in Q
    PROVE  Books(Q \ {p}, W, Append(D, p), A) /\ p \notin ToSet(D)
<1>1. /\ Q \subseteq Packet /\ IsFiniteSet(Q) /\ W \in Seq(Packet) /\ D \in Seq(Packet) /\ A \in Nat
      /\ \A r \in Q \cup ToSet(W) \cup ToSet(D) : r.packet \in 1..A
      /\ Q \cap ToSet(D) = {}
      /\ \A r \in Q \cup ToSet(D), v \in ToSet(W) : r.packet # v.packet
      /\ \A i, j \in DOMAIN W : i < j => W[i].packet < W[j].packet
      /\ Cardinality(Q) + Len(W) <= A
  BY DEF Books
<1> DEFINE R == Q \ {p}
           E == Append(D, p)
<1>2. E \in Seq(Packet) /\ ToSet(E) = ToSet(D) \cup {p}
  BY <1>1, ValuesAppend
<1>3. IsFiniteSet(R) /\ Cardinality(R) + Len(W) <= A
  <2>1. IsFiniteSet(R) /\ Cardinality(R) = Cardinality(Q) - 1
    BY <1>1, FS_RemoveElement
  <2>2. Cardinality(Q) \in Nat /\ Len(W) \in Nat
    BY <1>1, FS_CardinalityType
  <2> HIDE DEF R
  <2> QED BY <1>1, <2>1, <2>2
<1> HIDE DEF E
<1>4. Books(R, W, E, A)
  <2>1. \A r \in R \cup ToSet(W) \cup ToSet(E) : r.packet \in 1..A
    BY <1>1, <1>2
  <2>2. R \cap ToSet(E) = {}
    BY <1>1, <1>2
  <2>3. \A r \in R \cup ToSet(E), v \in ToSet(W) : r.packet # v.packet
    BY <1>1, <1>2
  <2>4. R \subseteq Packet
    BY <1>1
  <2> HIDE DEF R
  <2> QED BY <1>1, <1>2, <1>3, <2>1, <2>2, <2>3, <2>4 DEF Books
<1> QED BY <1>1, <1>4 DEF E

\* The first packet that waits is pushed.
LEMMA BooksPull ==
    ASSUME NEW Q, NEW W, NEW D, NEW A, Books(Q, W, D, A), W # <<>>, NEW q \in Packet,
           q.packet = Head(W).packet
    PROVE  Books(Q \cup {q}, Tail(W), D, A) /\ q \notin Q
<1>1. /\ Q \subseteq Packet /\ IsFiniteSet(Q) /\ W \in Seq(Packet) /\ D \in Seq(Packet) /\ A \in Nat
      /\ \A r \in Q \cup ToSet(W) \cup ToSet(D) : r.packet \in 1..A
      /\ Q \cap ToSet(D) = {}
      /\ \A r \in Q \cup ToSet(D), v \in ToSet(W) : r.packet # v.packet
      /\ \A i, j \in DOMAIN W : i < j => W[i].packet < W[j].packet
      /\ Cardinality(Q) + Len(W) <= A
  BY DEF Books
<1> DEFINE T == Tail(W)
           h == Head(W)
<1>2. /\ T \in Seq(Packet) /\ Len(T) = Len(W) - 1 /\ Len(W) \in Nat
      /\ h = W[1] /\ 1 \in DOMAIN W
      /\ \A i \in DOMAIN T : i \in Nat \ {0} /\ i + 1 \in DOMAIN W /\ T[i] = W[i + 1]
      /\ ToSet(W) = ToSet(T) \cup {h}
  BY <1>1, ValuesTail
<1> HIDE DEF T, h
<1>3. q.packet = h.packet
  BY DEF h
<1>4. q \notin Q \cup ToSet(D)
  BY <1>1, <1>2, <1>3
<1>5. \A v \in ToSet(T) : q.packet < v.packet
  <2> TAKE v \in ToSet(T)
  <2>1. PICK i \in DOMAIN T : v = T[i]
    BY DEF ToSet
  <2>2. i + 1 \in DOMAIN W /\ v = W[i + 1] /\ 1 < i + 1
    BY <1>2, <2>1
  <2> QED BY <1>1, <1>2, <1>3, <2>2
<1>6. \A i, j \in DOMAIN T : i < j => T[i].packet < T[j].packet
  <2> TAKE i, j \in DOMAIN T
  <2> HAVE i < j
  <2>1. i + 1 \in DOMAIN W /\ j + 1 \in DOMAIN W /\ i + 1 < j + 1
    BY <1>2
  <2> QED BY <1>1, <1>2, <2>1
<1>7. IsFiniteSet(Q \cup {q}) /\ Cardinality(Q \cup {q}) + Len(T) <= A
  <2>1. IsFiniteSet(Q \cup {q}) /\ Cardinality(Q \cup {q}) = Cardinality(Q) + 1
    BY <1>1, <1>4, FS_AddElement
  <2>2. Cardinality(Q) \in Nat
    BY <1>1, FS_CardinalityType
  <2> QED BY <1>1, <1>2, <2>1, <2>2
<1>8. \A r \in (Q \cup {q}) \cup ToSet(T) \cup ToSet(D) : r.packet \in 1..A
  BY <1>1, <1>2, <1>3
<1>9. \A r \in (Q \cup {q}) \cup ToSet(D), v \in ToSet(T) : r.packet # v.packet
  <2>1. \A v \in ToSet(T) : q.packet # v.packet
    <3> TAKE v \in ToSet(T)
    <3>1. q.packet < v.packet /\ q.packet \in Nat /\ v.packet \in Nat
      BY <1>1, <1>2, <1>3, <1>5
    <3> QED BY <3>1
  <2> QED BY <1>1, <1>2, <2>1
<1>10. (Q \cup {q}) \cap ToSet(D) = {}
  BY <1>1, <1>4
<1>11. Books(Q \cup {q}, T, D, A)
  BY <1>1, <1>2, <1>6, <1>7, <1>8, <1>9, <1>10 DEF Books
<1> QED BY <1>4, <1>11 DEF T

\* A new packet ends last, because the others are no further from their ends
\* than the size they share.
LEMMA OrderedArrive ==
    ASSUME NEW Q, NEW W, NEW D, NEW A, Books(Q, W, D, A), NEW acc, Ordered(Q, W, D, acc),
           NEW new \in Nat, acc <= new,
           NEW q \in Packet, q.packet = A + 1, q.accSize = new + q.size,
           Same(Q \cup {q}, W, D) => W = <<>>
    PROVE  Ordered(Q \cup {q}, W, D, new)
<1> DEFINE R == Q \cup {q}
<1>1. /\ \A p \in Q \cup ToSet(D) : p \in Packet /\ p.packet \in 1..A
      /\ A \in Nat
  <2>1. Q \subseteq Packet /\ D \in Seq(Packet) /\ A \in Nat /\ \A p \in Q \cup ToSet(D) : p.packet \in 1..A
    BY DEF Books
  <2>2. \A p \in ToSet(D) : p \in Packet
    BY <2>1 DEF ToSet
  <2> QED BY <2>1, <2>2
<1>2. \A p \in Q \cup ToSet(D) \cup {q} : p.size \in Nat /\ p.accSize \in Nat /\ p.packet \in Nat
  BY <1>1 DEF Packet
<1>3. \A p \in Q \cup ToSet(D) : p.packet < q.packet
  BY <1>1
<1>4. acc \in Nat /\ \A p \in Q : p.accSize <= acc + p.size
  BY DEF Ordered
<1>5. ASSUME NEW p \in Q PROVE p.accSize <= new + p.size
  <2>1. p.size \in Nat /\ p.accSize \in Nat /\ p.accSize <= acc + p.size /\ acc \in Nat
    BY <1>2, <1>4
  <2> QED BY <2>1
<1>6. \A p \in R : p.accSize <= new + p.size
  BY <1>2, <1>5
<1>7. ASSUME Same(R, W, D)
      PROVE  /\ \A p \in R \cup ToSet(D), r \in ToSet(W) : p.packet < r.packet
             /\ \A p, r \in R : p.packet < r.packet => p.accSize <= r.accSize
             /\ \A d \in ToSet(D), r \in R : d.packet > r.packet => d.accSize = r.accSize
             /\ \A i, j \in DOMAIN D : i < j /\ D[i].packet > D[j].packet => D[i].accSize = D[j].accSize
  <2>1. ToSet(W) = {}
    BY <1>7 DEF ToSet
  <2>2. Same(Q, W, D) /\ \A p \in Q : p.size = q.size
    BY <1>7 DEF Same
  <2>3. /\ \A p, r \in Q : p.packet < r.packet => p.accSize <= r.accSize
        /\ \A d \in ToSet(D), r \in Q : d.packet > r.packet => d.accSize = r.accSize
        /\ \A i, j \in DOMAIN D : i < j /\ D[i].packet > D[j].packet => D[i].accSize = D[j].accSize
    BY <2>2 DEF Ordered
  <2>4. \A p \in Q : p.accSize <= q.accSize
    BY <1>2, <1>5, <2>2
  <2>5. \A p, r \in R : p.packet < r.packet => p.accSize <= r.accSize
    BY <1>2, <1>3, <2>3, <2>4
  <2>6. \A d \in ToSet(D), r \in R : d.packet > r.packet => d.accSize = r.accSize
    BY <1>2, <1>3, <2>3
  <2> QED BY <2>1, <2>3, <2>5, <2>6
<1> HIDE DEF R
<1>8. Ordered(R, W, D, new)
  BY <1>6, <1>7 DEF Ordered
<1> QED BY <1>8 DEF R

\* A new packet waits behind the others.
LEMMA OrderedWait ==
    ASSUME NEW Q, NEW W, NEW D, NEW A, Books(Q, W, D, A), NEW acc, Ordered(Q, W, D, acc),
           NEW q \in Packet, q.packet = A + 1
    PROVE  Ordered(Q, Append(W, q), D, acc)
<1> DEFINE V == Append(W, q)
<1>1. \A p \in Q \cup ToSet(D) : p.packet \in 1..A /\ A \in Nat
  BY DEF Books
<1>2. ToSet(V) = ToSet(W) \cup {q}
  BY ValuesAppend DEF Books
<1> HIDE DEF V
<1>3. Same(Q, V, D) => Same(Q, W, D)
  BY <1>2 DEF Same
<1>4. \A p \in Q \cup ToSet(D) : p.packet < q.packet
  BY <1>1
<1>5. Ordered(Q, V, D, acc)
  BY <1>2, <1>3, <1>4 DEF Ordered
<1> QED BY <1>5 DEF V

\* The packet delivered is one that ends first.
LEMMA OrderedLeave ==
    ASSUME NEW Q, NEW W, NEW D, NEW A, Books(Q, W, D, A), NEW acc, Ordered(Q, W, D, acc),
           NEW new \in Nat, acc <= new,
           NEW p \in Q, \A r \in Q : p.accSize <= r.accSize
    PROVE  Ordered(Q \ {p}, W, Append(D, p), new)
<1> DEFINE R == Q \ {p}
           E == Append(D, p)
           m == Len(D) + 1
<1>1. /\ Q \subseteq Packet /\ D \in Seq(Packet) /\ A \in Nat
      /\ \A r \in Q \cup ToSet(W) \cup ToSet(D) : r.packet \in 1..A
  BY DEF Books
<1>2. /\ E \in Seq(Packet) /\ DOMAIN E = DOMAIN D \cup {m} /\ m \in Nat
      /\ \A i \in DOMAIN D : E[i] = D[i] /\ i < m /\ i \in Nat
      /\ E[m] = p /\ ToSet(E) = ToSet(D) \cup {p}
      /\ \A r \in ToSet(D) : r \in Packet
  BY <1>1, ValuesAppend
<1> HIDE DEF E, m
<1>3. \A r \in Q \cup ToSet(D) : r.size \in Nat /\ r.accSize \in Nat /\ r.packet \in Nat
  BY <1>1, <1>2 DEF Packet
<1>4. \A r \in ToSet(W) : r.packet \in Nat
  BY <1>1
<1>5. acc \in Nat /\ \A r \in Q : r.accSize <= acc + r.size
  BY DEF Ordered
<1>6. \A r \in R : r.accSize <= new + r.size
  BY <1>3, <1>5
<1>7. ASSUME Same(R, W, E)
      PROVE  /\ \A r \in R \cup ToSet(E), v \in ToSet(W) : r.packet < v.packet
             /\ \A r, v \in R : r.packet < v.packet => r.accSize <= v.accSize
             /\ \A d \in ToSet(E), r \in R : d.packet > r.packet => d.accSize = r.accSize
             /\ \A i, j \in DOMAIN E : i < j /\ E[i].packet > E[j].packet => E[i].accSize = E[j].accSize
  <2>1. Same(Q, W, D)
    BY <1>2, <1>7 DEF Same
  <2>2. /\ \A r \in Q \cup ToSet(D), v \in ToSet(W) : r.packet < v.packet
        /\ \A r, v \in Q : r.packet < v.packet => r.accSize <= v.accSize
        /\ \A d \in ToSet(D), r \in Q : d.packet > r.packet => d.accSize = r.accSize
        /\ \A i, j \in DOMAIN D : i < j /\ D[i].packet > D[j].packet => D[i].accSize = D[j].accSize
    BY <2>1 DEF Ordered
  <2>3. \A r \in R \cup ToSet(E), v \in ToSet(W) : r.packet < v.packet
    BY <1>2, <2>2
  <2>4. \A r \in R : p.packet > r.packet => p.accSize = r.accSize
    <3> TAKE r \in R
    <3> HAVE p.packet > r.packet
    <3>1. r \in Q /\ r.packet < p.packet /\ p.accSize <= r.accSize
      BY <1>3
    <3>2. r.accSize <= p.accSize
      BY <2>2, <3>1
    <3> QED BY <1>3, <3>1, <3>2
  <2>5. \A d \in ToSet(E), r \in R : d.packet > r.packet => d.accSize = r.accSize
    BY <1>2, <2>2, <2>4
  <2>6. \A i, j \in DOMAIN E : i < j /\ E[i].packet > E[j].packet => E[i].accSize = E[j].accSize
    <3> TAKE i, j \in DOMAIN E
    <3> HAVE i < j /\ E[i].packet > E[j].packet
    <3>1. i \in DOMAIN D
      BY <1>2
    <3>2. CASE j \in DOMAIN D
      BY <1>2, <2>2, <3>1, <3>2
    <3>3. CASE j = m
      <4>1. E[i] = D[i] /\ D[i] \in ToSet(D) /\ E[j] = p
        BY <1>2, <3>1, <3>3 DEF ToSet
      <4> QED BY <2>2, <4>1
    <3> QED BY <1>2, <3>2, <3>3
  <2> QED BY <2>2, <2>3, <2>5, <2>6
<1> HIDE DEF R
<1>8. Ordered(R, W, E, new)
  BY <1>6, <1>7 DEF Ordered
<1> QED BY <1>8 DEF R, E

\* The first packet that waits comes after all of the queue.
LEMMA OrderedPull ==
    ASSUME NEW Q, NEW W, NEW D, NEW A, Books(Q, W, D, A), NEW acc, Ordered(Q, W, D, acc),
           W # <<>>, NEW q \in Packet, q.packet = Head(W).packet, q.size = Head(W).size,
           q.accSize = acc + q.size
    PROVE  Ordered(Q \cup {q}, Tail(W), D, acc)
<1> DEFINE R == Q \cup {q}
           T == Tail(W)
           h == Head(W)
<1>1. /\ Q \subseteq Packet /\ W \in Seq(Packet) /\ D \in Seq(Packet) /\ A \in Nat
      /\ \A i, j \in DOMAIN W : i < j => W[i].packet < W[j].packet
      /\ \A r \in Q \cup ToSet(W) \cup ToSet(D) : r.packet \in 1..A
  BY DEF Books
<1>2. /\ h = W[1] /\ 1 \in DOMAIN W
      /\ \A i \in DOMAIN T : i \in Nat \ {0} /\ i + 1 \in DOMAIN W /\ T[i] = W[i + 1]
      /\ ToSet(W) = ToSet(T) \cup {h}
  BY <1>1, ValuesTail
<1>3. \A r \in ToSet(D) : r \in Packet
  BY <1>1 DEF ToSet
<1> HIDE DEF T, h
<1>4. \A r \in Q \cup ToSet(D) \cup {q} : r.size \in Nat /\ r.accSize \in Nat /\ r.packet \in Nat
  <2>1. \A r \in Q \cup ToSet(D) \cup {q} : r.size \in Nat /\ r.accSize \in Nat
    BY <1>1, <1>3 DEF Packet
  <2>2. \A r \in Q \cup ToSet(D) \cup {h} : r.packet \in 1..A
    BY <1>1, <1>2
  <2>3. q.packet \in 1..A
    BY <2>2 DEF h
  <2> QED BY <1>1, <2>1, <2>2, <2>3
<1>5. \A v \in ToSet(T) : q.packet < v.packet
  <2> TAKE v \in ToSet(T)
  <2>1. PICK i \in DOMAIN T : v = T[i]
    BY DEF ToSet
  <2>2. i + 1 \in DOMAIN W /\ v = W[i + 1] /\ 1 < i + 1
    BY <1>2, <2>1
  <2> QED BY <1>1, <1>2, <2>2 DEF h
<1>6. acc \in Nat /\ \A r \in R : r.accSize <= acc + r.size
  BY <1>4 DEF Ordered
<1>7. ASSUME Same(R, T, D)
      PROVE  /\ \A r \in R \cup ToSet(D), v \in ToSet(T) : r.packet < v.packet
             /\ \A r, v \in R : r.packet < v.packet => r.accSize <= v.accSize
             /\ \A d \in ToSet(D), r \in R : d.packet > r.packet => d.accSize = r.accSize
             /\ \A i, j \in DOMAIN D : i < j /\ D[i].packet > D[j].packet => D[i].accSize = D[j].accSize
  <2>1. Same(Q, W, D) /\ \A r \in Q : r.size = q.size
    <3>1. q.size = h.size /\ q \in R
      BY DEF h
    <3>2. \A r, v \in R \cup ToSet(T) \cup ToSet(D) : r.size = v.size
      BY <1>7 DEF Same
    <3>3. \A r \in Q \cup ToSet(W) \cup ToSet(D) : r.size = q.size
      BY <1>2, <3>1, <3>2
    <3> QED BY <3>3 DEF Same
  <2>2. /\ \A r \in Q \cup ToSet(D), v \in ToSet(W) : r.packet < v.packet
        /\ \A r, v \in Q : r.packet < v.packet => r.accSize <= v.accSize
        /\ \A d \in ToSet(D), r \in Q : d.packet > r.packet => d.accSize = r.accSize
        /\ \A i, j \in DOMAIN D : i < j /\ D[i].packet > D[j].packet => D[i].accSize = D[j].accSize
    BY <2>1 DEF Ordered
  <2>3. \A r \in Q \cup ToSet(D) : r.packet < q.packet
    <3>1. h \in ToSet(W) /\ q.packet = h.packet
      BY <1>2 DEF h
    <3> QED BY <2>2, <3>1
  <2>4. \A r \in Q : r.accSize <= q.accSize
    BY <1>4, <1>6, <2>1
  <2>5. \A r, v \in R : r.packet < v.packet => r.accSize <= v.accSize
    BY <1>4, <2>2, <2>3, <2>4
  <2>6. \A d \in ToSet(D), r \in R : d.packet > r.packet => d.accSize = r.accSize
    BY <1>4, <2>2, <2>3
  <2>7. \A r \in R \cup ToSet(D), v \in ToSet(T) : r.packet < v.packet
    BY <1>2, <1>5, <2>2
  <2> QED BY <2>2, <2>5, <2>6, <2>7
<1> HIDE DEF R
<1>8. Ordered(R, T, D, acc)
  BY <1>6, <1>7 DEF Ordered
<1> QED BY <1>8 DEF R, T

-----------------------------------------------------------------------------
(***************************************************************************)
(* What the handlers of the link do to what is in it.                      *)
(***************************************************************************)
\* What each packet of the queue of s is sent until time t.
Gained(s, t, gain) ==
    /\ gain \in Nat
    /\ IF s.queue = {} THEN gain = 0
       ELSE LET n == Cardinality(s.queue)
                all == (t - s.lastWakeupT) * Bandwidth
            IN  gain * n <= all /\ all < gain * n + n

\* Elapse gives each packet its share, truncated.
LEMMA GainIs ==
    ASSUME NEW s, LinkType(s), NEW t \in Nat, s.lastWakeupT <= t
    PROVE  \E gain \in Nat : Gained(s, t, gain) /\ Elapse(s, t).accSize = s.accSize + gain
<1> DEFINE n == Cardinality(s.queue)
           all == (t - s.lastWakeupT) * Bandwidth
<1>1. s \in NodeOutbound /\ s.lastWakeupT \in Nat /\ s.accSize \in Nat
  BY DEF LinkType, NodeOutbound
<1>2. Elapse(s, t).accSize = s.accSize + (IF s.queue = {} THEN 0 ELSE all \div n)
  BY <1>1 DEF Elapse, NodeOutbound
<1>3. CASE s.queue = {}
  BY <1>1, <1>2, <1>3 DEF Gained
<1>4. CASE s.queue # {}
  <2>1. n \in Nat \ {0}
    BY <1>4, FirstExists
  <2>2. all \in Nat
    BY <1>1 DEF LinkAssumption
  <2> HIDE DEF n, all
  <2>3. all \div n \in Nat /\ (all \div n) * n <= all /\ all < (all \div n) * n + n
    BY <2>1, <2>2, DivFacts
  <2> DEFINE gain == all \div n
  <2>4. gain \in Nat /\ gain * n <= all /\ all < gain * n + n /\ Elapse(s, t).accSize = s.accSize + gain
    BY <1>2, <1>4, <2>3
  <2> HIDE DEF gain
  <2>5. Gained(s, t, gain)
    BY <1>4, <2>4 DEF Gained, n, all
  <2> QED BY <2>4, <2>5
<1> QED BY <1>3, <1>4

\* The wakeups are not what is in the link.
LEMMA UpdateIs ==
    ASSUME NEW s \in NodeOutbound, NEW t
    PROVE  LET u == UpdateNextWakeup(s, t)
           IN  /\ u.queue = s.queue /\ u.waiting = s.waiting
               /\ u.buffer = s.buffer /\ u.accSize = s.accSize
BY DEF UpdateNextWakeup, NodeOutbound

\* pushEvent adds one packet, whose end is its size away.
LEMMA PushIs ==
    ASSUME NEW s, LinkType(s), NotFinished(s), NEW t \in Nat, s.lastWakeupT <= t,
           s.queue # {} => t <= WakeupTime(s), NEW p \in Packet
    PROVE  LET u == PushEvent(s, t, p)
           IN  \E q \in Packet, gain \in Nat :
                  /\ Gained(s, t, gain)
                  /\ u.accSize = s.accSize + gain
                  /\ q.packet = p.packet /\ q.size = p.size /\ q.accSize = u.accSize + p.size
                  /\ u.queue = s.queue \cup {q} /\ u.waiting = s.waiting
                  /\ u.buffer = s.buffer + p.size
<1> DEFINE e == Elapse(s, t)
           u == PushEvent(s, t, p)
<1>1. PICK gain \in Nat : Gained(s, t, gain) /\ e.accSize = s.accSize + gain
  BY GainIs
<1>2. LinkType(e) /\ e.queue = s.queue /\ e.waiting = s.waiting /\ e.buffer = s.buffer
  BY ElapseKeeps
<1> HIDE DEF e
<1>3. /\ e \in NodeOutbound /\ e.accSize \in Nat /\ p.size \in Nat /\ e.queue \subseteq Packet
      /\ e.buffer \in Int
  BY <1>2 DEF LinkType, NodeOutbound, Packet
<1> DEFINE acc == e.accSize + p.size
           q == [p EXCEPT !.accSize = acc]
           Q == e.queue \cup {q}
           b == e.buffer + p.size
           f == [e EXCEPT !.queue = Q, !.buffer = b]
<1>4. acc \in Nat
  BY <1>3
<1> HIDE DEF acc
<1>5. q \in Packet /\ q.accSize = acc /\ q.packet = p.packet /\ q.size = p.size
  BY <1>4 DEF Packet
<1> HIDE DEF q
<1>6. Q \subseteq Packet /\ b \in Int
  BY <1>3, <1>5
<1>7. u = UpdateNextWakeup(f, t)
  <2>1. PushEvent(s, t, p) = UpdateNextWakeup([e EXCEPT !.queue = @ \cup {q}, !.buffer = @ + p.size], t)
    BY DEF PushEvent, e, q, acc
  <2>2. [e EXCEPT !.queue = @ \cup {q}, !.buffer = @ + p.size] = f
    BY <1>3 DEF NodeOutbound
  <2> QED BY <2>1, <2>2
<1> HIDE DEF Q, b
<1>8. /\ f \in NodeOutbound /\ f.queue = Q /\ f.buffer = b
      /\ f.accSize = e.accSize /\ f.waiting = e.waiting
  BY <1>3, <1>6 DEF NodeOutbound
<1> HIDE DEF f, u
<1>9. u.queue = Q /\ u.buffer = b /\ u.accSize = e.accSize /\ u.waiting = s.waiting
  BY <1>2, <1>7, <1>8, UpdateIs
<1>10. /\ Gained(s, t, gain) /\ u.accSize = s.accSize + gain
       /\ q.packet = p.packet /\ q.size = p.size /\ q.accSize = u.accSize + p.size
       /\ u.queue = s.queue \cup {q} /\ u.waiting = s.waiting
       /\ u.buffer = s.buffer + p.size
  BY <1>1, <1>2, <1>5, <1>9 DEF Q, b, acc
<1> QED BY <1>5, <1>10 DEF u

\* After a packet is taken out, the first one that waits takes its place if
\* it fits.
LEMMA PopIs ==
    ASSUME NEW s, LinkType(s), NotFinished(s), s.wakeups = {}, s.queue # {}, NEW p \in Firsts(s)
    PROVE  LET t == WakeupTime(s)
               u == PopEvent(s, t, p)
           IN  \E gain \in Nat :
                  /\ Gained(s, t, gain)
                  /\ u.accSize = s.accSize + gain
                  /\ u.accSize <= p.accSize /\ p.accSize - u.accSize <= Bandwidth
                  /\ \/ /\ s.waiting # <<>> /\ s.buffer - p.size + Head(s.waiting).size < BufferSize
                        /\ u.waiting = Tail(s.waiting)
                        /\ u.buffer = s.buffer - p.size + Head(s.waiting).size
                        /\ \E q \in Packet :
                              /\ q.packet = Head(s.waiting).packet /\ q.size = Head(s.waiting).size
                              /\ q.accSize = u.accSize + q.size
                              /\ u.queue = (s.queue \ {p}) \cup {q}
                     \/ /\ s.waiting # <<>> =>
                              ~ (s.buffer - p.size + Head(s.waiting).size < BufferSize)
                        /\ u.waiting = s.waiting /\ u.queue = s.queue \ {p}
                        /\ u.buffer = s.buffer - p.size
<1> DEFINE t == WakeupTime(s)
           e == Elapse(s, t)
           u == PopEvent(s, t, p)
<1>1. t \in Nat /\ s.lastWakeupT <= t
  BY WakeupTimeIs
<1> HIDE DEF t
<1>2. PICK gain \in Nat : Gained(s, t, gain) /\ e.accSize = s.accSize + gain
  BY <1>1, GainIs
<1>3. /\ LinkType(e) /\ NotFinished(e) /\ e.lastWakeupT = t
      /\ e.queue = s.queue /\ e.waiting = s.waiting /\ e.buffer = s.buffer /\ e.wakeups = {}
  BY <1>1, ElapseKeeps DEF t
<1>4. p \in s.queue /\ p \in Packet /\ p.accSize \in Nat /\ p.size \in Nat /\ p.accSize = FirstAcc(s)
  <2>1. p \in s.queue /\ p.accSize = FirstAcc(s)
    BY FirstExists
  <2> QED BY <2>1 DEF LinkType, NodeOutbound, Packet
<1>5. e.accSize <= p.accSize /\ p.accSize - e.accSize <= Bandwidth
  <2> DEFINE n == Cardinality(s.queue)
             d == FirstAcc(s) - s.accSize
             k == t - s.lastWakeupT
  <2>1. e.accSize <= p.accSize
    BY <1>3, <1>4 DEF NotFinished
  <2>2. n \in Nat \ {0} /\ FirstAcc(s) \in Nat /\ s.accSize \in Nat /\ s.lastWakeupT \in Nat
    BY FirstExists DEF LinkType, NodeOutbound
  <2>3. d \in Nat
    <3>1. s.accSize <= FirstAcc(s)
      BY <1>4 DEF NotFinished
    <3> QED BY <3>1, <2>2
  <2>4. k = (d * n) \div Bandwidth
    <3>1. WakeupTime(s) = s.lastWakeupT + (d * n) \div Bandwidth
      BY DEF WakeupTime
    <3>2. (d * n) \div Bandwidth \in Nat
      <4>1. d * n \in Nat
        BY <2>2, <2>3
      <4> QED BY <4>1, DivFacts DEF LinkAssumption
    <3> DEFINE x == (d * n) \div Bandwidth
    <3>3. t = s.lastWakeupT + x /\ x \in Nat
      BY <3>1, <3>2 DEF t
    <3> HIDE DEF x
    <3>4. k = x
      BY <2>2, <3>3
    <3> QED BY <3>4 DEF x
  <2> HIDE DEF n, d
  <2>5. d - ((k * Bandwidth) \div n) <= Bandwidth
    BY <2>2, <2>3, <2>4, SmallRest DEF LinkAssumption
  <2>6. e.accSize = s.accSize + ((k * Bandwidth) \div n)
    BY DEF e, Elapse, LinkType, NodeOutbound, n
  <2>7. (k * Bandwidth) \div n = gain
    <3>1. (k * Bandwidth) \div n \in Int
      <4>1. k \in Nat
        BY <1>1, <2>2
      <4>2. k * Bandwidth \in Nat
        BY <4>1 DEF LinkAssumption
      <4> HIDE DEF k
      <4> QED BY <2>2, <4>2, DivFacts
    <3> HIDE DEF k
    <3> DEFINE x == (k * Bandwidth) \div n
    <3>2. x \in Int /\ e.accSize = s.accSize + x
      BY <2>6, <3>1
    <3> HIDE DEF x
    <3>3. x = gain
      BY <1>2, <2>2, <3>2
    <3> QED BY <3>3 DEF x
  <2>8. d - gain <= Bandwidth /\ d = p.accSize - s.accSize /\ s.accSize \in Nat
    BY <1>4, <2>2, <2>5, <2>7 DEF d
  <2>9. p.accSize - e.accSize = d - gain
    BY <1>2, <1>4, <2>8
  <2> QED BY <2>1, <2>8, <2>9
<1> HIDE DEF e
<1>6. e \in NodeOutbound /\ IsFiniteSet(e.queue) /\ e.waiting \in Seq(Packet) /\ e.buffer \in Int /\ e.queue \subseteq Packet
  BY <1>3 DEF LinkType, NodeOutbound
<1> DEFINE Q == e.queue \ {p}
           b == e.buffer - p.size
           f == [e EXCEPT !.queue = Q, !.buffer = b]
<1>7. u = PullWaitingListAndUpdate(f, t)
  <2>1. u = PullWaitingListAndUpdate([e EXCEPT !.queue = @ \ {p}, !.buffer = @ - p.size], t)
    BY DEF PopEvent, e
  <2>2. [e EXCEPT !.queue = @ \ {p}, !.buffer = @ - p.size] = f
    BY <1>6 DEF NodeOutbound
  <2> QED BY <2>1, <2>2
<1>8. Q \subseteq Packet /\ b \in Int /\ IsFiniteSet(Q)
  BY <1>4, <1>6, FS_Subset
<1>9. Q = s.queue \ {p} /\ b = s.buffer - p.size
  BY <1>3
<1> HIDE DEF Q, b
<1>10. /\ f \in NodeOutbound /\ f.queue = Q /\ f.buffer = b /\ f.lastWakeupT = t
       /\ f.accSize = e.accSize /\ f.waiting = s.waiting /\ f.wakeups = {}
  BY <1>3, <1>6, <1>8 DEF NodeOutbound
<1> HIDE DEF f, u
<1>11. LinkType(f) /\ NotFinished(f)
  BY <1>3, <1>8, <1>9, <1>10 DEF LinkType, NotFinished
<1>12. CASE f.waiting # <<>> /\ Fits(f, Head(f.waiting))
  <2> DEFINE h == Head(f.waiting)
             W == Tail(f.waiting)
             g == [f EXCEPT !.waiting = W]
  <2>1. h \in Packet /\ W \in Seq(Packet)
    BY <1>6, <1>3, <1>10, <1>12
  <2>2. u = PushEvent(g, t, h)
    BY <1>7, <1>12 DEF PullWaitingListAndUpdate
  <2>3. h = Head(s.waiting) /\ W = Tail(s.waiting) /\ b + h.size < BufferSize /\ s.waiting # <<>>
    BY <1>10, <1>12 DEF Fits
  <2> HIDE DEF h, W
  <2>4. /\ g \in NodeOutbound /\ g.queue = Q /\ g.buffer = b /\ g.lastWakeupT = t
        /\ g.accSize = e.accSize /\ g.waiting = W /\ g.wakeups = {}
    BY <1>10, <2>1 DEF NodeOutbound
  <2> HIDE DEF g
  <2>5. LinkType(g) /\ NotFinished(g)
    BY <1>10, <1>11, <2>4 DEF LinkType, NotFinished
  <2>6. g.queue # {} => t <= WakeupTime(g)
    BY <2>4, <2>5, WakeupTimeIs
  <2>7. PICK q \in Packet, more \in Nat :
            /\ Gained(g, t, more)
            /\ u.accSize = g.accSize + more
            /\ q.packet = h.packet /\ q.size = h.size /\ q.accSize = u.accSize + h.size
            /\ u.queue = g.queue \cup {q} /\ u.waiting = g.waiting
            /\ u.buffer = g.buffer + h.size
    <3>1. g.lastWakeupT <= t /\ t \in Nat
      BY <1>1, <2>4
    <3> HIDE DEF t
    <3>2. h \in Packet
      BY <2>1
    <3>3. \E q \in Packet, more \in Nat :
            /\ Gained(g, t, more)
            /\ PushEvent(g, t, h).accSize = g.accSize + more
            /\ q.packet = h.packet /\ q.size = h.size /\ q.accSize = PushEvent(g, t, h).accSize + h.size
            /\ PushEvent(g, t, h).queue = g.queue \cup {q} /\ PushEvent(g, t, h).waiting = g.waiting
            /\ PushEvent(g, t, h).buffer = g.buffer + h.size
      BY <2>5, <2>6, <3>1, <3>2, PushIs
    <3> QED BY <2>2, <3>3
  <2>8. more = 0
    <3>1. CASE g.queue = {}
      BY <2>7, <3>1 DEF Gained
    <3>2. CASE g.queue # {}
      <4> DEFINE n == Cardinality(g.queue)
      <4>1. n \in Nat \ {0}
        BY <2>5, <3>2, FirstExists
      <4>2. more * n <= (t - t) * Bandwidth
        BY <2>4, <2>7, <3>2 DEF Gained
      <4>3. (t - t) * Bandwidth = 0
        BY <1>1 DEF LinkAssumption
      <4> HIDE DEF n
      <4>4. more * n <= 0
        BY <4>2, <4>3
      <4> QED BY <4>1, <4>4, <2>7
    <3> QED BY <3>1, <3>2
  <2>9. u.accSize = e.accSize
    <3>1. e.accSize \in Nat
      BY <1>6 DEF NodeOutbound
    <3> QED BY <2>4, <2>7, <2>8, <3>1
  <2>10. /\ s.waiting # <<>> /\ s.buffer - p.size + Head(s.waiting).size < BufferSize
         /\ u.waiting = Tail(s.waiting)
         /\ u.buffer = s.buffer - p.size + Head(s.waiting).size
         /\ q.packet = Head(s.waiting).packet /\ q.size = Head(s.waiting).size
         /\ q.accSize = u.accSize + q.size
         /\ u.queue = (s.queue \ {p}) \cup {q}
    BY <1>9, <2>3, <2>4, <2>7
  <2>11. /\ Gained(s, t, gain) /\ u.accSize = s.accSize + gain
         /\ u.accSize <= p.accSize /\ p.accSize - u.accSize <= Bandwidth
    BY <1>2, <1>5, <2>9
  <2> QED BY <2>7, <2>10, <2>11 DEF u, t
<1>13. CASE ~ (f.waiting # <<>> /\ Fits(f, Head(f.waiting)))
  <2>1. u = UpdateNextWakeup(f, t)
    BY <1>7, <1>13 DEF PullWaitingListAndUpdate
  <2>2. u.queue = Q /\ u.waiting = s.waiting /\ u.buffer = b /\ u.accSize = e.accSize
    BY <1>10, <2>1, UpdateIs
  <2>3. s.waiting # <<>> => ~ (s.buffer - p.size + Head(s.waiting).size < BufferSize)
    BY <1>9, <1>10, <1>13 DEF Fits
  <2>4. /\ Gained(s, t, gain) /\ u.accSize = s.accSize + gain
        /\ u.accSize <= p.accSize /\ p.accSize - u.accSize <= Bandwidth
        /\ u.waiting = s.waiting /\ u.queue = s.queue \ {p} /\ u.buffer = s.buffer - p.size
    BY <1>2, <1>5, <1>9, <2>2
  <2> QED BY <2>3, <2>4 DEF u, t
<1> QED BY <1>12, <1>13

-----------------------------------------------------------------------------
(***************************************************************************)
(* The bytes: what the buffer counts, what waits, and what has been sent   *)
(* of the packets D delivered and of those in the link, when A packets     *)
(* have arrived and the link has been busy for b ticks.                    *)
(***************************************************************************)
BufferExact(s) ==
    /\ s.buffer = SizesOf(s.queue) /\ s.buffer < BufferSize
    /\ s.queue = {} /\ s.waiting # <<>> => ~Fits(s, Head(s.waiting))

\* With packets of one size none waits if it could be pushed.
Full(s, D) == Same(s.queue, s.waiting, D) /\ s.waiting # <<>> => ~Fits(s, Head(s.waiting))

ServedOf(s, D) == SizesOf(ToSet(D)) + SentOf(s.queue, s.accSize)

Kept(s, D, A, b) == /\ ServedOf(s, D) <= Bandwidth * b + (Bandwidth + 1) * Len(D)
                    /\ ServedOf(s, D) >= Bandwidth * b - A * (A + Len(D))

Contents(s, D, A, b) ==
    /\ Books(s.queue, s.waiting, D, A) /\ Ordered(s.queue, s.waiting, D, s.accSize)
    /\ BufferExact(s) /\ Full(s, D) /\ Kept(s, D, A, b)

\* How what has been sent grows in k ticks, in which each of n packets is sent
\* g bytes: an arrival, a delivery short of r.
LEMMA KeptGrows ==
    ASSUME NEW X \in Int, NEW y \in Nat, NEW k \in Nat, NEW L \in Nat, NEW A \in Nat, NEW n \in Nat,
           NEW w \in Nat, NEW B \in Nat,
           X <= B * y + (B + 1) * L, X >= B * y - A * (A + L),
           n <= A, w <= k * B, k * B <= w + n
    PROVE  /\ X + w <= B * (y + k) + (B + 1) * L
           /\ X + w >= B * (y + k) - (A + 1) * ((A + 1) + L)
           /\ \A r \in 0..B : /\ X + w + r <= B * (y + k) + (B + 1) * (L + 1)
                              /\ X + w + r >= B * (y + k) - A * (A + (L + 1))
<1> DEFINE By == B * y
           Bk == k * B
           M == (B + 1) * L
           N == A * (A + L)
<1>1. By \in Nat /\ Bk \in Nat /\ M \in Nat /\ N \in Nat
  OBVIOUS
<1>2. B * (y + k) = By + Bk
  OBVIOUS
<1>3. (B + 1) * (L + 1) = M + B + 1
  OBVIOUS
<1>4. (A + 1) * ((A + 1) + L) = N + A + (A + 1 + L)
  OBVIOUS
<1>5. A * (A + (L + 1)) = N + A
  OBVIOUS
<1>6. X <= By + M /\ X >= By - N /\ w <= Bk /\ Bk <= w + n
  OBVIOUS
<1> HIDE DEF By, Bk, M, N
<1>7. X + w <= By + Bk + M
  BY <1>1, <1>6
<1>8. X + w >= By + Bk - (N + A)
  BY <1>1, <1>6
<1>9. X + w >= By + Bk - (N + A + (A + 1 + L))
  BY <1>1, <1>8
<1>10. ASSUME NEW r \in 0..B
       PROVE  X + w + r <= By + Bk + (M + B + 1) /\ X + w + r >= By + Bk - (N + A)
  BY <1>1, <1>7, <1>8
<1>11. X + w <= B * (y + k) + M
  BY <1>2, <1>7
<1>12. X + w >= B * (y + k) - (A + 1) * ((A + 1) + L)
  BY <1>2, <1>4, <1>9
<1>13. ASSUME NEW r \in 0..B
       PROVE  /\ X + w + r <= B * (y + k) + (B + 1) * (L + 1)
              /\ X + w + r >= B * (y + k) - A * (A + (L + 1))
  BY <1>2, <1>3, <1>5, <1>10
<1> QED BY <1>11, <1>12, <1>13 DEF M

\* How long the link is busy until t, and what it sends meanwhile to n packets.
Share(s, A, t, gain, n, k, w) ==
    /\ n = Cardinality(s.queue) /\ n <= A
    /\ k = (IF s.queue = {} THEN 0 ELSE t - s.lastWakeupT)
    /\ w = gain * n /\ w <= k * Bandwidth /\ k * Bandwidth <= w + n

\* The share of all packets is what the bandwidth gives, less than a byte each short.
LEMMA GainKept ==
    ASSUME NEW s, LinkType(s), NEW A \in Nat, Cardinality(s.queue) <= A,
           NEW t \in Nat, s.lastWakeupT <= t, NEW gain \in Nat, Gained(s, t, gain)
    PROVE  \E n \in Nat, k \in Nat, w \in Nat : Share(s, A, t, gain, n, k, w)
<1> DEFINE n == Cardinality(s.queue)
           k == IF s.queue = {} THEN 0 ELSE t - s.lastWakeupT
           w == gain * n
<1>1. s.lastWakeupT \in Nat /\ n \in Nat
  BY FS_CardinalityType DEF LinkType, NodeOutbound
<1>2. k \in Nat /\ w \in Nat
  BY <1>1
<1>3. w <= k * Bandwidth /\ k * Bandwidth <= w + n
  <2>1. CASE s.queue = {}
    <3>1. k = 0 /\ n = 0
      BY <2>1, FS_EmptySet
    <3>2. w = 0
      BY <1>1, <3>1
    <3>3. k * Bandwidth = 0
      BY <3>1 DEF LinkAssumption
    <3> HIDE DEF n, k, w
    <3> QED BY <3>1, <3>2, <3>3
  <2>2. CASE s.queue # {}
    <3> DEFINE z == (t - s.lastWakeupT) * Bandwidth
    <3>1. w <= z /\ z < w + n
      BY <2>2 DEF Gained
    <3>2. k * Bandwidth = z /\ z \in Int
      BY <1>1, <2>2 DEF LinkAssumption
    <3> HIDE DEF n, k, w, z
    <3> QED BY <1>1, <1>2, <3>1, <3>2
  <2> QED BY <2>1, <2>2
<1>4. Share(s, A, t, gain, n, k, w)
  BY <1>3 DEF Share
<1> HIDE DEF n, k, w
<1> QED BY <1>1, <1>2, <1>4

\* Packets have sizes.
LEMMA PacketNumbers ==
    ASSUME NEW Q, NEW W, NEW D, NEW A, Books(Q, W, D, A)
    PROVE  /\ IsFiniteSet(Q) /\ IsFiniteSet(ToSet(D)) /\ Len(D) \in Nat /\ A \in Nat
           /\ \A p \in Q \cup ToSet(W) \cup ToSet(D) :
                 p \in Packet /\ p.size \in Nat /\ p.accSize \in Nat /\ p.packet \in Nat
           /\ Cardinality(Q) <= A /\ Numbered(Q) /\ Numbered(ToSet(D))
<1>1. /\ Q \subseteq Packet /\ IsFiniteSet(Q) /\ W \in Seq(Packet) /\ D \in Seq(Packet) /\ A \in Nat
      /\ Cardinality(Q) + Len(W) <= A
  BY DEF Books
<1>2. \A p \in ToSet(W) \cup ToSet(D) : p \in Packet
  BY <1>1 DEF ToSet
<1>3. IsFiniteSet(ToSet(D)) /\ Len(D) \in Nat
  <2>1. Len(D) \in Nat /\ DOMAIN D = 1..Len(D) /\ IsFiniteSet(1..Len(D))
    BY <1>1, FS_Interval
  <2>2. D \in [1..Len(D) -> ToSet(D)] /\ \A y \in ToSet(D) : \E x \in 1..Len(D) : D[x] = y
    BY <1>1, <2>1 DEF ToSet
  <2>3. D \in Surjection(1..Len(D), ToSet(D))
    BY <2>2 DEF Surjection
  <2> QED BY <2>1, <2>3, FS_Surjection
<1>4. Cardinality(Q) <= A
  <2>1. Cardinality(Q) \in Nat /\ Len(W) \in Nat
    BY <1>1, FS_CardinalityType
  <2> QED BY <1>1, <2>1
<1>5. \A p \in Q \cup ToSet(W) \cup ToSet(D) :
         p \in Packet /\ p.size \in Nat /\ p.accSize \in Nat /\ p.packet \in Nat
  <2>1. \A p \in Q \cup ToSet(W) \cup ToSet(D) : p.packet \in 1..A
    BY DEF Books
  <2>2. \A p \in Q \cup ToSet(W) \cup ToSet(D) :
           p \in Packet /\ p.size \in Nat /\ p.accSize \in Nat
    BY <1>1, <1>2 DEF Packet
  <2> QED BY <1>1, <2>1, <2>2
<1>6. Numbered(Q) /\ Numbered(ToSet(D))
  BY <1>1, <1>3, <1>5 DEF Numbered
<1> QED BY <1>1, <1>3, <1>4, <1>5, <1>6

\* A packet that has just been pushed has been sent nothing.
LEMMA SentJoin ==
    ASSUME NEW S, Numbered(S), NEW a \in Int, NEW q, q \notin S, q.size \in Int, q.accSize = a + q.size
    PROVE  SentOf(S \cup {q}, a) = SentOf(S, a)
<1> DEFINE T == S \cup {q}
<1>1. q \in T /\ T \ {q} = S
  OBVIOUS
<1>4. Numbered(T)
  <2>1. q.accSize \in Int
    OBVIOUS
  <2> QED BY <2>1, FS_AddElement DEF Numbered
<1> HIDE DEF T
<1>2. SentOf(T, a) = SentSo(q, a) + SentOf(S, a)
  BY <1>1, <1>4, SentFacts
<1>3. SentOf(S, a) \in Int /\ SentSo(q, a) = 0
  BY SentFacts DEF SentSo
<1> QED BY <1>2, <1>3 DEF T

\* A push: what has been sent of the packets P, which have been delivered, and
\* Q, each of which has been sent gain more.
LEMMA ServedPush ==
    ASSUME NEW P, Numbered(P), NEW Q, Numbered(Q), NEW acc \in Int, NEW gain \in Int,
           NEW a \in Int, a = acc + gain, NEW w \in Int, w = gain * Cardinality(Q),
           NEW q, q \notin Q, q.size \in Int, q.accSize = a + q.size
    PROVE  /\ SizesOf(P) + SentOf(Q, acc) \in Int
           /\ SizesOf(P) + SentOf(Q \cup {q}, a) = (SizesOf(P) + SentOf(Q, acc)) + w
<1>1. SentOf(Q \cup {q}, a) = SentOf(Q, a)
  BY SentJoin
<1>2. SentOf(Q, acc + gain) = SentOf(Q, acc) + gain * Cardinality(Q) /\ SentOf(Q, acc) \in Int
  BY SentFacts, ZenonT(60)
<1>3. SizesOf(P) \in Int
  BY SizesFacts
<1> DEFINE x == SizesOf(P)
           y == SentOf(Q, acc)
           z == SentOf(Q \cup {q}, a)
<1>4. x \in Int /\ y \in Int /\ z = y + w
  BY <1>1, <1>2, <1>3
<1> HIDE DEF x, y, z
<1>5. x + y \in Int /\ x + z = (x + y) + w
  BY <1>4
<1> QED BY <1>5 DEF x, y, z

\* The packet p of the packets Q, which have been sent up to acc, leaves them for the packets
\* P after a gain of w bytes for all of Q, r bytes short of its end.
Leaves(P, Q, acc, gain, a, w, p, r) ==
    /\ Numbered(P) /\ Numbered(Q)
    /\ acc \in Int /\ gain \in Int /\ a \in Int /\ a = acc + gain
    /\ w \in Int /\ w = gain * Cardinality(Q)
    /\ p \in Q /\ p \notin P
    /\ r \in Int /\ r = p.accSize - a

LeavesSo(P, Q, acc, a, w, p, r) ==
    /\ SizesOf(P) + SentOf(Q, acc) \in Int
    /\ SizesOf(P \cup {p}) + SentOf(Q \ {p}, a) = (SizesOf(P) + SentOf(Q, acc)) + w + r

\* A packet delivered r bytes short of its end counts in full.
LEMMA ServedPop ==
    ASSUME NEW P, NEW Q, NEW acc, NEW gain, NEW a, NEW w, NEW p, NEW r,
           Leaves(P, Q, acc, gain, a, w, p, r)
    PROVE  LeavesSo(P, Q, acc, a, w, p, r)
<1>0. /\ Numbered(P) /\ Numbered(Q)
      /\ acc \in Int /\ gain \in Int /\ a \in Int /\ a = acc + gain
      /\ w \in Int /\ w = gain * Cardinality(Q)
      /\ p \in Q /\ p \notin P
      /\ r \in Int /\ r = p.accSize - a
  BY DEF Leaves
<1>1. p.size \in Int /\ p.accSize \in Int
  BY <1>0 DEF Numbered
<1>2. SizesOf(P \cup {p}) = SizesOf(P) + p.size /\ SizesOf(P) \in Int
  BY <1>0, <1>1, SizesAdd, SizesFacts
<1>3. SentOf(Q, acc + gain) = SentOf(Q, acc) + gain * Cardinality(Q) /\ SentOf(Q, acc) \in Int
  BY <1>0, SentFacts, ZenonT(30)
<1>4. SentOf(Q, a) = SentSo(p, a) + SentOf(Q \ {p}, a)
  BY <1>0, SentFacts
<1>5. SentOf(Q \ {p}, a) \in Int
  <2> PICK R : R = Q \ {p}
    OBVIOUS
  <2>1. Numbered(R)
    BY <1>0, FS_RemoveElement DEF Numbered
  <2>2. SentOf(R, a) \in Int
    BY <1>0, <2>1, SentFacts
  <2> QED BY <2>2
<1>6. SentSo(p, a) = p.size - r
  BY <1>0, <1>1 DEF SentSo
<1> DEFINE x == SizesOf(P)
           xx == SizesOf(P \cup {p})
           y == SentOf(Q, acc)
           v == SentOf(Q \ {p}, a)
           m == p.size
<1>7. xx = x + m /\ x \in Int /\ m \in Int /\ y \in Int /\ v \in Int /\ y + w = (m - r) + v
  BY <1>0, <1>1, <1>2, <1>3, <1>4, <1>5, <1>6
<1> HIDE DEF x, xx, y, v, m
<1>8. x + y \in Int /\ xx + v = (x + y) + w + r
  BY <1>0, <1>7
<1> QED BY <1>8 DEF LeavesSo, x, xx, y, v

\* A packet that fits is pushed: the queue so far was sent what it was due.
LEMMA ContentsPush ==
    ASSUME NEW s, LinkType(s), NotFinished(s), NEW t \in Nat, s.lastWakeupT <= t,
           s.queue # {} => t <= WakeupTime(s),
           NEW D, NEW A, NEW b \in Nat, Contents(s, D, A, b),
           NEW p \in Packet, p.packet = A + 1, Fits(s, p)
    PROVE  Contents(PushEvent(s, t, p), D, A + 1,
                    IF s.queue = {} THEN b ELSE b + (t - s.lastWakeupT))
<1> DEFINE Q == s.queue
           W == s.waiting
           acc == s.accSize
<1> PICK u : u = PushEvent(s, t, p)
  OBVIOUS
<1>1. PICK q \in Packet, gain \in Nat :
          /\ Gained(s, t, gain)
          /\ u.accSize = acc + gain
          /\ q.packet = p.packet /\ q.size = p.size /\ q.accSize = u.accSize + p.size
          /\ u.queue = Q \cup {q} /\ u.waiting = W
          /\ u.buffer = s.buffer + p.size
  BY PushIs
<1>2. /\ Books(Q, W, D, A) /\ Ordered(Q, W, D, acc) /\ BufferExact(s) /\ Full(s, D) /\ Kept(s, D, A, b)
  BY DEF Contents
<1>3. /\ IsFiniteSet(Q) /\ IsFiniteSet(ToSet(D)) /\ Len(D) \in Nat /\ A \in Nat
      /\ \A r \in Q \cup ToSet(W) \cup ToSet(D) :
            r \in Packet /\ r.size \in Nat /\ r.accSize \in Nat /\ r.packet \in Nat
      /\ Cardinality(Q) <= A /\ Numbered(Q) /\ Numbered(ToSet(D))
  BY <1>2, PacketNumbers
<1>4. /\ acc \in Nat /\ s.buffer \in Int /\ s.lastWakeupT \in Nat
      /\ p.size \in Nat /\ q.size \in Nat /\ q.accSize \in Nat
  BY DEF LinkType, NodeOutbound, Packet
<1>5. u.accSize \in Nat /\ acc <= u.accSize /\ q.packet = A + 1
  BY <1>1, <1>4
<1> HIDE DEF Q, W, acc
<1>6. Books(Q \cup {q}, W, D, A + 1) /\ q \notin Q
  BY <1>2, <1>5, BooksArrive
<1>7. Same(Q \cup {q}, W, D) => W = <<>>
  <2> SUFFICES ASSUME Same(Q \cup {q}, W, D), W # <<>> PROVE FALSE
    OBVIOUS
  <2>1. Same(Q, W, D)
    BY DEF Same
  <2>2. ~ Fits(s, Head(W))
    BY <1>2, <2>1 DEF Full, Q, W
  <2>3. W \in Seq(Packet)
    BY <1>2 DEF Books
  <2>4. Head(W) \in ToSet(W)
    BY <2>3, ValuesTail
  <2>5. Head(W).size = q.size
    BY <2>4 DEF Same
  <2> QED BY <1>1, <2>2, <2>5 DEF Fits
<1>8. Ordered(Q \cup {q}, W, D, u.accSize)
  BY <1>1, <1>2, <1>5, <1>7, OrderedArrive
<1>9. BufferExact(u)
  <2>1. Numbered(Q) /\ q.size \in Int /\ q.accSize \in Int /\ q \notin Q
    BY <1>3, <1>4, <1>6
  <2>2. SizesOf(Q \cup {q}) = SizesOf(Q) + q.size
    BY <2>1, SizesAdd
  <2>3. s.buffer = SizesOf(Q) /\ s.buffer + p.size < BufferSize
    BY <1>2 DEF BufferExact, Fits, Q
  <2> QED BY <1>1, <2>2, <2>3 DEF BufferExact
<1>10. Full(u, D)
  BY <1>1, <1>7 DEF Full
<1> DEFINE c == IF s.queue = {} THEN b ELSE b + (t - s.lastWakeupT)
<1>11. Kept(u, D, A + 1, c)
  <2>1. PICK n \in Nat, k \in Nat, w \in Nat : Share(s, A, t, gain, n, k, w)
    <3>1. A \in Nat /\ Cardinality(s.queue) <= A /\ gain \in Nat /\ Gained(s, t, gain)
      BY <1>1, <1>3 DEF Q
    <3> QED BY <3>1, GainKept
  <2>2. /\ n = Cardinality(Q) /\ n <= A /\ w = gain * n
        /\ w <= k * Bandwidth /\ k * Bandwidth <= w + n
    BY <2>1 DEF Share, Q
  <2>3. c = b + k
    <3>1. CASE s.queue = {}
      <4>1. k = 0 /\ c = b
        BY <2>1, <3>1 DEF Share
      <4> HIDE DEF c
      <4> QED BY <4>1
    <3>2. CASE s.queue # {}
      BY <2>1, <3>2 DEF Share
    <3> QED BY <3>1, <3>2
  <2> HIDE DEF c
  <2> DEFINE X == SizesOf(ToSet(D)) + SentOf(Q, acc)
             Y == SizesOf(ToSet(D)) + SentOf(Q \cup {q}, u.accSize)
             L == Len(D)
  <2>3a. X = ServedOf(s, D) /\ Y = ServedOf(u, D)
    BY <1>1 DEF ServedOf, Q, acc
  <2>4. X \in Int /\ Y = X + w
    <3> PICK a \in Int : a = u.accSize
      BY <1>5
    <3>1. Numbered(ToSet(D)) /\ Numbered(Q) /\ q \notin Q
      BY <1>3, <1>6
    <3>3. acc \in Int /\ gain \in Int /\ a = acc + gain /\ q.size \in Int
      BY <1>1, <1>4
    <3>4. w \in Int /\ w = gain * Cardinality(Q)
      BY <2>2
    <3>5. q.accSize = a + q.size
      BY <1>1
    <3>2. /\ SizesOf(ToSet(D)) + SentOf(Q, acc) \in Int
          /\ SizesOf(ToSet(D)) + SentOf(Q \cup {q}, a) = (SizesOf(ToSet(D)) + SentOf(Q, acc)) + w
      BY <3>1, <3>3, <3>4, <3>5, ServedPush
    <3> QED BY <3>2
  <2>5. X <= Bandwidth * b + (Bandwidth + 1) * L /\ X >= Bandwidth * b - A * (A + L)
    BY <1>2, <2>3a DEF Kept
  <2>6. L \in Nat /\ A \in Nat
    BY <1>3
  <2> HIDE DEF X, Y, L
  <2>7. /\ X + w <= Bandwidth * (b + k) + (Bandwidth + 1) * L
        /\ X + w >= Bandwidth * (b + k) - (A + 1) * ((A + 1) + L)
    BY <2>2, <2>4, <2>5, <2>6, KeptGrows DEF LinkAssumption
  <2>8. /\ Y <= Bandwidth * c + (Bandwidth + 1) * L
        /\ Y >= Bandwidth * c - (A + 1) * ((A + 1) + L)
    BY <2>3, <2>4, <2>7
  <2> QED BY <2>3a, <2>8 DEF Kept, L
<1> HIDE DEF c
<1>12. Contents(u, D, A + 1, c)
  BY <1>1, <1>6, <1>8, <1>9, <1>10, <1>11 DEF Contents
<1> QED BY <1>12 DEF c

\* A packet that does not fit waits, and nothing is sent.
LEMMA ContentsWait ==
    ASSUME NEW s, LinkType(s), NEW D, NEW A, NEW b \in Nat, Contents(s, D, A, b),
           NEW p \in Packet, p.packet = A + 1, ~Fits(s, p)
    PROVE  Contents([s EXCEPT !.waiting = Append(@, p)], D, A + 1, b)
<1> DEFINE Q == s.queue
           W == s.waiting
           V == Append(W, p)
           u == [s EXCEPT !.waiting = Append(@, p)]
<1>1. s \in NodeOutbound /\ W \in Seq(Packet)
  BY DEF LinkType, NodeOutbound
<1>2. u.queue = Q /\ u.waiting = V /\ u.buffer = s.buffer /\ u.accSize = s.accSize
  BY <1>1 DEF NodeOutbound
<1>3. /\ Books(Q, W, D, A) /\ Ordered(Q, W, D, s.accSize) /\ BufferExact(s) /\ Full(s, D) /\ Kept(s, D, A, b)
  BY DEF Contents
<1>4. Len(D) \in Nat /\ A \in Nat
  BY <1>3, PacketNumbers
<1>5. Books(Q, V, D, A + 1) /\ Ordered(Q, V, D, s.accSize)
  BY <1>3, BooksArrive, OrderedWait
<1>6. /\ ToSet(V) = ToSet(W) \cup {p}
      /\ Head(V) = IF W = <<>> THEN p ELSE Head(W)
  <2>1. ToSet(V) = ToSet(W) \cup {p}
    BY <1>1, ValuesAppend
  <2>2. Head(V) = IF W = <<>> THEN p ELSE Head(W)
    BY <1>1
  <2> QED BY <2>1, <2>2
<1> HIDE DEF u, V
<1>7. ~Fits(u, p) /\ \A r : Fits(u, r) <=> Fits(s, r)
  BY <1>2 DEF Fits
<1>8. BufferExact(u)
  BY <1>2, <1>3, <1>6, <1>7 DEF BufferExact
<1>9. Full(u, D)
  <2>1. Same(Q, V, D) => Same(Q, W, D)
    BY <1>6 DEF Same
  <2> QED BY <1>2, <1>3, <1>6, <1>7, <2>1 DEF Full
<1>10. Kept(u, D, A + 1, b)
  <2> DEFINE X == ServedOf(s, D)
             L == Len(D)
  <2>1. X <= Bandwidth * b + (Bandwidth + 1) * L /\ X >= Bandwidth * b - A * (A + L)
    BY <1>3 DEF Kept
  <2>2. ServedOf(u, D) = X
    BY <1>2 DEF ServedOf
  <2>3. (A + 1) * ((A + 1) + L) = A * (A + L) + A + (A + 1 + L)
    BY <1>4
  <2>4. X \in Int
    <3>1. Numbered(Q) /\ Numbered(ToSet(D))
      BY <1>3, PacketNumbers
    <3> PICK a \in Int : a = s.accSize
      BY <1>1 DEF NodeOutbound
    <3>2. SentOf(Q, a) \in Int /\ SizesOf(ToSet(D)) \in Int
      BY <3>1, SentFacts, SizesFacts
    <3> QED BY <3>2 DEF ServedOf
  <2> DEFINE y == Bandwidth * b
             z == A * (A + L)
  <2>5. y \in Nat /\ z \in Nat /\ L \in Nat /\ X >= y - z
    BY <1>4, <2>1 DEF LinkAssumption
  <2> HIDE DEF X, L, y, z
  <2>6. X >= y - (z + A + (A + 1 + L))
    BY <1>4, <2>4, <2>5
  <2> QED BY <2>1, <2>2, <2>3, <2>6 DEF Kept, X, L, y, z
<1>11. Contents(u, D, A + 1, b)
  BY <1>2, <1>5, <1>8, <1>9, <1>10 DEF Contents
<1> QED BY <1>11 DEF u

\* A packet is delivered, and maybe the first that waits is pushed.
LEMMA ContentsPop ==
    ASSUME NEW s, LinkType(s), NotFinished(s), s.wakeups = {}, s.queue # {}, NEW p \in Firsts(s),
           NEW D, NEW A, NEW b \in Nat, Contents(s, D, A, b)
    PROVE  Contents(PopEvent(s, WakeupTime(s), p), Append(D, p), A,
                    b + (WakeupTime(s) - s.lastWakeupT))
<1> DEFINE Q == s.queue
           W == s.waiting
           acc == s.accSize
           R == Q \ {p}
           E == Append(D, p)
           t == WakeupTime(s)
<1>1. t \in Nat /\ s.lastWakeupT <= t
  BY WakeupTimeIs
<1>2. /\ Books(Q, W, D, A) /\ Ordered(Q, W, D, acc) /\ BufferExact(s) /\ Full(s, D) /\ Kept(s, D, A, b)
  BY DEF Contents
<1>3. /\ p \in Q /\ \A r \in Q : p.accSize <= r.accSize
      /\ W \in Seq(Packet) /\ D \in Seq(Packet) /\ Q \subseteq Packet
  BY <1>2 DEF Firsts, Books
<1>4. /\ IsFiniteSet(Q) /\ IsFiniteSet(ToSet(D)) /\ Len(D) \in Nat /\ A \in Nat
      /\ \A r \in Q \cup ToSet(W) \cup ToSet(D) :
            r \in Packet /\ r.size \in Nat /\ r.accSize \in Nat /\ r.packet \in Nat
      /\ Cardinality(Q) <= A /\ Numbered(Q) /\ Numbered(ToSet(D))
  BY <1>2, PacketNumbers
<1>5. acc \in Nat /\ s.buffer \in Int /\ s.lastWakeupT \in Nat
  BY DEF LinkType, NodeOutbound
<1> PICK u : u = PopEvent(s, t, p)
  OBVIOUS
<1>6. PICK gain \in Nat :
          /\ Gained(s, t, gain)
          /\ u.accSize = acc + gain
          /\ u.accSize <= p.accSize /\ p.accSize - u.accSize <= Bandwidth
          /\ \/ /\ W # <<>> /\ s.buffer - p.size + Head(W).size < BufferSize
                /\ u.waiting = Tail(W)
                /\ u.buffer = s.buffer - p.size + Head(W).size
                /\ \E q \in Packet : /\ q.packet = Head(W).packet /\ q.size = Head(W).size
                                     /\ q.accSize = u.accSize + q.size
                                     /\ u.queue = R \cup {q}
             \/ /\ W # <<>> => ~ (s.buffer - p.size + Head(W).size < BufferSize)
                /\ u.waiting = W /\ u.queue = R
                /\ u.buffer = s.buffer - p.size
  BY PopIs
<1> DEFINE k == t - s.lastWakeupT
<1>7. k \in Nat
  BY <1>1, <1>5
<1> HIDE DEF t
<1>8. u.accSize \in Nat /\ acc <= u.accSize
  BY <1>5, <1>6
<1>9. /\ Books(R, W, E, A) /\ p \notin ToSet(D)
      /\ Ordered(R, W, E, u.accSize)
  BY <1>2, <1>3, <1>8, BooksLeave, OrderedLeave
<1>10. E \in Seq(Packet) /\ Len(E) = Len(D) + 1 /\ ToSet(E) = ToSet(D) \cup {p}
  BY <1>3, <1>4, ValuesAppend
<1>11. Numbered(R)
  <2> PICK S : S = Q
    OBVIOUS
  <2>1. Numbered(S)
    BY <1>4
  <2>2. IsFiniteSet(S \ {p})
    BY <2>1, FS_RemoveElement DEF Numbered
  <2> QED BY <2>1, <2>2 DEF Numbered
<1>11a. p.size \in Int /\ p.accSize \in Int
  BY <1>3, <1>4
<1>12. SizesOf(Q) = p.size + SizesOf(R) /\ SizesOf(R) \in Int
  <2> PICK S : S = Q
    OBVIOUS
  <2>1. Numbered(S) /\ Numbered(S \ {p}) /\ p \in S
    BY <1>3, <1>4, <1>11
  <2>2. SizesOf(S) = p.size + SizesOf(S \ {p}) /\ SizesOf(S \ {p}) \in Int
    BY <2>1, SizesFacts
  <2> QED BY <2>2
<1> HIDE DEF E, Q, W, acc, k
\* What has been sent, whether or not a packet is pulled.
<1>13. ASSUME SentOf(u.queue, u.accSize) = SentOf(R, u.accSize)
       PROVE  Kept(u, E, A, b + k)
  <2>1. PICK n \in Nat, m \in Nat, w \in Nat : Share(s, A, t, gain, n, m, w)
    <3>1. /\ A \in Nat /\ Cardinality(s.queue) <= A /\ gain \in Nat /\ Gained(s, t, gain)
          /\ t \in Nat /\ s.lastWakeupT <= t
      BY <1>1, <1>4, <1>6 DEF Q, t
    <3> QED BY <3>1, GainKept
  <2>2. /\ n = Cardinality(Q) /\ n <= A /\ w = gain * n
        /\ w <= k * Bandwidth /\ k * Bandwidth <= w + n
    BY <2>1 DEF Share, Q, k
  <2> PICK a \in Int : a = u.accSize
    BY <1>8
  <2> PICK r \in Int : r = p.accSize - a
    BY <1>11a
  <2>3. r \in 0..Bandwidth
    BY <1>6, <1>8, <1>11a DEF LinkAssumption
  <2> DEFINE X == SizesOf(ToSet(D)) + SentOf(Q, acc)
             Y == SizesOf(ToSet(D) \cup {p}) + SentOf(R, a)
             L == Len(D)
  <2>4. X = ServedOf(s, D) /\ Y = ServedOf(u, E)
    BY <1>10, <1>13 DEF ServedOf, Q, acc
  <2>5. X \in Int /\ Y = X + w + r
    <3>1. /\ Numbered(ToSet(D)) /\ Numbered(Q) /\ acc \in Int /\ gain \in Int /\ a = acc + gain
          /\ w \in Int /\ w = gain * Cardinality(Q)
          /\ p \in Q /\ p \notin ToSet(D)
      BY <1>3, <1>4, <1>5, <1>6, <1>9, <2>2
    <3> PICK Z : Z = ToSet(D)
      OBVIOUS
    <3>2. Leaves(Z, Q, acc, gain, a, w, p, r)
      BY <2>2, <3>1 DEF Leaves
    <3>3. LeavesSo(Z, Q, acc, a, w, p, r)
      BY <3>2, ServedPop
    <3>4. /\ SizesOf(Z) + SentOf(Q, acc) \in Int
          /\ SizesOf(Z \cup {p}) + SentOf(Q \ {p}, a) = (SizesOf(Z) + SentOf(Q, acc)) + w + r
      BY <3>3 DEF LeavesSo
    <3> QED BY <3>4 DEF R
  <2>6. X <= Bandwidth * b + (Bandwidth + 1) * L /\ X >= Bandwidth * b - A * (A + L)
    BY <1>2, <2>4 DEF Kept
  <2>7. L \in Nat /\ A \in Nat
    BY <1>4
  <2> HIDE DEF X, Y, L
  <2>8. /\ X + w + r <= Bandwidth * (b + k) + (Bandwidth + 1) * (L + 1)
        /\ X + w + r >= Bandwidth * (b + k) - A * (A + (L + 1))
    BY <1>7, <2>2, <2>3, <2>5, <2>6, <2>7, KeptGrows DEF LinkAssumption
  <2>9. /\ Y <= Bandwidth * (b + k) + (Bandwidth + 1) * (L + 1)
        /\ Y >= Bandwidth * (b + k) - A * (A + (L + 1))
    BY <2>5, <2>8
  <2> QED BY <1>10, <2>4, <2>9 DEF Kept, L
<1>14. CASE /\ W # <<>> /\ s.buffer - p.size + Head(W).size < BufferSize
            /\ u.waiting = Tail(W)
            /\ u.buffer = s.buffer - p.size + Head(W).size
            /\ \E q \in Packet : /\ q.packet = Head(W).packet /\ q.size = Head(W).size
                                 /\ q.accSize = u.accSize + q.size
                                 /\ u.queue = R \cup {q}
  <2> DEFINE T == Tail(W)
             h == Head(W)
  <2>1. PICK q \in Packet : /\ q.packet = h.packet /\ q.size = h.size
                            /\ q.accSize = u.accSize + q.size
                            /\ u.queue = R \cup {q}
    BY <1>14
  <2>2. Books(R \cup {q}, T, E, A) /\ q \notin R /\ Ordered(R \cup {q}, T, E, u.accSize)
    BY <1>9, <1>14, <2>1, BooksPull, OrderedPull
  <2>3. q.size \in Int /\ h.size \in Int /\ p.size \in Int
    BY <1>3, <1>4, <2>1 DEF Packet
  <2>4. BufferExact(u)
    <3>1. SizesOf(R \cup {q}) = SizesOf(R) + q.size
      <4> PICK S : S = R
        OBVIOUS
      <4>1. Numbered(S) /\ q.size \in Int /\ q.accSize \in Int /\ q \notin S
        BY <1>11, <2>2, <2>3 DEF Packet
      <4>2. SizesOf(S \cup {q}) = SizesOf(S) + q.size
        BY <4>1, SizesAdd
      <4> QED BY <4>2
    <3>2. s.buffer = SizesOf(Q)
      BY <1>2 DEF BufferExact, Q
    <3>3. u.buffer = SizesOf(R) + q.size
      BY <1>12, <1>14, <2>1, <2>3, <3>2
    <3>4. u.buffer < BufferSize /\ u.queue # {}
      BY <1>14, <2>1
    <3> QED BY <2>1, <3>1, <3>3, <3>4 DEF BufferExact
  <2>5. Full(u, E)
    <3> SUFFICES ASSUME Same(R \cup {q}, T, E), T # <<>> PROVE ~ Fits(u, Head(T))
      BY <1>14, <2>1 DEF Full
    <3>1. T \in Seq(Packet) /\ ToSet(W) = ToSet(T) \cup {h}
      BY <1>3, <1>14, ValuesTail
    <3>2. Head(T) \in ToSet(T)
      <4> HIDE DEF T
      <4> QED BY <3>1, ValuesTail
    <3>3. \A v, r \in (R \cup {q}) \cup ToSet(T) \cup ToSet(E) : v.size = r.size
      BY DEF Same
    <3>4. p.size = q.size /\ Head(T).size = q.size /\ h.size = q.size
      BY <1>10, <2>1, <3>2, <3>3
    <3> HIDE DEF T, h
    <3>5. \A v \in Q \cup ToSet(W) \cup ToSet(D) : v.size = q.size
      BY <1>10, <3>1, <3>3, <3>4
    <3>6. Same(Q, W, D)
      BY <3>5 DEF Same
    <3>7. ~ Fits(s, h)
      BY <1>2, <1>14, <3>6 DEF Full, Q, W, h
    <3>8. ~ (s.buffer + h.size < BufferSize)
      BY <3>7 DEF Fits
    <3>9. u.buffer = s.buffer
      BY <1>5, <1>14, <2>3, <3>4 DEF h
    <3> QED BY <3>4, <3>8, <3>9 DEF Fits
  <2>6. SentOf(u.queue, u.accSize) = SentOf(R, u.accSize)
    <3> PICK a \in Int : a = u.accSize
      BY <1>8
    <3> PICK S : S = R
      OBVIOUS
    <3>1. Numbered(S) /\ q \notin S /\ q.size \in Int /\ q.accSize = a + q.size
      BY <1>11, <2>1, <2>2, <2>3
    <3>2. SentOf(S \cup {q}, a) = SentOf(S, a)
      BY <3>1, SentJoin
    <3> QED BY <2>1, <3>2
  <2>7. Kept(u, E, A, b + k)
    BY <1>13, <2>6
  <2> QED BY <1>14, <2>1, <2>2, <2>4, <2>5, <2>7 DEF Contents, E, k, t
<1>15. CASE /\ W # <<>> => ~ (s.buffer - p.size + Head(W).size < BufferSize)
            /\ u.waiting = W /\ u.queue = R
            /\ u.buffer = s.buffer - p.size
  <2>1. W # <<>> => ~ Fits(u, Head(W))
    BY <1>15 DEF Fits
  <2>2. BufferExact(u)
    <3>1. s.buffer = SizesOf(Q) /\ s.buffer < BufferSize
      BY <1>2 DEF BufferExact, Q
    <3>2. p.size \in Nat
      BY <1>3, <1>4
    <3>3. u.buffer = SizesOf(R) /\ u.buffer < BufferSize
      BY <1>5, <1>12, <1>15, <3>1, <3>2 DEF LinkAssumption
    <3> QED BY <1>15, <2>1, <3>3 DEF BufferExact
  <2>3. Full(u, E)
    BY <1>15, <2>1 DEF Full
  <2>4. Kept(u, E, A, b + k)
    BY <1>13, <1>15
  <2> QED BY <1>9, <1>15, <2>2, <2>3, <2>4 DEF Contents, E, k, t
<1> QED BY <1>6, <1>14, <1>15

-----------------------------------------------------------------------------
(***************************************************************************)
(* The inductive invariant: the link is as its handlers need it, and so is *)
(* what is in it.                                                          *)
(***************************************************************************)
TrafficInv == /\ now \in Nat /\ arrived \in Nat /\ busy \in Nat
              /\ LinkInv(sender)
              /\ sender.lastWakeupT <= now
              /\ Contents(sender, delivered, arrived, busy)
              /\ ~aborted

\* Nothing in the link.
LEMMA ContentsOfNothing ==
    ASSUME NEW s, s = NewNodeOutbound
    PROVE  Contents(s, <<>>, 0, 0)
<1>1. s.queue = {} /\ s.waiting = <<>> /\ s.buffer = 0 /\ s.accSize = 0
  BY DEF NewNodeOutbound
<1>2. ToSet(<<>>) = {}
  BY DEF ToSet
<1>3. IsFiniteSet({}) /\ Cardinality({}) = 0
  BY FS_EmptySet
<1>4. Books({}, <<>>, <<>>, 0)
  <2>1. <<>> \in Seq(Packet) /\ Len(<<>>) = 0 /\ DOMAIN <<>> = {}
    OBVIOUS
  <2> QED BY <1>2, <1>3, <2>1 DEF Books
<1>5. Ordered({}, <<>>, <<>>, 0)
  BY <1>2 DEF Ordered
<1>6. Numbered({})
  BY <1>3 DEF Numbered
<1>7. SizesOf({}) = 0
  BY <1>6, SizesFacts
<1>8. SentOf({}, 0) = 0
  <2> PICK a \in Int : a = 0
    OBVIOUS
  <2>1. SentOf({}, a) = 0
    BY <1>6, SentFacts
  <2> QED BY <2>1
<1>9. BufferExact(s)
  BY <1>1, <1>7 DEF BufferExact, LinkAssumption
<1>10. Full(s, <<>>)
  BY <1>1 DEF Full
<1>11. Kept(s, <<>>, 0, 0)
  <2>1. ServedOf(s, <<>>) = 0
    BY <1>1, <1>2, <1>7, <1>8 DEF ServedOf
  <2>2. Len(<<>>) = 0 /\ Bandwidth * 0 = 0 /\ (Bandwidth + 1) * 0 = 0
    BY DEF LinkAssumption
  <2> QED BY <2>1, <2>2 DEF Kept
<1> QED BY <1>1, <1>4, <1>5, <1>9, <1>10, <1>11 DEF Contents

\* A link nobody has used.
LEMMA TrafficInitially == TrafficInit => TrafficInv
<1> SUFFICES ASSUME TrafficInit PROVE TrafficInv
  OBVIOUS
<1>1. /\ sender.queue = {} /\ sender.wakeups = {} /\ sender.waiting = <<>> /\ sender.buffer = 0
      /\ sender.accSize = 0 /\ sender.lastWakeupT = 0 /\ sender = NewNodeOutbound
  BY DEF TrafficInit, NewNodeOutbound
<1>2. sender \in NodeOutbound
  BY <1>1 DEF NewNodeOutbound, NodeOutbound
<1>3. IsFiniteSet(sender.queue)
  BY <1>1, FS_EmptySet
<1>4. LinkInv(sender)
  BY <1>1, <1>2, <1>3 DEF LinkInv, LinkType, NotFinished, WakeupExact
<1>5. Contents(sender, delivered, arrived, busy)
  BY ContentsOfNothing DEF TrafficInit
<1> QED
  BY <1>1, <1>4, <1>5 DEF TrafficInit, TrafficInv

\* Whatever happens now, the wakeup is not before it.
LEMMA NotMissed ==
    ASSUME NEW s, LinkInv(s), NEW t, \A w \in s.wakeups : t <= w.timestamp, s.queue # {}
    PROVE  t <= WakeupTime(s)
<1> DEFINE v == [timestamp |-> WakeupTime(s), current |-> TRUE]
<1>1. s.wakeups = {v}
  BY DEF LinkInv, WakeupExact
<1>2. v.timestamp = WakeupTime(s)
  OBVIOUS
<1> HIDE DEF v
<1> QED
  BY <1>1, <1>2

\* A packet is handed over.
LEMMA HandOverKeeps ==
    ASSUME TrafficInv, NEW t \in 0..MaxTime, NEW size \in Sizes, HandOver(t, size)
    PROVE  TrafficInv'
<1> DEFINE p == [packet |-> arrived + 1, size |-> size, accSize |-> 0]
<1>1. /\ LinkInv(sender) /\ t \in Nat /\ now \in Nat /\ now <= t
      /\ sender.lastWakeupT <= now /\ arrived \in Nat /\ arrived' = arrived + 1
      /\ now' = t /\ sender' = AddEvent(sender, t, p) /\ aborted' = AddEventFails(sender, t, p)
      /\ \A w \in sender.wakeups : t <= w.timestamp
      /\ delivered' = delivered /\ busy \in Nat
      /\ busy' = IF Fits(sender, p) THEN BusyUntil(t) ELSE busy
      /\ Contents(sender, delivered, arrived, busy)
  BY DEF TrafficInv, HandOver, MayRunAt
<1>2. p \in Packet /\ p.packet = arrived + 1
  <2>1. arrived \in Nat /\ size \in Nat
    BY <1>1
  <2> DEFINE k == arrived + 1
  <2>2. k \in Nat
    BY <2>1
  <2>3. k \in Names
    BY <2>2 DEF Names
  <2> HIDE DEF k
  <2>4. [packet |-> k, size |-> size, accSize |-> 0] \in Packet
    BY <2>1, <2>3 DEF Packet
  <2> QED
    BY <2>4 DEF k
<1> HIDE DEF p
<1>3. sender.lastWakeupT <= t /\ sender.lastWakeupT \in Nat
  <2>1. sender.lastWakeupT \in Nat
    BY <1>1 DEF LinkInv, LinkType, NodeOutbound
  <2> QED
    BY <1>1, <2>1
<1>4. sender.queue # {} => t <= WakeupTime(sender)
  BY <1>1, NotMissed
<1>5. LinkInv(sender') /\ sender'.lastWakeupT <= t /\ ~aborted'
  BY <1>1, <1>2, <1>3, <1>4, AddKeeps
<1>6. busy' \in Nat /\ Contents(sender', delivered', arrived', busy')
  <2>1. CASE Fits(sender, p)
    <3>1. /\ sender' = PushEvent(sender, t, p)
          /\ busy' = IF sender.queue = {} THEN busy ELSE busy + (t - sender.lastWakeupT)
      BY <1>1, <2>1 DEF AddEvent, BusyUntil
    <3>2. LinkType(sender) /\ NotFinished(sender)
      BY <1>1 DEF LinkInv
    <3>3. Contents(PushEvent(sender, t, p), delivered, arrived + 1,
                   IF sender.queue = {} THEN busy ELSE busy + (t - sender.lastWakeupT))
      BY <1>1, <1>2, <1>3, <1>4, <2>1, <3>2, ContentsPush
    <3>4. busy' \in Nat
      <4>1. CASE sender.queue = {}
        BY <1>1, <3>1, <4>1
      <4>2. CASE sender.queue # {}
        BY <1>1, <1>3, <3>1, <4>2
      <4> QED BY <4>1, <4>2
    <3> QED BY <1>1, <3>1, <3>3, <3>4
  <2>2. CASE ~ Fits(sender, p)
    <3>1. sender' = [sender EXCEPT !.waiting = Append(@, p)] /\ busy' = busy
      BY <1>1, <2>2 DEF AddEvent
    <3>2. LinkType(sender)
      BY <1>1 DEF LinkInv
    <3>3. Contents([sender EXCEPT !.waiting = Append(@, p)], delivered, arrived + 1, busy)
      BY <1>1, <1>2, <2>2, <3>2, ContentsWait
    <3> QED BY <1>1, <3>1, <3>3
  <2> QED BY <2>1, <2>2
<1> QED
  BY <1>1, <1>5, <1>6 DEF TrafficInv

\* The link is woken up.
LEMMA WakeupKeeps ==
    ASSUME TrafficInv, NEW w \in sender.wakeups, Wakeup(w)
    PROVE  TrafficInv'
<1> DEFINE s == [sender EXCEPT !.wakeups = @ \ {w}]
<1>1. /\ sender \in NodeOutbound /\ IsFiniteSet(sender.queue) /\ NotFinished(sender)
      /\ WakeupExact(sender) /\ arrived' = arrived /\ arrived \in Nat /\ busy \in Nat
      /\ Contents(sender, delivered, arrived, busy)
  BY DEF TrafficInv, LinkInv, LinkType, Wakeup
<1>2. sender.queue # {} /\ sender.wakeups = {w} /\ w.timestamp = WakeupTime(sender)
  <2> DEFINE v == [timestamp |-> WakeupTime(sender), current |-> TRUE]
  <2>1. sender.queue # {} /\ sender.wakeups = {v}
    BY <1>1 DEF WakeupExact
  <2>2. v.timestamp = WakeupTime(sender)
    OBVIOUS
  <2> HIDE DEF v
  <2> QED
    BY <2>1, <2>2
<1>3. /\ s \in NodeOutbound /\ s.wakeups = {} /\ s.queue = sender.queue
      /\ s.accSize = sender.accSize /\ s.lastWakeupT = sender.lastWakeupT
      /\ s.waiting = sender.waiting /\ s.buffer = sender.buffer
  BY <1>1, <1>2 DEF NodeOutbound
<1>4. PICK p \in Firsts(s) : /\ aborted' = PopEventFails(s, w.timestamp, p)
                             /\ sender' = PopEvent(s, w.timestamp, p)
                             /\ delivered' = Append(delivered, p)
                             /\ busy' = busy + (w.timestamp - sender.lastWakeupT)
  BY <1>2, <1>3 DEF Wakeup, BusyUntil
<1> HIDE DEF s
<1>5. WakeupTime(s) = w.timestamp /\ LinkType(s) /\ NotFinished(s)
  BY <1>1, <1>2, <1>3 DEF WakeupTime, FirstAcc, Firsts, LinkType, NotFinished
<1>6. LinkInv(sender') /\ sender'.lastWakeupT = w.timestamp /\ ~aborted'
  BY <1>2, <1>3, <1>4, <1>5, PopKeeps
<1>7. /\ now' = w.timestamp /\ w.timestamp \in Nat
      /\ s.lastWakeupT <= w.timestamp
  BY <1>2, <1>3, <1>5, WakeupTimeIs DEF Wakeup, MayRunAt
<1>8. Contents(s, delivered, arrived, busy)
  BY <1>1, <1>3 DEF Contents, BufferExact, Full, Fits, Kept, ServedOf
<1>9. Contents(sender', delivered', arrived', busy')
  <2>1. Contents(PopEvent(s, WakeupTime(s), p), Append(delivered, p), arrived,
                 busy + (WakeupTime(s) - s.lastWakeupT))
    BY <1>1, <1>2, <1>3, <1>5, <1>8, ContentsPop
  <2> QED BY <1>1, <1>3, <1>4, <1>5, <2>1
<1>10. busy' \in Nat
  <2>1. s.lastWakeupT \in Nat
    BY <1>3 DEF NodeOutbound
  <2> QED BY <1>1, <1>3, <1>4, <1>7, <2>1
<1> QED
  BY <1>1, <1>6, <1>7, <1>9, <1>10 DEF TrafficInv

\* Each step preserves the invariant.
THEOREM TrafficInductive == TrafficSpec => []TrafficInv
<1>1. TrafficInv /\ [TrafficNext]_trafficVars => TrafficInv'
  <2> SUFFICES ASSUME TrafficInv, [TrafficNext]_trafficVars PROVE TrafficInv'
    OBVIOUS
  <2>1. ASSUME NEW t \in 0..MaxTime, NEW size \in Sizes, HandOver(t, size) PROVE TrafficInv'
    BY <2>1, HandOverKeeps
  <2>2. ASSUME NEW w \in sender.wakeups, Wakeup(w) PROVE TrafficInv'
    BY <2>2, WakeupKeeps
  <2>3. CASE UNCHANGED trafficVars
    <3>1. /\ now' = now /\ sender' = sender /\ delivered' = delivered
          /\ arrived' = arrived /\ busy' = busy /\ aborted' = aborted
      BY <2>3 DEF trafficVars
    <3>2. LinkInv(sender') /\ Contents(sender', delivered', arrived', busy')
      BY <3>1 DEF TrafficInv
    <3> QED BY <3>1, <3>2 DEF TrafficInv
  <2> QED
    BY <2>1, <2>2, <2>3 DEF TrafficNext
<1> QED
  BY <1>1, TrafficInitially, PTL DEF TrafficSpec

-----------------------------------------------------------------------------
\* No wakeup finds the link empty or its packet unfinished, and none is set
\* before lastWakeupT is the present, so traffic.go never ends the program
\* (119, 129, 158, 169): for every link whose bandwidth per tick is within the
\* tolerance.
THEOREM NoFatalError == TrafficSpec => []NeverAborts
<1>1. TrafficInv => NeverAborts
  BY DEF TrafficInv, NeverAborts
<1> QED
  BY <1>1, TrafficInductive, PTL

\* There is one wakeup, and nextWakeupE points to it, exactly as long as
\* packets are being sent; buffer counts the bytes of the queue, below
\* bufferSize, whatever has been pushed, pulled and popped in which order; and
\* a link that sends nothing has nothing waiting but behind a packet no buffer
\* could hold (addEvent, popEvent, pullWaitingListAndUpdate).
THEOREM LinkStaysExact == TrafficSpec => []LinkExact
<1>1. TrafficInv => LinkExact
  <2> SUFFICES ASSUME TrafficInv PROVE LinkExact
    OBVIOUS
  <2>1. LinkInv(sender) /\ BufferExact(sender) /\ Books(sender.queue, sender.waiting, delivered, arrived)
    BY DEF TrafficInv, Contents
  <2>2. \A w \in sender.wakeups : w.current
    BY <2>1 DEF LinkInv, WakeupExact
  <2>3. Cardinality(sender.wakeups) = (IF sender.queue = {} THEN 0 ELSE 1)
    <3>1. CASE sender.queue = {}
      BY <2>1, <3>1, FS_EmptySet DEF LinkInv, WakeupExact
    <3>2. CASE sender.queue # {}
      <4> DEFINE v == [timestamp |-> WakeupTime(sender), current |-> TRUE]
      <4>1. sender.wakeups = {v}
        BY <2>1, <3>2 DEF LinkInv, WakeupExact
      <4> HIDE DEF v
      <4>2. Cardinality({v}) = 1
        BY FS_Singleton
      <4> QED BY <3>2, <4>1, <4>2
    <3> QED BY <3>1, <3>2
  <2>4. sender.buffer = SizesOf(sender.queue) /\ sender.buffer < BufferSize
    BY <2>1 DEF BufferExact
  <2>5. sender.queue = {} /\ sender.waiting # <<>> => Head(sender.waiting).size >= BufferSize
    <3> SUFFICES ASSUME sender.queue = {}, sender.waiting # <<>>
                 PROVE  Head(sender.waiting).size >= BufferSize
      OBVIOUS
    <3>1. Numbered({})
      BY FS_EmptySet DEF Numbered
    <3>2. sender.buffer = 0
      BY <2>4, <3>1, SizesFacts
    <3>3. ~ (sender.buffer + Head(sender.waiting).size < BufferSize)
      BY <2>1 DEF BufferExact, Fits
    <3>4. Head(sender.waiting).size \in Nat
      <4>1. sender.waiting \in Seq(Packet)
        BY <2>1 DEF Books
      <4>2. Head(sender.waiting) \in Packet
        BY <4>1, ValuesTail
      <4> QED BY <4>2 DEF Packet
    <3> QED BY <3>2, <3>3, <3>4 DEF LinkAssumption
  <2> QED BY <2>2, <2>3, <2>4, <2>5 DEF LinkExact
<1> QED
  BY <1>1, TrafficInductive, PTL

\* If all packets have one size they are sent in the order they came, also
\* when packets had to wait (traffic.go:66, 80): none is pushed past one that
\* waits, and the heap finishes first what was pushed first.
THEOREM NobodyOvertakes == TrafficSpec => []NoOvertaking
<1>1. TrafficInv => NoOvertaking
  BY DEF TrafficInv, Contents, Ordered, NoOvertaking, OneSize, Same
<1> QED
  BY <1>1, TrafficInductive, PTL

\* The queue is sent what the bandwidth allows while the link is busy: what
\* rounding loses, or gives to a packet that leaves a tick early, stays within
\* a bound of the arrivals and deliveries, whatever the sizes and times.
THEOREM BandwidthStaysKept == TrafficSpec => []BandwidthKept
<1>1. TrafficInv => BandwidthKept
  <2>1. Served = ServedOf(sender, delivered)
    BY DEF Served, ServedOf
  <2> QED BY <2>1 DEF TrafficInv, Contents, Kept, BandwidthKept
<1> QED
  BY <1>1, TrafficInductive, PTL

HIDE TrafficAssumption
HIDE LinkAssumption

-----------------------------------------------------------------------------
(***************************************************************************)
(* The program with its links (BitcoinSimulation.tla).  That no packet is  *)
(* in two places needs to know where packets come from: an announcement    *)
(* follows its block into the sender's graph, which the block enters once, *)
(* and a request or the data is of a block that is in flight, asked for    *)
(* once.  That the wakeups find their packets needs the links' invariant,  *)
(* and that time does not pass a wakeup.  That the program takes the steps *)
(* of BitcoinNetwork.tla needs that nobody looks at a block without edges. *)
(***************************************************************************)
\* The number of blocks with edges: the last block mined has none yet.
Size == mined - 1

\* What may be in the queue, when n blocks have edges and the time is t.
IsGenBlock(e, n, t) == /\ e = GenBlock(e.timestamp, n)
                       /\ e.timestamp \in Nat /\ t <= e.timestamp
                       /\ e.timestamp <= Duration => n < MaxBlock
IsPacketEvent(e, n, t) == /\ e.packet \in NetPackets(n)
                          /\ e.timestamp \in Nat /\ t <= e.timestamp
                          /\ \/ e = Constructed(e.timestamp, e.packet)
                             \/ e = Sending(e.timestamp, e.packet)

PacketEvents(Q) == {e \in Q : e.type # "GenBlock"}
PacketsOf(Q)    == {e.packet : e \in PacketEvents(Q)}

QueueOK(Q, n, t) ==
    /\ IsFiniteSet(Q)
    /\ \A e \in Q : IsGenBlock(e, n, t) \/ IsPacketEvent(e, n, t)
    /\ \A e, f \in Q : e.type = "GenBlock" /\ f.type = "GenBlock" => e = f
    /\ \A e, f \in PacketEvents(Q) : e.packet = f.packet => e = f
    /\ \E e \in Q : e.type = "GenBlock"

\* The events N of packets that come into the queue, and the block G that is to
\* be generated next, if e was that of the one before.
Results(N, k, t) == /\ IsFiniteSet(N) /\ \A f \in N : IsPacketEvent(f, k, t)
                    /\ \A f, g \in N : f.packet = g.packet => f = g

NextBlock(G, e, n, k, t) == IF e.type = "GenBlock" THEN \E f : G = {f} /\ IsGenBlock(f, k, t)
                            ELSE G = {} /\ n = k

\* The queue without e, and with them.
Without(Q, e)        == Q \ {e}
Moved(Q, e, N, G)    == Without(Q, e) \cup N \cup G
Apart(N, D)          == PacketsOf(N) \cap PacketsOf(D) = {}

\* No packet is twice in a link, in its queue and in waiting.
Once(Q, W) ==
    /\ \A p, q \in Q : p.packet = q.packet => p = q
    /\ \A i, j \in DOMAIN W : W[i].packet = W[j].packet => i = j
    /\ \A p \in Q : \A i \in DOMAIN W : p.packet # W[i].packet

Inside(Q, W) == {p.packet : p \in Q \cup ToSet(W)}

PacketsIn(s) == Inside(s.queue, s.waiting)

\* No wakeup comes before t.
NotLate(s, t) == \A w \in s.wakeups : t <= w.timestamp

\* The link when the wakeup has left the oracle's queue.
Woken(s, w) == [s EXCEPT !.wakeups = @ \ {w}]

\* What is in link v is in link s, and p.
Joined(v, s, p) == PacketsIn(v) = PacketsIn(s) \cup {p}

\* A link, its sender and the time.
SenderOK(m, s, n, t) ==
    /\ LinkInv(s) /\ Once(s.queue, s.waiting) /\ s.lastWakeupT <= t
    /\ NotLate(s, t)
    /\ \A p \in PacketsIn(s) : p \in NetPackets(n) /\ p.from = m

Tables ==
    /\ mined \in Nat /\ Size \in 1..MaxBlock /\ timestamp \in Nat
    /\ TableOK(blocks, Size) /\ blocks[Size].minerID \in Miners
    /\ miners \in [Miners -> [graph : Graph, cache : Seq(0..(Size - 1))]]
    /\ \A m \in Miners : /\ GraphOK(blocks, Size, miners[m].graph)
                         /\ Genesis \in miners[m].graph.ledger
    /\ inFlight \in [Miners -> SUBSET (0..(Size - 1))]

Places ==
    /\ QueueOK(queue, Size, timestamp)
    /\ nodes \in [Miners -> NodeOutbound]
    /\ \A m \in Miners : /\ SenderOK(m, nodes[m], Size, timestamp)
                         /\ PacketsIn(nodes[m]) \cap PacketsOf(queue) = {}

\* Where the packets P come from, when the miners are M and F is in flight.
OriginsOK(P, M, F) ==
    /\ \A p \in P : p.type = "INV" => p.block \in M[p.from].graph.ledger
    /\ \A p \in P : p.type # "INV" => p.block \in F[p.to]
    /\ \A p, q \in P : /\ p.type # "INV" /\ q.type # "INV"
                       /\ p.to = q.to /\ p.block = q.block
                       => p = q

Origins == OriginsOK(Packets, miners, inFlight)

SimInv == Tables /\ Places /\ Origins

-----------------------------------------------------------------------------
(***************************************************************************)
(* Packets and events.                                                     *)
(***************************************************************************)
\* The fields of a packet.
LEMMA NetPacketFields ==
    ASSUME NEW n, NEW p \in NetPackets(n)
    PROVE  /\ p.from \in Miners /\ p.to \in Miners /\ p.block \in 0..(n - 1)
           /\ p.type \in {"INV", "GET", "GETCompact", "SendBlock"}
           /\ p.type # "INV" =>
                 p \in [type : {"GET", "GETCompact", "SendBlock"}, from : Miners, to : Miners,
                        block : 0..(n - 1)]
BY DEF NetPackets

\* A longer table has the packets of the shorter one.
LEMMA NetPacketsGrow ==
    ASSUME NEW n \in Nat, NEW k \in Nat, n <= k PROVE NetPackets(n) \subseteq NetPackets(k)
<1>1. 0..(n - 1) \subseteq 0..(k - 1)
  OBVIOUS
<1> QED BY <1>1 DEF NetPackets

\* The fields of an event.
LEMMA QueueFields ==
    ASSUME NEW t, NEW b, NEW p
    PROVE  /\ GenBlock(t, b).type = "GenBlock" /\ GenBlock(t, b).timestamp = t /\ GenBlock(t, b).block = b
           /\ Constructed(t, p).type = "constructed" /\ Constructed(t, p).timestamp = t
           /\ Constructed(t, p).packet = p
           /\ Sending(t, p).type = "sending" /\ Sending(t, p).timestamp = t /\ Sending(t, p).packet = p
BY DEF GenBlock, Constructed, Sending

\* The type of an event tells its kind.
LEMMA QueueKinds ==
    ASSUME NEW e, NEW n, NEW t
    PROVE  /\ IsGenBlock(e, n, t) => e.type = "GenBlock" /\ e.block = n
           /\ IsPacketEvent(e, n, t) => e.type \in {"constructed", "sending"}
<1>1. IsGenBlock(e, n, t) => e.type = "GenBlock" /\ e.block = n
  BY QueueFields DEF IsGenBlock
<1>2. IsPacketEvent(e, n, t) => e.type \in {"constructed", "sending"}
  BY QueueFields DEF IsPacketEvent
<1> QED BY <1>1, <1>2

\* Results at t or later are not dropped.
LEMMA EnqueueAll ==
    ASSUME NEW Q, NEW N, NEW t, \A e \in N : e.timestamp >= t
    PROVE  Enqueue(Q, N, t) = Q \cup N
BY DEF Enqueue

\* Time passes, and blocks are added.
LEMMA LaterQueue ==
    ASSUME NEW n \in Nat, NEW t \in Nat, NEW Q, QueueOK(Q, n, t), NEW u \in Nat,
           \A e \in Q : u <= e.timestamp
    PROVE  QueueOK(Q, n, u)
<1>1. ASSUME NEW e \in Q PROVE IsGenBlock(e, n, u) \/ IsPacketEvent(e, n, u)
  BY DEF QueueOK, IsGenBlock, IsPacketEvent
<1> QED BY <1>1 DEF QueueOK

\* A packet leaves the queue.
LEMMA QueueLoses ==
    ASSUME NEW n, NEW t, NEW Q, QueueOK(Q, n, t), NEW e \in Q, e.type # "GenBlock"
    PROVE  QueueOK(Without(Q, e), n, t)
<1> DEFINE D == Without(Q, e)
<1>1. D = Q \ {e}
  BY DEF Without
<1> HIDE DEF D
<1>2. IsFiniteSet(D)
  BY <1>1, FS_Difference, FS_Singleton DEF QueueOK
<1>3. \A f \in D : IsGenBlock(f, n, t) \/ IsPacketEvent(f, n, t)
  BY <1>1 DEF QueueOK
<1>4. /\ \A f, g \in D : f.type = "GenBlock" /\ g.type = "GenBlock" => f = g
      /\ \E f \in D : f.type = "GenBlock"
  BY <1>1 DEF QueueOK
<1>5. \A f, g \in PacketEvents(D) : f.packet = g.packet => f = g
  BY <1>1 DEF QueueOK, PacketEvents
<1>6. QueueOK(D, n, t)
  BY <1>2, <1>3, <1>4, <1>5 DEF QueueOK
<1> QED BY <1>6 DEF D

\* Packets that were not in the queue come into it.
LEMMA QueueGains ==
    ASSUME NEW n, NEW t, NEW Q, QueueOK(Q, n, t), NEW N, Results(N, n, t), Apart(N, Q)
    PROVE  QueueOK(Q \cup N, n, t) /\ PacketsOf(Q \cup N) = PacketsOf(Q) \cup PacketsOf(N)
<1> DEFINE R == Q \cup N
<1>1. IsFiniteSet(N) /\ \A f \in N : IsPacketEvent(f, n, t) /\ f.type # "GenBlock"
  BY QueueKinds DEF Results
<1>2. PacketEvents(R) = PacketEvents(Q) \cup PacketEvents(N)
  BY DEF PacketEvents
<1>3. PacketsOf(R) = PacketsOf(Q) \cup PacketsOf(N)
  BY <1>2 DEF PacketsOf
<1>4. \A f, g \in PacketEvents(R) : f.packet = g.packet => f = g
  <2>1. \A f, g \in PacketEvents(Q) : f.packet = g.packet => f = g
    BY DEF QueueOK
  <2>2. \A f, g \in PacketEvents(N) : f.packet = g.packet => f = g
    BY DEF PacketEvents, Results
  <2>3. \A f \in PacketEvents(Q), g \in PacketEvents(N) : f.packet # g.packet
    BY DEF PacketsOf, Apart
  <2> QED BY <1>2, <2>1, <2>2, <2>3, Zenon
<1>5. IsFiniteSet(R)
  <2>1. IsFiniteSet(Q)
    BY DEF QueueOK
  <2> QED BY <1>1, <2>1, FS_Union
<1>6. \A f \in R : IsGenBlock(f, n, t) \/ IsPacketEvent(f, n, t)
  BY <1>1 DEF QueueOK
<1>7. /\ \A f, g \in R : f.type = "GenBlock" /\ g.type = "GenBlock" => f = g
      /\ \E f \in R : f.type = "GenBlock"
  BY <1>1 DEF QueueOK
<1> HIDE DEF R
<1>8. QueueOK(R, n, t)
  BY <1>4, <1>5, <1>6, <1>7 DEF QueueOK
<1> QED BY <1>3, <1>8 DEF R

\* A step of the oracle on the queue: an event leaves it, and others come,
\* about packets that were not in it; if it is that of a block that is to be
\* generated, so is one of them.
LEMMA QueueMoves ==
    ASSUME NEW n \in Nat, NEW k \in Nat, n <= k, NEW t,
           NEW Q, QueueOK(Q, n, t), NEW e \in Q,
           NEW N, Results(N, k, t), Apart(N, Without(Q, e)),
           NEW G, NextBlock(G, e, n, k, t)
    PROVE  /\ QueueOK(Moved(Q, e, N, G), k, t)
           /\ PacketsOf(Moved(Q, e, N, G)) = PacketsOf(Without(Q, e)) \cup PacketsOf(N)
<1> DEFINE D == Without(Q, e)
           R == Moved(Q, e, N, G)
<1>0. D = Q \ {e} /\ R = D \cup N \cup G /\ PacketsOf(N) \cap PacketsOf(D) = {}
  BY DEF Without, Moved, Apart
<1> SUFFICES QueueOK(R, k, t) /\ PacketsOf(R) = PacketsOf(D) \cup PacketsOf(N)
  OBVIOUS
<1> HIDE DEF D, R
<1>1. IsFiniteSet(N) /\ \A f \in N : IsPacketEvent(f, k, t) /\ f.type # "GenBlock"
  BY QueueKinds DEF Results
<1>2. \A f, g \in N : f.packet = g.packet => f = g
  BY DEF Results
<1>3. CASE e.type = "GenBlock"
  <2>1. PICK h : G = {h} /\ IsGenBlock(h, k, t)
    BY <1>3 DEF NextBlock
  <2>2. h.type = "GenBlock"
    BY <2>1, QueueKinds
  <2>3. \A f \in D : f.type # "GenBlock" /\ IsPacketEvent(f, n, t)
    BY <1>0, <1>3, QueueKinds DEF QueueOK
  <2>4. \A f \in D : IsPacketEvent(f, k, t)
    BY <2>3, NetPacketsGrow DEF IsPacketEvent
  <2> QED
    <3>1. IsFiniteSet(R)
      <4>1. IsFiniteSet(D) /\ IsFiniteSet(G)
        BY <1>0, <2>1, FS_Difference, FS_Singleton DEF QueueOK
      <4>2. IsFiniteSet(D \cup N)
        BY <1>1, <4>1, FS_Union
      <4>3. IsFiniteSet((D \cup N) \cup G)
        BY <4>1, <4>2, FS_Union
      <4> QED BY <1>0, <4>3
    <3>2. \A f \in R : IsGenBlock(f, k, t) \/ IsPacketEvent(f, k, t)
      BY <1>0, <1>1, <2>1, <2>4
    <3>3. \A f \in R : f.type = "GenBlock" => f = h
      BY <1>0, <1>1, <2>1, <2>3
    <3>4. h \in R
      BY <1>0, <2>1
    <3>5. PacketEvents(R) = PacketEvents(D) \cup PacketEvents(N)
      BY <1>0, <2>1, <2>2 DEF PacketEvents
    <3>6. PacketsOf(R) = PacketsOf(D) \cup PacketsOf(N)
      BY <3>5 DEF PacketsOf
    <3>7. \A f, g \in PacketEvents(R) : f.packet = g.packet => f = g
      <4>1. \A f, g \in PacketEvents(D) : f.packet = g.packet => f = g
        BY <1>0 DEF QueueOK, PacketEvents
      <4>2. \A f, g \in PacketEvents(N) : f.packet = g.packet => f = g
        BY <1>2 DEF PacketEvents
      <4>3. \A f \in PacketEvents(D), g \in PacketEvents(N) : f.packet # g.packet
        BY <1>0 DEF PacketsOf
      <4> QED BY <3>5, <4>1, <4>2, <4>3, ZenonT(30)
    <3>8. /\ \A f, g \in R : f.type = "GenBlock" /\ g.type = "GenBlock" => f = g
          /\ \E f \in R : f.type = "GenBlock"
      BY <2>2, <3>3, <3>4
    <3>9. QueueOK(R, k, t)
      BY <3>1, <3>2, <3>7, <3>8 DEF QueueOK
    <3> QED BY <3>6, <3>9
<1>4. CASE e.type # "GenBlock"
  <2>1. n = k /\ R = D \cup N
    BY <1>0, <1>4 DEF NextBlock
  <2>2. QueueOK(D, n, t) /\ Apart(N, D)
    BY <1>4, QueueLoses DEF D
  <2> QED BY <2>1, <2>2, QueueGains
<1> QED BY <1>3, <1>4

\* What the queue holds but for one event.
LEMMA PacketsWithout ==
    ASSUME NEW n, NEW t, NEW Q, QueueOK(Q, n, t), NEW e \in Q
    PROVE  /\ e.type = "GenBlock" => PacketsOf(Without(Q, e)) = PacketsOf(Q)
           /\ e.type # "GenBlock" => /\ PacketsOf(Without(Q, e)) = PacketsOf(Q) \ {e.packet}
                                /\ e.packet \in PacketsOf(Q)
<1>1. \A f, g \in PacketEvents(Q) : f.packet = g.packet => f = g
  BY DEF QueueOK
<1>2. ASSUME e.type = "GenBlock" PROVE PacketsOf(Without(Q, e)) = PacketsOf(Q)
  <2>1. PacketEvents(Without(Q, e)) = PacketEvents(Q)
    BY <1>2 DEF PacketEvents, Without
  <2> QED BY <2>1 DEF PacketsOf
<1>3. ASSUME e.type # "GenBlock"
      PROVE  PacketsOf(Without(Q, e)) = PacketsOf(Q) \ {e.packet} /\ e.packet \in PacketsOf(Q)
  <2>1. PacketEvents(Without(Q, e)) = PacketEvents(Q) \ {e} /\ e \in PacketEvents(Q)
    BY <1>3 DEF PacketEvents, Without
  <2>2. {f.packet : f \in PacketEvents(Q) \ {e}} = {f.packet : f \in PacketEvents(Q)} \ {e.packet}
    BY <1>1, <2>1
  <2> QED BY <2>1, <2>2 DEF PacketsOf
<1> QED BY <1>2, <1>3

-----------------------------------------------------------------------------
(***************************************************************************)
(* A link keeps every packet once, whatever it does with it.               *)
(***************************************************************************)
\* The packets that wait.
LEMMA InsideIs ==
    ASSUME NEW Q, NEW W
    PROVE  Inside(Q, W) = {p.packet : p \in Q} \cup {W[i].packet : i \in DOMAIN W}
BY DEF Inside, ToSet

\* A packet is pushed.
LEMMA OncePush ==
    ASSUME NEW Q, NEW W, Once(Q, W), NEW q, q.packet \notin Inside(Q, W)
    PROVE  Once(Q \cup {q}, W) /\ Inside(Q \cup {q}, W) = Inside(Q, W) \cup {q.packet}
<1>1. /\ \A p \in Q : p.packet # q.packet
      /\ \A i \in DOMAIN W : W[i].packet # q.packet
  BY InsideIs
<1>2. Once(Q \cup {q}, W)
  BY <1>1 DEF Once
<1>3. Inside(Q \cup {q}, W) = Inside(Q, W) \cup {q.packet}
  BY DEF Inside
<1> QED BY <1>2, <1>3

\* A packet comes to wait.
LEMMA OnceWait ==
    ASSUME NEW Q, NEW W \in Seq(Packet), Once(Q, W), NEW q \in Packet,
           q.packet \notin Inside(Q, W)
    PROVE  Once(Q, Append(W, q)) /\ Inside(Q, Append(W, q)) = Inside(Q, W) \cup {q.packet}
<1>1. /\ \A p \in Q : p.packet # q.packet
      /\ \A i \in DOMAIN W : W[i].packet # q.packet
  BY InsideIs
<1> DEFINE A == Append(W, q)
           l == Len(W) + 1
<1>4. /\ DOMAIN A = DOMAIN W \cup {l} /\ A[l] = q
      /\ \A i \in DOMAIN W : A[i] = W[i] /\ i # l
      /\ ToSet(A) = ToSet(W) \cup {q}
  <2>1. /\ DOMAIN A = DOMAIN W \cup {l} /\ A[l] = q /\ ToSet(A) = ToSet(W) \cup {q}
        /\ \A i \in DOMAIN W : A[i] = W[i] /\ i < Len(W) + 1 /\ i \in Nat
        /\ Len(W) \in Nat
    BY ValuesAppend
  <2> QED BY <2>1
<1> HIDE DEF A, l
<1>5. Once(Q, A)
  BY <1>1, <1>4 DEF Once
<1>6. Inside(Q, A) = Inside(Q, W) \cup {q.packet}
  BY <1>4 DEF Inside
<1> QED BY <1>5, <1>6 DEF A

\* A packet leaves the queue.
LEMMA OnceLeave ==
    ASSUME NEW Q, NEW W \in Seq(Packet), Once(Q, W), NEW p \in Q
    PROVE  /\ Once(Q \ {p}, W) /\ Inside(Q \ {p}, W) = Inside(Q, W) \ {p.packet}
           /\ p.packet \in Inside(Q, W)
<1>1. Once(Q \ {p}, W)
  BY DEF Once
<1>2. /\ \A r \in Q \ {p} : r.packet # p.packet
      /\ \A i \in DOMAIN W : W[i].packet # p.packet
  BY DEF Once
<1>3. Inside(Q, W) = {r.packet : r \in Q} \cup {W[i].packet : i \in DOMAIN W}
  BY InsideIs
<1>4. Inside(Q \ {p}, W) = {r.packet : r \in Q \ {p}} \cup {W[i].packet : i \in DOMAIN W}
  BY InsideIs
<1> QED BY <1>1, <1>2, <1>3, <1>4

\* The first packet that waits goes over to the queue.
LEMMA OncePull ==
    ASSUME NEW Q, NEW W \in Seq(Packet), W # <<>>, Once(Q, W), NEW q \in Packet,
           q.packet = Head(W).packet
    PROVE  Once(Q \cup {q}, Tail(W)) /\ Inside(Q \cup {q}, Tail(W)) = Inside(Q, W)
<1> DEFINE T == Tail(W)
<1>1. /\ Head(W) = W[1] /\ 1 \in DOMAIN W /\ ToSet(W) = ToSet(T) \cup {Head(W)}
      /\ \A i \in DOMAIN T : i \in Nat \ {0} /\ i + 1 \in DOMAIN W /\ T[i] = W[i + 1]
  BY ValuesTail
<1>2. \A i \in DOMAIN T : i + 1 # 1
  BY <1>1
<1> HIDE DEF T
<1>3. ASSUME NEW i \in DOMAIN T
      PROVE  T[i].packet # q.packet /\ \A p \in Q : p.packet # T[i].packet
  BY <1>1, <1>2 DEF Once
<1>4. ASSUME NEW i \in DOMAIN T, NEW j \in DOMAIN T, T[i].packet = T[j].packet
      PROVE  i = j
  <2>1. i + 1 = j + 1
    BY <1>1, <1>4 DEF Once
  <2> QED BY <1>1, <2>1
<1>5. \A p \in Q : p.packet # q.packet
  BY <1>1 DEF Once
<1>6. Once(Q \cup {q}, T)
  BY <1>3, <1>4, <1>5 DEF Once
<1>7. Inside(Q \cup {q}, T) = Inside(Q, W)
  BY <1>1 DEF Inside
<1> QED BY <1>6, <1>7 DEF T

\* What addEvent is given is a packet of a link.
LEMMA OutboundIs ==
    ASSUME NEW n \in Nat, n <= MaxBlock + 1, NEW p \in NetPackets(n)
    PROVE  Outbound(p) \in Packet /\ Outbound(p).packet = p
<1>1. p \in Names
  BY NetPacketsGrow, BlockAssumption DEF Names
<1>2. SizeOf(p) \in Nat
  BY SimulationAssumption DEF SizeOf
<1> QED BY <1>1, <1>2 DEF Outbound, Packet

\* A packet is handed over to the link of its sender, at a time no wakeup is
\* before.
LEMMA SenderAdds ==
    ASSUME NEW m, NEW n \in Nat, n <= MaxBlock + 1, NEW t \in Nat, NEW s, SenderOK(m, s, n, t),
           NEW u \in Nat, t <= u, NotLate(s, u),
           NEW p \in NetPackets(n), p.from = m, p \notin PacketsIn(s)
    PROVE  LET v == AddEvent(s, u, Outbound(p))
           IN  SenderOK(m, v, n, u) /\ Joined(v, s, p) /\ ~AddEventFails(s, u, Outbound(p))
<1> DEFINE q == Outbound(p)
           v == AddEvent(s, u, q)
<1>1. q \in Packet /\ q.packet = p
  BY OutboundIs
<1> HIDE DEF q
<1>2. /\ LinkInv(s) /\ LinkType(s) /\ NotFinished(s) /\ s \in NodeOutbound
      /\ s.waiting \in Seq(Packet) /\ s.lastWakeupT \in Nat /\ s.lastWakeupT <= t
      /\ Once(s.queue, s.waiting) /\ \A x \in PacketsIn(s) : x \in NetPackets(n) /\ x.from = m
  BY DEF SenderOK, LinkInv, LinkType, NodeOutbound
<1>3. s.lastWakeupT <= u
  BY <1>2
<1>4. s.queue # {} => u <= WakeupTime(s)
  BY <1>2, NotMissed DEF NotLate
<1>5. LinkInv(v) /\ v.lastWakeupT <= u /\ ~AddEventFails(s, u, q)
  BY <1>1, <1>2, <1>3, <1>4, AddKeeps
<1>6. /\ Once(v.queue, v.waiting) /\ PacketsIn(v) = PacketsIn(s) \cup {p}
      /\ NotLate(v, u)
  <2>1. CASE Fits(s, q)
    <3>1. v = PushEvent(s, u, q)
      BY <2>1 DEF AddEvent
    <3> HIDE DEF v
    <3>2. PICK r \in Packet, gain \in Nat :
             /\ Gained(s, u, gain) /\ v.accSize = s.accSize + gain
             /\ r.packet = q.packet /\ r.size = q.size /\ r.accSize = v.accSize + q.size
             /\ v.queue = s.queue \cup {r} /\ v.waiting = s.waiting
             /\ v.buffer = s.buffer + q.size
      <4>1. LinkType(s) /\ NotFinished(s) /\ s.lastWakeupT <= u /\ q \in Packet
            /\ (s.queue # {} => u <= WakeupTime(s)) /\ v = PushEvent(s, u, q)
        BY <1>1, <1>2, <1>3, <1>4, <3>1
      <4> QED BY <4>1, PushIs
    <3>3. Once(v.queue, v.waiting) /\ PacketsIn(v) = PacketsIn(s) \cup {p}
      <4>1. r.packet = p /\ r.packet \notin Inside(s.queue, s.waiting)
        BY <1>1, <3>2 DEF PacketsIn
      <4>2. Once(s.queue, s.waiting)
        BY <1>2
      <4>3. /\ Once(s.queue \cup {r}, s.waiting)
            /\ Inside(s.queue \cup {r}, s.waiting) = Inside(s.queue, s.waiting) \cup {r.packet}
        BY <4>1, <4>2, OncePush
      <4> QED BY <3>2, <4>1, <4>3 DEF PacketsIn
    <3>4. v.lastWakeupT = u
      <4>1. \A w \in s.wakeups : w.current
        BY <1>2 DEF LinkInv, WakeupExact
      <4> QED BY <1>1, <1>2, <1>3, <1>4, <3>1, <4>1, PushKeeps
    <3>5. ASSUME NEW w \in v.wakeups PROVE u <= w.timestamp
      <4>1. v.queue # {} /\ v.wakeups = {[timestamp |-> WakeupTime(v), current |-> TRUE]}
        BY <1>5, <3>5 DEF LinkInv, WakeupExact
      <4>2. WakeupTime(v) >= v.lastWakeupT /\ WakeupTime(v) \in Nat
        BY <1>5, <4>1, WakeupTimeIs DEF LinkInv
      <4>3. w.timestamp = WakeupTime(v)
        BY <4>1
      <4> QED BY <3>4, <4>2, <4>3
    <3> QED BY <3>3, <3>5 DEF NotLate
  <2>2. CASE ~ Fits(s, q)
    <3>1. v = [s EXCEPT !.waiting = Append(s.waiting, q)]
      BY <2>2 DEF AddEvent
    <3> DEFINE W == Append(s.waiting, q)
    <3>2. v = [s EXCEPT !.waiting = W]
      BY <3>1
    <3>3. Once(s.queue, W) /\ Inside(s.queue, W) = Inside(s.queue, s.waiting) \cup {p}
      <4>1. q.packet \notin Inside(s.queue, s.waiting)
        BY <1>1 DEF PacketsIn
      <4> QED BY <1>1, <1>2, <4>1, OnceWait
    <3> HIDE DEF W, v
    <3>4. v.queue = s.queue /\ v.waiting = W /\ v.wakeups = s.wakeups
      BY <1>2, <3>2 DEF NodeOutbound
    <3> QED BY <3>3, <3>4 DEF PacketsIn, NotLate
  <2> QED BY <2>1, <2>2
<1> HIDE DEF v
<1>7. SenderOK(m, v, n, u)
  BY <1>2, <1>5, <1>6 DEF SenderOK
<1>8. Joined(v, s, p)
  BY <1>6 DEF Joined
<1> QED BY <1>5, <1>7, <1>8 DEF v, q

\* The wakeup of a link finds a packet, finished up to the tolerance, and it
\* leaves the link.
LEMMA SenderPops ==
    ASSUME NEW m, NEW n, NEW t \in Nat, NEW s, SenderOK(m, s, n, t), NEW w \in s.wakeups
    PROVE  LET e == Woken(s, w)
               u == w.timestamp
           IN  /\ u \in Nat /\ t <= u /\ \E p \in s.queue : p \in Firsts(e)
               /\ \A p \in Firsts(e) :
                     /\ ~PopEventFails(e, u, p) /\ SenderOK(m, PopEvent(e, u, p), n, u)
                     /\ p.packet \in PacketsIn(s)
                     /\ PacketsIn(PopEvent(e, u, p)) = PacketsIn(s) \ {p.packet}
<1> DEFINE e == Woken(s, w)
           u == w.timestamp
<1>1. /\ s \in NodeOutbound /\ IsFiniteSet(s.queue) /\ NotFinished(s) /\ WakeupExact(s)
      /\ s.waiting \in Seq(Packet) /\ LinkType(s) /\ t <= u
      /\ Once(s.queue, s.waiting) /\ \A x \in PacketsIn(s) : x \in NetPackets(n) /\ x.from = m
  BY DEF SenderOK, NotLate, LinkInv, LinkType, NodeOutbound
<1>2. s.queue # {} /\ s.wakeups = {w} /\ u = WakeupTime(s)
  <2> DEFINE v == [timestamp |-> WakeupTime(s), current |-> TRUE]
  <2>1. s.queue # {} /\ s.wakeups = {v}
    BY <1>1 DEF WakeupExact
  <2>2. v.timestamp = WakeupTime(s)
    OBVIOUS
  <2> HIDE DEF v
  <2> QED BY <2>1, <2>2
<1>3. /\ e \in NodeOutbound /\ e.wakeups = {} /\ e.queue = s.queue
      /\ e.accSize = s.accSize /\ e.lastWakeupT = s.lastWakeupT /\ e.waiting = s.waiting
  BY <1>1, <1>2 DEF NodeOutbound, Woken
<1> HIDE DEF e, u
<1>4. WakeupTime(e) = u /\ LinkType(e) /\ NotFinished(e)
  BY <1>1, <1>2, <1>3 DEF WakeupTime, FirstAcc, Firsts, LinkType, NotFinished
<1>5. u \in Nat
  BY <1>1, <1>2, WakeupTimeIs
<1>6. \E p \in s.queue : p \in Firsts(e)
  <2>1. \E p \in e.queue : FirstAcc(e) = p.accSize
    BY <1>2, <1>3, <1>4, FirstExists
  <2>2. \A p \in e.queue : FirstAcc(e) <= p.accSize
    BY <1>2, <1>3, <1>4, FirstExists
  <2> QED BY <1>3, <2>1, <2>2 DEF Firsts
<1>7. ASSUME NEW p \in Firsts(e)
      PROVE  /\ ~PopEventFails(e, u, p) /\ SenderOK(m, PopEvent(e, u, p), n, u)
             /\ p.packet \in PacketsIn(s)
             /\ PacketsIn(PopEvent(e, u, p)) = PacketsIn(s) \ {p.packet}
  <2> DEFINE v == PopEvent(e, u, p)
  <2>1. LinkInv(v) /\ v.lastWakeupT = u /\ ~PopEventFails(e, u, p)
    BY <1>2, <1>3, <1>4, PopKeeps
  <2>2. p \in s.queue
    BY <1>3 DEF Firsts
  <2> DEFINE Q == s.queue \ {p}
  <2>3. \/ /\ s.waiting # <<>> /\ v.waiting = Tail(s.waiting)
           /\ \E q \in Packet : q.packet = Head(s.waiting).packet /\ v.queue = Q \cup {q}
        \/ v.waiting = s.waiting /\ v.queue = Q
    BY <1>2, <1>3, <1>4, PopIs
  <2>4. /\ Once(Q, s.waiting) /\ Inside(Q, s.waiting) = PacketsIn(s) \ {p.packet}
        /\ p.packet \in PacketsIn(s)
    BY <1>1, <2>2, OnceLeave DEF PacketsIn
  <2> HIDE DEF v, Q
  <2>5. Once(v.queue, v.waiting) /\ PacketsIn(v) = PacketsIn(s) \ {p.packet}
    <3>1. CASE v.waiting = s.waiting /\ v.queue = Q
      BY <2>4, <3>1 DEF PacketsIn
    <3>2. CASE /\ s.waiting # <<>> /\ v.waiting = Tail(s.waiting)
               /\ \E q \in Packet : q.packet = Head(s.waiting).packet /\ v.queue = Q \cup {q}
      <4>1. PICK q \in Packet : q.packet = Head(s.waiting).packet /\ v.queue = Q \cup {q}
        BY <3>2
      <4>2. /\ Once(Q \cup {q}, Tail(s.waiting))
            /\ Inside(Q \cup {q}, Tail(s.waiting)) = Inside(Q, s.waiting)
        BY <1>1, <2>4, <3>2, <4>1, OncePull
      <4> QED BY <2>4, <3>2, <4>1, <4>2 DEF PacketsIn
    <3> QED BY <2>3, <3>1, <3>2
  <2>6. ASSUME NEW x \in v.wakeups PROVE u <= x.timestamp
    <3>1. v.queue # {} /\ v.wakeups = {[timestamp |-> WakeupTime(v), current |-> TRUE]}
      BY <2>1, <2>6 DEF LinkInv, WakeupExact
    <3>2. WakeupTime(v) >= v.lastWakeupT
      BY <2>1, <3>1, WakeupTimeIs DEF LinkInv
    <3>3. x.timestamp = WakeupTime(v)
      BY <3>1
    <3> QED BY <2>1, <3>2, <3>3
  <2>7. SenderOK(m, v, n, u)
    BY <1>1, <1>5, <2>1, <2>5, <2>6 DEF SenderOK, NotLate
  <2> QED BY <2>1, <2>4, <2>5, <2>7 DEF v
<1> QED BY <1>1, <1>5, <1>6, <1>7 DEF e, u

-----------------------------------------------------------------------------
(***************************************************************************)
(* Time, and where the packets are.                                        *)
(***************************************************************************)
\* The packets under way.
LEMMA PacketsAre ==
    /\ QueuedPackets = PacketsOf(queue) /\ \A m : LinkPackets(m) = PacketsIn(nodes[m])
    /\ Packets = PacketsOf(queue) \cup UNION {PacketsIn(nodes[m]) : m \in Miners}
BY DEF Packets, QueuedPackets, LinkPackets, PacketsOf, PacketEvents, PacketsIn, Inside

LEMMA PacketsArePrimed ==
    /\ QueuedPackets' = PacketsOf(queue') /\ \A m : LinkPackets(m)' = PacketsIn(nodes'[m])
    /\ Packets' = PacketsOf(queue') \cup UNION {PacketsIn(nodes'[m]) : m \in Miners}
BY DEF Packets, QueuedPackets, LinkPackets, PacketsOf, PacketEvents, PacketsIn, Inside

LEMMA InPackets ==
    /\ \A p : p \in Packets <=> p \in PacketsOf(queue) \/ \E m \in Miners : p \in PacketsIn(nodes[m])
    /\ \A p : p \in Packets' <=> \/ p \in PacketsOf(queue')
                                 \/ \E m \in Miners : p \in PacketsIn(nodes'[m])
<1>1. \A p : p \in Packets <=> p \in PacketsOf(queue) \/ \E m \in Miners : p \in PacketsIn(nodes[m])
  BY PacketsAre
<1>2. \A p : p \in Packets' <=> \/ p \in PacketsOf(queue')
                               \/ \E m \in Miners : p \in PacketsIn(nodes'[m])
  BY PacketsArePrimed
<1> QED BY <1>1, <1>2

\* What is under way is of the right kind.
LEMMA PacketKinds ==
    ASSUME Places
    PROVE  Packets \subseteq NetPackets(Size)
<1>1. ASSUME NEW p \in PacketsOf(queue) PROVE p \in NetPackets(Size)
  <2>1. PICK e \in queue : e.type # "GenBlock" /\ p = e.packet
    BY DEF PacketsOf, PacketEvents
  <2>2. IsPacketEvent(e, Size, timestamp)
    BY <2>1, QueueKinds DEF Places, QueueOK
  <2> QED BY <2>1, <2>2 DEF IsPacketEvent
<1>2. \A m \in Miners : \A p \in PacketsIn(nodes[m]) : p \in NetPackets(Size)
  BY DEF Places, SenderOK
<1> QED BY <1>1, <1>2, PacketsAre

\* The oracle pops something: there always is a block to come.  Nothing that
\* is left is earlier, no wakeup either.
LEMMA DueIs ==
    ASSUME Tables, Places
    PROVE  /\ Due \in Nat /\ timestamp <= Due
           /\ \A e \in queue : Due <= e.timestamp
           /\ \A m \in Miners : NotLate(nodes[m], Due)
<1> DEFINE S == {e.timestamp : e \in queue}
                    \cup UNION {{w.timestamp : w \in nodes[m].wakeups} : m \in Miners}
<1>1. ASSUME NEW e \in queue PROVE e.timestamp \in Nat /\ timestamp <= e.timestamp
  BY DEF Places, QueueOK, IsGenBlock, IsPacketEvent
<1>2. ASSUME NEW m \in Miners, NEW w \in nodes[m].wakeups
      PROVE  w.timestamp \in Nat /\ timestamp <= w.timestamp
  <2>1. LinkInv(nodes[m]) /\ timestamp <= w.timestamp
    BY DEF Places, SenderOK, NotLate
  <2>2. w \in Wake
    BY <2>1 DEF LinkInv, LinkType, NodeOutbound
  <2> QED BY <2>1, <2>2 DEF Wake
<1>3. S \in SUBSET Nat /\ S # {} /\ \A x \in S : timestamp <= x
  <2>1. \E e \in queue : TRUE
    BY DEF Places, QueueOK
  <2> QED BY <1>1, <1>2, <2>1
<1>4. Due = CHOOSE x \in S : \A y \in S : x <= y
  BY DEF Due, Min
<1>5. /\ \A e \in queue : e.timestamp \in S
      /\ \A m \in Miners : \A w \in nodes[m].wakeups : w.timestamp \in S
  OBVIOUS
<1> HIDE DEF S
<1>6. \E x \in S : \A y \in S : x <= y
  BY <1>3, MinExists
<1>7. Due \in S /\ \A y \in S : Due <= y
  BY <1>4, <1>6
<1> QED BY <1>3, <1>5, <1>7 DEF NotLate

\* Time passes, and blocks get edges.
LEMMA SenderStays ==
    ASSUME NEW m, NEW s, NEW n \in Nat, NEW t \in Nat, SenderOK(m, s, n, t),
           NEW k \in Nat, n <= k, NEW u \in Nat, t <= u, NotLate(s, u)
    PROVE  SenderOK(m, s, k, u)
<1>1. s.lastWakeupT \in Nat /\ s.lastWakeupT <= t
  BY DEF SenderOK, LinkInv, LinkType, NodeOutbound
<1>2. s.lastWakeupT <= u
  BY <1>1
<1>3. NetPackets(n) \subseteq NetPackets(k)
  BY NetPacketsGrow
<1> QED BY <1>2, <1>3 DEF SenderOK

\* The oracle runs an event at the time it is due, and the links stay as they
\* are: the packet of the event is no longer under way, and those of its
\* results are.
LEMMA QueueStep ==
    ASSUME Tables, Places, NEW e \in queue, e.timestamp = Due, timestamp' = Due,
           nodes' = nodes, Size' \in Nat, Size <= Size',
           NEW N, Results(N, Size', Due), PacketsOf(N) \cap Packets = {},
           NEW G, NextBlock(G, e, Size, Size', Due),
           queue' = Moved(queue, e, N, G)
    PROVE  /\ Places'
           /\ e.type = "GenBlock" => Packets' = Packets \cup PacketsOf(N)
           /\ e.type # "GenBlock" =>
                 e.packet \in Packets /\ Packets' = (Packets \ {e.packet}) \cup PacketsOf(N)
<1> PICK n, k, D : n = Size /\ k = Size' /\ D = Without(queue, e)
  OBVIOUS
<1>1. /\ n \in Nat /\ k \in Nat /\ n <= k /\ timestamp \in Nat
      /\ Due \in Nat /\ timestamp <= Due /\ \A f \in queue : Due <= f.timestamp
      /\ \A m \in Miners : NotLate(nodes[m], Due)
  BY DueIs DEF Tables
<1>2. QueueOK(queue, n, timestamp)
  BY DEF Places
<1>3. QueueOK(queue, n, Due)
  BY <1>1, <1>2, LaterQueue
<1>4. /\ e.type = "GenBlock" => PacketsOf(D) = PacketsOf(queue)
      /\ e.type # "GenBlock" => /\ PacketsOf(D) = PacketsOf(queue) \ {e.packet}
                                /\ e.packet \in PacketsOf(queue)
  BY <1>2, PacketsWithout
<1>5. PacketsOf(D) \subseteq PacketsOf(queue) /\ PacketsOf(queue) \subseteq Packets
  BY <1>4, PacketsAre
<1>6. QueueOK(queue', k, Due) /\ PacketsOf(queue') = PacketsOf(D) \cup PacketsOf(N)
  <2>1. Apart(N, D)
    BY <1>5 DEF Apart
  <2> QED BY <1>1, <1>3, <2>1, QueueMoves
<1>7. ASSUME NEW m \in Miners
      PROVE  /\ SenderOK(m, nodes'[m], k, timestamp')
             /\ PacketsIn(nodes[m]) \cap PacketsOf(queue) = {}
             /\ PacketsIn(nodes'[m]) \cap PacketsOf(queue') = {}
  <2>1. SenderOK(m, nodes[m], n, timestamp) /\ PacketsIn(nodes[m]) \cap PacketsOf(queue) = {}
    BY DEF Places
  <2>2. SenderOK(m, nodes[m], k, Due)
    BY <1>1, <2>1, SenderStays
  <2>3. PacketsIn(nodes[m]) \subseteq Packets
    BY PacketsAre
  <2>4. PacketsIn(nodes[m]) \cap (PacketsOf(D) \cup PacketsOf(N)) = {}
    BY <1>5, <2>1, <2>3
  <2>5. nodes'[m] = nodes[m] /\ timestamp' = Due
    OBVIOUS
  <2> QED BY <1>6, <2>1, <2>2, <2>4, <2>5
<1>8. Places'
  <2>1. nodes' \in [Miners -> NodeOutbound]
    BY DEF Places
  <2>2. QueueOK(queue', k, timestamp')
    BY <1>6
  <2> QED BY <1>7, <2>1, <2>2 DEF Places
<1>9. PICK L : /\ L = UNION {PacketsIn(nodes[m]) : m \in Miners} /\ L \cap PacketsOf(queue) = {}
               /\ Packets = PacketsOf(queue) \cup L
               /\ Packets' = PacketsOf(D) \cup PacketsOf(N) \cup L
  <2> PICK L : L = UNION {PacketsIn(nodes[m]) : m \in Miners}
    OBVIOUS
  <2>1. L \cap PacketsOf(queue) = {}
    BY <1>7
  <2>2. UNION {PacketsIn(nodes'[m]) : m \in Miners} = L
    OBVIOUS
  <2>3. Packets = PacketsOf(queue) \cup L
    BY PacketsAre
  <2>4. Packets' = PacketsOf(queue') \cup L
    BY <2>2, PacketsArePrimed
  <2> QED BY <1>6, <2>1, <2>3, <2>4
<1>10. e.type = "GenBlock" => Packets' = Packets \cup PacketsOf(N)
  BY <1>4, <1>9
<1>11. e.type # "GenBlock" =>
         e.packet \in Packets /\ Packets' = (Packets \ {e.packet}) \cup PacketsOf(N)
  BY <1>4, <1>9
<1> QED BY <1>8, <1>10, <1>11

\* A packet goes over to the link of its sender.
LEMMA HandOverStep ==
    ASSUME Tables, Places, NEW e \in queue, e.type = "constructed", e.timestamp = Due,
           timestamp' = Due, Size' = Size,
           nodes' = [nodes EXCEPT ![e.packet.from] = AddEvent(@, e.timestamp, Outbound(e.packet))],
           queue' = queue \ {e}
    PROVE  Places' /\ Packets' = Packets
<1> PICK n, p, m : n = Size /\ p = e.packet /\ m = e.packet.from
  OBVIOUS
<1>1. /\ n \in Nat /\ n <= MaxBlock + 1 /\ timestamp \in Nat
      /\ Due \in Nat /\ timestamp <= Due /\ \A f \in queue : Due <= f.timestamp
      /\ \A k \in Miners : NotLate(nodes[k], Due)
  BY DueIs, BlockAssumption DEF Tables
<1>2. /\ QueueOK(queue, n, timestamp) /\ nodes \in [Miners -> NodeOutbound]
      /\ \A k \in Miners : /\ SenderOK(k, nodes[k], n, timestamp)
                           /\ PacketsIn(nodes[k]) \cap PacketsOf(queue) = {}
  BY DEF Places
<1>3. p \in NetPackets(n) /\ m \in Miners /\ p.from = m
  <2>1. IsPacketEvent(e, n, timestamp)
    BY <1>2, QueueKinds DEF QueueOK
  <2>2. p \in NetPackets(n)
    BY <2>1 DEF IsPacketEvent
  <2> QED BY <2>2, NetPacketFields
<1>4. QueueOK(queue, n, Due)
  BY <1>1, <1>2, LaterQueue
<1>5. QueueOK(Without(queue, e), n, Due)
  BY <1>4, QueueLoses
<1>6. PacketsOf(Without(queue, e)) = PacketsOf(queue) \ {p} /\ p \in PacketsOf(queue)
  BY <1>2, PacketsWithout
<1>7. queue' = Without(queue, e)
  BY DEF Without
<1>8. p \notin PacketsIn(nodes[m])
  BY <1>2, <1>3, <1>6
<1> PICK s, v : s = nodes[m] /\ v = AddEvent(s, Due, Outbound(p))
  OBVIOUS
<1>9. SenderOK(m, v, n, Due) /\ PacketsIn(v) = PacketsIn(nodes[m]) \cup {p}
  <2>1. SenderOK(m, s, n, timestamp) /\ NotLate(s, Due)
    BY <1>1, <1>2, <1>3
  <2>2. p \notin PacketsIn(s)
    BY <1>8
  <2>3. PICK u, y : u = Due /\ y = timestamp
    OBVIOUS
  <2>4. /\ n \in Nat /\ n <= MaxBlock + 1 /\ y \in Nat /\ u \in Nat /\ y <= u
        /\ SenderOK(m, s, n, y) /\ NotLate(s, u)
        /\ p \in NetPackets(n) /\ p.from = m /\ p \notin PacketsIn(s)
    BY <1>1, <1>3, <2>1, <2>2, <2>3
  <2>5. SenderOK(m, AddEvent(s, u, Outbound(p)), n, u)
    BY <2>4, SenderAdds
  <2>6. Joined(AddEvent(s, u, Outbound(p)), s, p)
    BY <2>4, SenderAdds
  <2> QED BY <2>3, <2>5, <2>6 DEF Joined
<1>10. v \in NodeOutbound
  BY <1>9 DEF SenderOK, LinkInv, LinkType
<1>11. /\ nodes' = [nodes EXCEPT ![m] = v] /\ nodes' \in [Miners -> NodeOutbound]
       /\ nodes'[m] = v /\ \A k \in Miners \ {m} : nodes'[k] = nodes[k]
  BY <1>2, <1>3, <1>10
<1>12. ASSUME NEW k \in Miners
       PROVE  /\ SenderOK(k, nodes'[k], n, Due)
              /\ PacketsIn(nodes'[k]) \cap PacketsOf(queue') = {}
              /\ PacketsIn(nodes'[k]) = PacketsIn(nodes[k]) \cup (IF k = m THEN {p} ELSE {})
  <2>1. CASE k = m
    <3>1. nodes'[k] = v /\ PacketsOf(queue') = PacketsOf(queue) \ {p}
      BY <1>6, <1>7, <1>11, <2>1
    <3>2. PacketsIn(nodes[m]) \cap PacketsOf(queue) = {}
      BY <1>2, <1>3
    <3>3. PacketsIn(v) \cap PacketsOf(queue') = {}
      BY <1>9, <3>1, <3>2
    <3> QED BY <1>9, <2>1, <3>1, <3>3
  <2>2. CASE k # m
    <3>1. SenderOK(k, nodes[k], n, Due)
      BY <1>1, <1>2, SenderStays
    <3> QED BY <1>2, <1>6, <1>7, <1>11, <2>2, <3>1
  <2> QED BY <2>1, <2>2
<1>13. Places'
  <2>1. QueueOK(queue', n, timestamp')
    BY <1>5, <1>7
  <2> QED BY <1>11, <1>12, <2>1 DEF Places
<1>14. Packets' = Packets
  <2>1. ASSUME NEW x
        PROVE  /\ x \in PacketsOf(queue') <=> x \in PacketsOf(queue) /\ x # p
               /\ \A k \in Miners : x \in PacketsIn(nodes'[k]) <=>
                                    x \in PacketsIn(nodes[k]) \/ (k = m /\ x = p)
    <3>1. x \in PacketsOf(queue') <=> x \in PacketsOf(queue) /\ x # p
      BY <1>6, <1>7
    <3>2. ASSUME NEW k \in Miners
          PROVE  x \in PacketsIn(nodes'[k]) <=> x \in PacketsIn(nodes[k]) \/ (k = m /\ x = p)
      <4>1. PacketsIn(nodes'[k]) = PacketsIn(nodes[k]) \cup (IF k = m THEN {p} ELSE {})
        BY <1>12
      <4>2. CASE k = m
        BY <4>1, <4>2
      <4>3. CASE k # m
        BY <4>1, <4>3
      <4> QED BY <4>2, <4>3
    <3> QED BY <3>1, <3>2
  <2>2. \A x : x \in Packets' <=> x \in Packets
    BY <1>3, <1>6, <2>1, InPackets, Zenon
  <2> QED BY <2>2
<1> QED BY <1>13, <1>14

\* A wakeup: a packet comes out of the link, and back into the queue.
LEMMA WakeupStep ==
    ASSUME Tables, Places, NEW m \in Miners, NEW w \in nodes[m].wakeups, w.timestamp = Due,
           timestamp' = Due, Size' = Size, RunWakeup(m, w)
    PROVE  Places' /\ Packets' = Packets
<1> PICK n, s : n = Size /\ s = Woken(nodes[m], w)
  OBVIOUS
<1>1. /\ n \in Nat /\ timestamp \in Nat
      /\ Due \in Nat /\ timestamp <= Due /\ \A f \in queue : Due <= f.timestamp
      /\ \A k \in Miners : NotLate(nodes[k], Due)
  BY DueIs DEF Tables
<1>2. /\ QueueOK(queue, n, timestamp) /\ nodes \in [Miners -> NodeOutbound]
      /\ \A k \in Miners : /\ SenderOK(k, nodes[k], n, timestamp)
                           /\ PacketsIn(nodes[k]) \cap PacketsOf(queue) = {}
  BY DEF Places
<1>3. PICK q \in Firsts(s), ping \in Pings :
         /\ nodes' = [nodes EXCEPT ![m] = PopEvent(s, Due, q)]
         /\ queue' = Enqueue(queue, {Delivered(Due, q.packet, ping)}, Due)
  BY DEF RunWakeup, Woken
<1> PICK v, p, f : v = PopEvent(s, Due, q) /\ p = q.packet /\ f = Delivered(Due, p, ping)
  OBVIOUS
<1>4. /\ SenderOK(m, v, n, Due) /\ p \in PacketsIn(nodes[m])
      /\ PacketsIn(v) = PacketsIn(nodes[m]) \ {p}
  <2>1. SenderOK(m, nodes[m], n, timestamp)
    BY <1>2
  <2> PICK z : z = nodes[m]
    OBVIOUS
  <2>2. SenderOK(m, z, n, timestamp) /\ w \in z.wakeups /\ s = Woken(z, w)
    BY <2>1
  <2>3. /\ SenderOK(m, PopEvent(s, Due, q), n, Due) /\ q.packet \in PacketsIn(z)
        /\ PacketsIn(PopEvent(s, Due, q)) = PacketsIn(z) \ {q.packet}
    BY <1>1, <1>3, <2>2, SenderPops
  <2> QED BY <2>3
<1>5. p \in NetPackets(n) /\ p \notin PacketsOf(queue)
  BY <1>2, <1>4 DEF SenderOK
<1>6. ping \in Nat /\ f = Sending(Due + ping, p)
  BY SimulationAssumption DEF Delivered
<1>7. IsPacketEvent(f, n, Due) /\ f.packet = p /\ f.timestamp >= Due /\ f.type # "GenBlock"
  BY <1>1, <1>5, <1>6, QueueFields DEF IsPacketEvent
<1>8. queue' = queue \cup {f}
  <2>1. \A x \in {f} : x.timestamp >= Due
    BY <1>7
  <2> QED BY <1>3, <2>1, EnqueueAll
<1>9. Results({f}, n, Due) /\ PacketsOf({f}) = {p} /\ Apart({f}, queue)
  <2>1. Results({f}, n, Due)
    BY <1>7, FS_Singleton DEF Results
  <2>2. PacketsOf({f}) = {p}
    BY <1>7 DEF PacketsOf, PacketEvents
  <2> QED BY <1>5, <2>1, <2>2 DEF Apart
<1>10. QueueOK(queue', n, Due) /\ PacketsOf(queue') = PacketsOf(queue) \cup {p}
  <2>1. QueueOK(queue, n, Due)
    BY <1>1, <1>2, LaterQueue
  <2> PICK N : N = {f}
    OBVIOUS
  <2>2. /\ QueueOK(queue \cup N, n, Due)
        /\ PacketsOf(queue \cup N) = PacketsOf(queue) \cup PacketsOf(N)
    BY <1>9, <2>1, QueueGains
  <2> QED BY <1>8, <1>9, <2>2
<1>11. v \in NodeOutbound
  BY <1>4 DEF SenderOK, LinkInv, LinkType
<1>12. /\ nodes' \in [Miners -> NodeOutbound]
       /\ nodes'[m] = v /\ \A k \in Miners \ {m} : nodes'[k] = nodes[k]
  BY <1>2, <1>3, <1>11
<1>13. \A k \in Miners \ {m} : p \notin PacketsIn(nodes[k])
  <2>1. p.from = m
    BY <1>2, <1>4 DEF SenderOK
  <2> QED BY <1>2, <2>1 DEF SenderOK
<1>14. ASSUME NEW k \in Miners
       PROVE  /\ SenderOK(k, nodes'[k], n, Due)
              /\ PacketsIn(nodes'[k]) \cap PacketsOf(queue') = {}
              /\ PacketsIn(nodes'[k]) = PacketsIn(nodes[k]) \ {p}
  <2>1. CASE k = m
    BY <1>2, <1>4, <1>10, <1>12, <2>1
  <2>2. CASE k # m
    <3>1. SenderOK(k, nodes[k], n, Due)
      BY <1>1, <1>2, SenderStays
    <3> QED BY <1>2, <1>10, <1>12, <1>13, <2>2, <3>1
  <2> QED BY <2>1, <2>2
<1>15. Places'
  <2>1. QueueOK(queue', n, timestamp')
    BY <1>10
  <2> QED BY <1>12, <1>14, <2>1 DEF Places
<1>16. Packets' = Packets
  <2>1. ASSUME NEW x
        PROVE  /\ x \in PacketsOf(queue') <=> x \in PacketsOf(queue) \/ x = p
               /\ \A k \in Miners : x \in PacketsIn(nodes'[k]) <=> x \in PacketsIn(nodes[k]) /\ x # p
    BY <1>10, <1>14
  <2>2. \A x : x \in Packets' <=> x \in Packets
    BY <1>4, <2>1, InPackets, Zenon
  <2> QED BY <2>2
<1> QED BY <1>15, <1>16
-----------------------------------------------------------------------------
(***************************************************************************)
(* What the network makes of a block and of a packet.                      *)
(***************************************************************************)
\* Announcements are of the block, by the miner, and new if the block was not
\* in its graph.
LEMMA NetAnnouncements ==
    ASSUME NEW m \in Miners, NEW n, NEW b \in 0..(n - 1)
    PROVE  /\ IsFiniteSet(Net!SendToAllPeer(m, b))
           /\ \A p \in Net!SendToAllPeer(m, b) :
                 p \in NetPackets(n) /\ p.type = "INV" /\ p.from = m /\ p.block = b
<1> DEFINE S(q) == {[type |-> "INV", from |-> m, to |-> q, block |-> b, slot |-> i] :
                       i \in 1..Peers[m][q]}
           T == {S(q) : q \in Miners}
<1>1. Net!SendToAllPeer(m, b) = IF m \in Attackers THEN {} ELSE UNION T
  BY DEF Net!SendToAllPeer
<1>2. ASSUME NEW q \in Miners PROVE Peers[m][q] \in 0..2
  BY NetworkAssumption DEF Net!PeerLists
<1>3. ASSUME NEW q \in Miners
      PROVE  /\ IsFiniteSet(S(q))
             /\ \A p \in S(q) : p \in NetPackets(n) /\ p.type = "INV" /\ p.from = m /\ p.block = b
  <2>1. \A i \in 1..Peers[m][q] : i \in 1..2
    BY <1>2
  <2>2. \A p \in S(q) : p \in NetPackets(n) /\ p.type = "INV" /\ p.from = m /\ p.block = b
    BY <2>1 DEF NetPackets
  <2>3. IsFiniteSet(1..Peers[m][q])
    <3> PICK c : c = Peers[m][q]
      OBVIOUS
    <3>1. 1 \in Int /\ c \in Int
      BY <1>2
    <3> HIDE DEF S, T
    <3>2. IsFiniteSet(1..c)
      BY <3>1, FS_Interval
    <3> QED BY <3>2
  <2> DEFINE I == 1..Peers[m][q]
             f == [i \in I |-> [type |-> "INV", from |-> m, to |-> q, block |-> b, slot |-> i]]
  <2>4. f \in Surjection(I, S(q))
    BY DEF Surjection
  <2> HIDE DEF f
  <2>5. IsFiniteSet(S(q))
    BY <2>3, <2>4, FS_Surjection
  <2> QED BY <2>2, <2>5
<1>4. IsFiniteSet(T)
  <2> DEFINE f == [q \in Miners |-> S(q)]
  <2> HIDE DEF S
  <2>1. f \in Surjection(Miners, T)
    BY DEF Surjection
  <2> HIDE DEF f, T
  <2> QED BY <2>1, NetworkAssumption, FS_Surjection
<1> HIDE DEF S
<1>5. IsFiniteSet(UNION T)
  <2>1. \A X \in T : IsFiniteSet(X)
    BY <1>3
  <2> HIDE DEF T
  <2> QED BY <1>4, <2>1, FS_UNION
<1>6. \A p \in UNION T : p \in NetPackets(n) /\ p.type = "INV" /\ p.from = m /\ p.block = b
  BY <1>3
<1> HIDE DEF T
<1>7. IsFiniteSet(Net!SendToAllPeer(m, b))
  BY <1>1, <1>5, FS_EmptySet
<1> QED BY <1>1, <1>6, <1>7

\* A broadcast: the announcements, and the block itself for those it marks.
LEMMA NetBroadcasts ==
    ASSUME NEW m \in Miners, NEW n, NEW b \in 0..(n - 1), NEW f
    PROVE  /\ IsFiniteSet(Net!BroadcastEvents(m, b))
           /\ \A p \in Net!BroadcastEvents(m, b) :
                 /\ p \in NetPackets(n) /\ p.block = b
                 /\ p.type = "INV" => p.from = m
                 /\ p.type # "INV" => /\ p = Net!SendBlock(m, p.to, b)
                                      /\ b \in Net!BroadcastInFlight(f, m, b)[p.to]
<1>1. Net!Expressed(m) \subseteq Miners
  BY NetworkAssumption DEF Net!Expressed
<1> DEFINE A == Net!SendToAllPeer(m, b)
           X == Net!Expressed(m)
           D == {Net!SendBlock(m, q, b) : q \in X}
<1>2. Net!BroadcastEvents(m, b) = A \cup D
  BY DEF Net!BroadcastEvents
<1>3. IsFiniteSet(A) /\ \A p \in A : p \in NetPackets(n) /\ p.type = "INV" /\ p.from = m /\ p.block = b
  BY NetAnnouncements
<1>4. ASSUME NEW q \in Net!Expressed(m)
      PROVE  /\ Net!SendBlock(m, q, b) \in NetPackets(n) /\ Net!SendBlock(m, q, b).to = q
             /\ Net!SendBlock(m, q, b).type = "SendBlock" /\ Net!SendBlock(m, q, b).block = b
             /\ b \in Net!BroadcastInFlight(f, m, b)[q]
  BY <1>1 DEF Net!SendBlock, Net!BroadcastInFlight, NetPackets
<1>5. IsFiniteSet(D)
  <2> DEFINE h == [q \in X |-> Net!SendBlock(m, q, b)]
  <2>1. h \in Surjection(X, D)
    BY DEF Surjection
  <2>2. IsFiniteSet(X)
    BY <1>1, NetworkAssumption, FS_Subset
  <2> HIDE DEF h, D, X
  <2> QED BY <2>1, <2>2, FS_Surjection
<1>6. \A p \in D : /\ p \in NetPackets(n) /\ p.block = b /\ p.type # "INV"
                   /\ p = Net!SendBlock(m, p.to, b) /\ b \in Net!BroadcastInFlight(f, m, b)[p.to]
  BY <1>4
<1> HIDE DEF A, D
<1>7. IsFiniteSet(Net!BroadcastEvents(m, b))
  BY <1>2, <1>3, <1>5, FS_Union
<1> QED BY <1>2, <1>3, <1>6, <1>7

\* The events of new packets.
LEMMA AnnounceIs ==
    ASSUME NEW k, NEW t \in Nat, NEW P, IsFiniteSet(P), P \subseteq NetPackets(k)
    PROVE  /\ Results(Announce(t, P), k, t) /\ PacketsOf(Announce(t, P)) = P
           /\ \A e \in Announce(t, P) : e.timestamp >= t
<1> DEFINE D(p) == IF p.type = "INV" THEN VerifyTime ELSE 1
           N == Announce(t, P)
<1>1. N = {Sending(t + D(p), p) : p \in P}
  BY DEF Announce
<1>2. \A p \in P : D(p) \in Nat
  BY SimulationAssumption
<1> HIDE DEF D
<1>3. ASSUME NEW p \in P
      PROVE  /\ IsPacketEvent(Sending(t + D(p), p), k, t) /\ Sending(t + D(p), p).packet = p
             /\ Sending(t + D(p), p).timestamp >= t /\ Sending(t + D(p), p).type # "GenBlock"
  <2>1. t + D(p) \in Nat /\ t <= t + D(p)
    BY <1>2
  <2> QED BY <2>1, QueueFields DEF IsPacketEvent
<1>4. IsFiniteSet(N)
  <2> DEFINE h == [p \in P |-> Sending(t + D(p), p)]
  <2>1. h \in Surjection(P, N)
    BY <1>1 DEF Surjection
  <2> HIDE DEF h, N
  <2> QED BY <2>1, FS_Surjection
<1> HIDE DEF N
<1>5. /\ \A e \in N : IsPacketEvent(e, k, t) /\ e.timestamp >= t
      /\ \A e, f \in N : e.packet = f.packet => e = f
  BY <1>1, <1>3
<1>6. PacketsOf(N) = P
  <2>1. PacketEvents(N) = N
    BY <1>1, <1>3 DEF PacketEvents
  <2>2. {e.packet : e \in N} = P
    BY <1>1, <1>3
  <2> QED BY <2>1, <2>2 DEF PacketsOf
<1>7. Results(N, k, t)
  BY <1>4, <1>5 DEF Results
<1> QED BY <1>5, <1>6, <1>7 DEF N

\* The event of one packet.
LEMMA OneResult ==
    ASSUME NEW k, NEW t \in Nat, NEW f, IsPacketEvent(f, k, t)
    PROVE  /\ Results({f}, k, t) /\ PacketsOf({f}) = {f.packet}
           /\ \A e \in {f} : e.timestamp >= t
<1>1. f.timestamp >= t /\ f.type # "GenBlock"
  BY QueueKinds DEF IsPacketEvent
<1>2. Results({f}, k, t)
  BY FS_Singleton DEF Results
<1>3. PacketsOf({f}) = {f.packet}
  BY <1>1 DEF PacketsOf, PacketEvents
<1> QED BY <1>1, <1>2, <1>3

\* None.
LEMMA NoResult ==
    ASSUME NEW k, NEW t PROVE Results({}, k, t) /\ PacketsOf({}) = {}
BY FS_EmptySet DEF Results, PacketsOf, PacketEvents

\* The packets D stay, those of N come, graphs and what is in flight grow.
Grown(M, L, F, H) == \A m \in Miners : M[m].graph.ledger \subseteq L[m].graph.ledger
                                       /\ F[m] \subseteq H[m]

NoDouble(D, N) == \A p \in D, q \in N : p.type # "INV" /\ q.type # "INV" =>
                                        ~ (p.to = q.to /\ p.block = q.block)

LEMMA OriginsGrow ==
    ASSUME NEW n, NEW P, P \subseteq NetPackets(n), NEW M, NEW F, OriginsOK(P, M, F),
           NEW L, NEW H, Grown(M, L, F, H), NEW D, D \subseteq P,
           NEW N, OriginsOK(N, L, H), NoDouble(D, N)
    PROVE  OriginsOK(D \cup N, L, H)
<1>1. \A p \in P : p.from \in Miners /\ p.to \in Miners
  BY NetPacketFields
<1>2. ASSUME NEW p \in D
      PROVE  /\ p.type = "INV" => p.block \in L[p.from].graph.ledger
             /\ p.type # "INV" => p.block \in H[p.to]
  BY <1>1 DEF OriginsOK, Grown
<1>3. \A p \in N : /\ p.type = "INV" => p.block \in L[p.from].graph.ledger
                   /\ p.type # "INV" => p.block \in H[p.to]
  BY DEF OriginsOK
<1>4. ASSUME NEW p \in D \cup N, NEW q \in D \cup N,
             p.type # "INV", q.type # "INV", p.to = q.to, p.block = q.block
      PROVE  p = q
  <2>1. CASE p \in D /\ q \in D
    BY <1>4, <2>1 DEF OriginsOK
  <2>2. CASE p \in N /\ q \in N
    BY <1>4, <2>2 DEF OriginsOK
  <2>3. CASE p \in D /\ q \in N
    BY <1>4, <2>3 DEF NoDouble
  <2>4. CASE p \in N /\ q \in D
    BY <1>4, <2>4 DEF NoDouble
  <2> QED BY <2>1, <2>2, <2>3, <2>4
<1> QED BY <1>2, <1>3, <1>4 DEF OriginsOK

-----------------------------------------------------------------------------
(***************************************************************************)
(* The definitions of HonestMiner.tla that BitcoinNetwork.tla extends, and *)
(* that Net has under names of its own, are those of this module.          *)
(***************************************************************************)
\* The table and the graph that the network starts with are those of this module.
LEMMA SameGenesis ==
    /\ Net!GenesisTable = GenesisTable /\ Net!NewLocalGraph = NewLocalGraph
    /\ Net!Genesis = Genesis
BY DEF Net!GenesisTable, GenesisTable, Net!BlankBlock, BlankBlock, Net!None, None,
   Net!Genesis, Genesis, Net!BlockIds, BlockIds, Net!NewLocalGraph, NewLocalGraph

\* maxChild is chosen in the same way.
LEMMA SameMaxChild ==
    ASSUME NEW B, NEW g, NEW b PROVE Net!MaxChildOf(B, g, b) = MaxChildOf(B, g, b)
BY DEF Net!MaxChildOf, MaxChildOf, Net!Children, Children, Net!GetWeight, GetWeight,
   Net!Beats, Beats, Net!IsPivot, IsPivot, Net!None, None

\* Following maxChild visits the same blocks.
LEMMA SameChain ==
    ASSUME NEW B, NEW g, NEW b PROVE Net!MaxChildChain(B, g, b) = MaxChildChain(B, g, b)
BY DEF Net!MaxChildChain, MaxChildChain, Net!None, None

\* Weights are added alike.
LEMMA SameWeight ==
    ASSUME NEW g, NEW S, NEW n PROVE Net!AddWeight(g, S, n) = AddWeight(g, S, n)
BY DEF Net!AddWeight, AddWeight, Net!BlockIds, BlockIds

\* insert returns the same.
LEMMA SameResult ==
    ASSUME NEW B, NEW g, NEW b PROVE Net!InsertResult(B, g, b) = InsertResult(B, g, b)
BY DEF Net!InsertResult, InsertResult, Net!SeenAllAncestors, SeenAllAncestors,
   Net!Parents, Parents, Net!IsGenesis, IsGenesis, Net!None, None

\* The climb to the pivot visits the same blocks and ends at the same one.
LEMMA SamePoint ==
    ASSUME NEW B, NEW g, NEW p
    PROVE  /\ Net!PivotPoint(B, g, p) = PivotPoint(B, g, p)
           /\ Net!Climbed(B, g, p) = Climbed(B, g, p)
BY DEF Net!PivotPoint, PivotPoint, Net!Climbed, Climbed, Net!IsPivot, IsPivot

\* The entry of a new block is the same.
LEMMA SameEntry ==
    ASSUME NEW B, NEW g, NEW b PROVE Net!AddEntry(B, g, b) = AddEntry(B, g, b)
BY DEF Net!AddEntry, AddEntry, Net!Parents, Parents, Net!IsGenesis, IsGenesis, Net!None, None

\* The branch of a new block gets the same weights and maxChild.
LEMMA SameCredit ==
    ASSUME NEW B, NEW g, NEW S PROVE Net!CreditBranch(B, g, S) = CreditBranch(B, g, S)
<1> DEFINE h == AddWeight(g, S, 1)
<1>1. Net!AddWeight(g, S, 1) = h
  BY SameWeight
<1> HIDE DEF h
<1>2. [x \in BlockIds |-> IF x \in S THEN Net!MaxChildOf(B, h, x) ELSE h.maxChild[x]]
        = [x \in BlockIds |-> IF x \in S THEN MaxChildOf(B, h, x) ELSE h.maxChild[x]]
  BY SameMaxChild
<1>3. CreditBranch(B, g, S) = [h EXCEPT !.maxChild = [x \in BlockIds |-> IF x \in S THEN MaxChildOf(B, h, x) ELSE h.maxChild[x]]]
  BY DEF CreditBranch, h
<1>4. Net!CreditBranch(B, g, S) = [h EXCEPT !.maxChild = [x \in BlockIds |-> IF x \in S THEN Net!MaxChildOf(B, h, x) ELSE h.maxChild[x]]]
  BY <1>1 DEF Net!CreditBranch, Net!BlockIds, BlockIds
<1> QED BY <1>2, <1>3, <1>4

\* The pivot moves alike.
LEMMA SameMove ==
    ASSUME NEW B, NEW g, NEW p, NEW o, NEW n
    PROVE  Net!MovePivot(B, g, p, o, n) = MovePivot(B, g, p, o, n)
<1>1. /\ Net!MaxChildChain(B, g, o) = MaxChildChain(B, g, o)
      /\ Net!MaxChildChain(B, g, n) = MaxChildChain(B, g, n)
  BY SameChain
<1> PICK C, D, v, w : /\ C = MaxChildChain(B, g, o) /\ D = MaxChildChain(B, g, n)
                      /\ v = AddWeight(g, C, g.totalWeight) /\ w = AddWeight(v, D, -g.totalWeight)
  OBVIOUS
<1>2. Net!AddWeight(g, C, g.totalWeight) = v /\ Net!AddWeight(v, D, -g.totalWeight) = w
  BY SameWeight
<1>3. Net!MovePivot(B, g, p, o, n)
        = [w EXCEPT !.maxChild[p] = n, !.pivotTip = CHOOSE t \in D : g.maxChild[t] = None]
  BY <1>1, <1>2 DEF Net!MovePivot, Net!None, None
<1>4. MovePivot(B, g, p, o, n)
        = [w EXCEPT !.maxChild[p] = n, !.pivotTip = CHOOSE t \in D : g.maxChild[t] = None]
  BY DEF MovePivot
<1> QED BY <1>3, <1>4

\* And in the same cases.
LEMMA SameSwitch ==
    ASSUME NEW B, NEW g, NEW p PROVE Net!SwitchBranch(B, g, p) = SwitchBranch(B, g, p)
<1>1. Net!LowerOldBranch(B, g, g.maxChild[p]) = LowerOldBranch(B, g, g.maxChild[p])
  BY SameChain, SameWeight DEF Net!LowerOldBranch, LowerOldBranch
<1> QED BY <1>1, SameMaxChild, SameMove DEF Net!SwitchBranch, SwitchBranch

\* So insert leaves the same graph.
LEMMA SameInsert ==
    ASSUME NEW B, NEW g, NEW b PROVE Net!Insert(B, g, b) = Insert(B, g, b)
<1>1. Net!InsertNew(B, g, b) = InsertNew(B, g, b)
  BY SameEntry, SamePoint, SameCredit, SameSwitch
     DEF Net!InsertNew, InsertNew, Net!IsGenesis, IsGenesis, Net!None, None
<1> QED BY <1>1, SameResult DEF Net!Insert, Insert

\* Lists lose the same element, and have the same elements.
LEMMA SameLists ==
    ASSUME NEW s, NEW i PROVE Net!RemoveAt(s, i) = RemoveAt(s, i) /\ Net!ToSet(s) = ToSet(s)
BY DEF Net!RemoveAt, RemoveAt, Net!ToSet, ToSet

\* A scan of the cache does the same.
LEMMA SameScan ==
    ASSUME NEW B, NEW s PROVE Net!ScanCache(B, s) = ScanCache(B, s)
<1> DEFINE H == {i \in DOMAIN s.cache : InsertResult(B, s.graph, s.cache[i]) # "Fail"}
           N == {i \in DOMAIN s.cache : Net!InsertResult(B, s.graph, s.cache[i]) # "Fail"}
           last(X) == CHOOSE j \in X : \A k \in X : j <= k
           A(X, j) == IF X = {} THEN [s EXCEPT !.updated = FALSE]
                      ELSE IF Net!InsertResult(B, s.graph, s.cache[j]) = "Existing"
                      THEN [s EXCEPT !.cache = Net!RemoveAt(s.cache, j), !.updated = FALSE]
                      ELSE Net!InsertCached(B, s, j)
           E(X, j) == IF X = {} THEN [s EXCEPT !.updated = FALSE]
                      ELSE IF InsertResult(B, s.graph, s.cache[j]) = "Existing"
                      THEN [s EXCEPT !.cache = RemoveAt(s.cache, j), !.updated = FALSE]
                      ELSE InsertCached(B, s, j)
<1>1. N = H
  BY SameResult
<1>2. Net!ScanCache(B, s) = A(N, last(N))
  BY DEF Net!ScanCache
<1>3. ScanCache(B, s) = E(H, last(H))
  BY DEF ScanCache
<1>4. A(H, last(H)) = E(H, last(H))
  <2> PICK X, j : X = H /\ j = last(H)
    OBVIOUS
  <2> HIDE DEF H, last
  <2>1. Net!InsertCached(B, s, j) = InsertCached(B, s, j)
    BY SameInsert, SameLists DEF Net!InsertCached, InsertCached
  <2>2. A(X, j) = E(X, j)
    BY <2>1, SameResult, SameLists
  <2> HIDE DEF A, E
  <2> QED BY <2>2
<1> HIDE DEF H, N, last, A, E
<1> QED BY <1>1, <1>2, <1>3, <1>4, Zenon

\* And so do all the scans one arrival leads to.
LEMMA SameCache ==
    ASSUME NEW B, NEW s PROVE Net!InsertCache(B, s) = InsertCache(B, s)
<1> DEFINE P(f) == f = [k \in Nat |-> IF k = 0 THEN s
                                      ELSE IF f[k - 1].updated THEN Net!ScanCache(B, f[k - 1])
                                      ELSE f[k - 1]]
           Q(f) == f = [k \in Nat |-> IF k = 0 THEN s
                                      ELSE IF f[k - 1].updated THEN ScanCache(B, f[k - 1])
                                      ELSE f[k - 1]]
<1>1. \A f : P(f) <=> Q(f)
  BY SameScan
<1>2. /\ Net!InsertCache(B, s) = (CHOOSE f : P(f))[Len(s.cache) + 1]
      /\ InsertCache(B, s) = (CHOOSE f : Q(f))[Len(s.cache) + 1]
  BY DEF Net!InsertCache, InsertCache
<1> HIDE DEF P, Q
<1>3. (CHOOSE f : P(f)) = (CHOOSE f : Q(f))
  BY <1>1
<1> QED BY <1>2, <1>3

\* So do the handlers of a block that arrives and of one that is generated.
LEMMA SameHandlers ==
    ASSUME NEW B, NEW hm, NEW b
    PROVE  /\ Net!ReceiveBlock(B, hm, b) = ReceiveBlock(B, hm, b)
           /\ Net!GenerateBlock(B, hm, b) = GenerateBlock(B, hm, b)
<1>1. Net!Arrive(B, hm, b) = Arrive(B, hm, b) /\ Net!Postpone(hm, b) = Postpone(hm, b)
  BY SameInsert, SameCache DEF Net!Arrive, Arrive, Net!Postpone, Postpone
<1>2. Net!ReceiveBlock(B, hm, b) = ReceiveBlock(B, hm, b)
  BY <1>1, SameResult DEF Net!ReceiveBlock, ReceiveBlock
<1>3. Net!GenerateBlock(B, hm, b) = GenerateBlock(B, hm, b)
  BY SameInsert DEF Net!GenerateBlock, GenerateBlock
<1> QED BY <1>2, <1>3

\* A block is mined with the same fields and gets the same edges.
LEMMA SameBlocks ==
    ASSUME NEW B, NEW g, NEW b, NEW m, NEW r
    PROVE  /\ Net!MineBlock(B, b, m, r) = MineBlock(B, b, m, r)
           /\ Net!FillNewBlock(B, g, b) = FillNewBlock(B, g, b)
BY DEF Net!MineBlock, MineBlock, Net!FillNewBlock, FillNewBlock, Net!LinkBlock, LinkBlock,
   Net!PastOf, PastOf

-----------------------------------------------------------------------------
(***************************************************************************)
(* The table as BitcoinNetwork.tla has it, without the block that is still *)
(* being mined.                                                            *)
(***************************************************************************)
\* The blocks with edges, and blank ones.
Shown(B, n) == [b \in BlockIds |-> IF b < n THEN B[b] ELSE GenesisTable[b]]

\* It is a table, with the same blocks.
LEMMA ShownTable ==
    ASSUME NEW B, NEW n, TableOK(B, n)
    PROVE  TableOK(Shown(B, n), n) /\ Agree(B, Shown(B, n), n) /\ Shown(B, n) \in [BlockIds -> Block]
<1> DEFINE S == Shown(B, n)
<1>1. /\ B \in [BlockIds -> Block] /\ n \in 1..(MaxBlock + 1) /\ EdgesOK(B, n) /\ ChainsOK(B, n)
      /\ n \in Nat /\ n >= 1 /\ 0..(n - 1) \subseteq BlockIds /\ MaxBlock \in Nat
  BY TableFacts, BlockAssumption DEF TableOK
<1>2. GenesisTable \in [BlockIds -> Block]
  BY GenesisTableOK DEF TableOK
<1>3. S \in [BlockIds -> Block]
  BY <1>1, <1>2 DEF Shown
<1>4. \A b \in 0..(n - 1) : S[b] = B[b]
  BY <1>1 DEF Shown
<1>5. \A b \in n..MaxBlock : S[b].parent = None /\ S[b].references = {}
  <2>1. \A b \in n..MaxBlock : b \in BlockIds /\ ~ (b < n)
    BY <1>1 DEF BlockIds
  <2> QED BY <2>1 DEF Shown, GenesisTable, BlankBlock
<1> HIDE DEF S
<1>6. EdgesOK(S, n)
  <2>1. 0 \in 0..(n - 1) /\ \A b \in 1..(n - 1) : b \in 0..(n - 1) /\ 0..(b - 1) \subseteq 0..(n - 1)
    BY <1>1
  <2>2. S[Genesis].parent = None /\ S[Genesis].references = {} /\ S[Genesis].chain = {Genesis}
    BY <1>1, <1>4, <2>1 DEF EdgesOK, Genesis, None
  <2>3. \A b \in 1..(n - 1) : /\ S[b].parent \in 0..(b - 1)
                               /\ S[b].references \subseteq 0..(b - 1)
                               /\ S[b].chain = S[S[b].parent].chain \cup {b}
    BY <1>1, <1>4, <2>1 DEF EdgesOK
  <2> QED BY <1>5, <2>2, <2>3 DEF EdgesOK, Genesis, None
<1>7. ChainsOK(S, n)
  <2> SUFFICES ASSUME NEW b \in 0..(n - 1)
               PROVE  /\ b \in S[b].chain /\ Genesis \in S[b].chain /\ S[b].chain \subseteq 0..b
                      /\ \A a \in S[b].chain : S[a].chain \subseteq S[b].chain
                      /\ \A a, c \in S[b].chain : a \in S[c].chain \/ c \in S[a].chain
                      /\ \A a \in S[b].chain \ {b} :
                            \E c \in S[b].chain : c # Genesis /\ S[c].parent = a
    BY DEF ChainsOK
  <2>1. S[b].chain = B[b].chain /\ B[b].chain \subseteq 0..b
    BY <1>1, <1>4 DEF ChainsOK
  <2>2. 0..b \subseteq 0..(n - 1)
    BY <1>1
  <2>3. \A a \in B[b].chain : S[a] = B[a]
    BY <1>4, <2>1, <2>2
  <2> QED BY <1>1, <2>1, <2>3 DEF ChainsOK
<1> QED BY <1>1, <1>3, <1>4, <1>6, <1>7 DEF TableOK, Agree, S

\* The edges of a block are the same on two tables that agree on the blocks
\* before it, on its miner and its residual.
LEMMA LinkAgrees ==
    ASSUME NEW A \in [BlockIds -> Block], NEW E \in [BlockIds -> Block], NEW n \in BlockIds,
           Agree(A, E, n), A[n].minerID = E[n].minerID, A[n].residual = E[n].residual,
           NEW p \in 0..(n - 1), NEW refs \in SUBSET (0..(n - 1)), NEW anc
    PROVE  /\ LinkBlock(A, n, p, refs, anc)[n] = LinkBlock(E, n, p, refs, anc)[n]
           /\ \A b \in BlockIds \ {n} : LinkBlock(A, n, p, refs, anc)[b] = A[b]
<1> DEFINE e(T, past, height, chain) ==
              [T[n] EXCEPT !.parent = p, !.references = refs, !.height = height,
                           !.ancestorNum = anc, !.chain = chain, !.past = past]
<1>1. A[p] = E[p] /\ \A x \in refs : A[x] = E[x]
  BY DEF Agree
<1>2. PastOf(A, p, refs) = PastOf(E, p, refs)
  BY <1>1 DEF PastOf
<1> PICK past, height, chain : /\ past = PastOf(A, p, refs) /\ height = A[p].height + 1
                               /\ chain = A[p].chain \cup {n}
  OBVIOUS
<1>3. /\ LinkBlock(A, n, p, refs, anc) = [A EXCEPT ![n] = e(A, past, height, chain)]
      /\ LinkBlock(E, n, p, refs, anc) = [E EXCEPT ![n] = e(E, past, height, chain)]
  BY <1>1, <1>2 DEF LinkBlock
<1>4. e(A, past, height, chain) = e(E, past, height, chain)
  <2>1. A[n] \in Block /\ E[n] \in Block
    OBVIOUS
  <2> PICK x, y : x = A[n] /\ y = E[n]
    OBVIOUS
  <2>2. x \in Block /\ y \in Block /\ x.minerID = y.minerID /\ x.residual = y.residual
    BY <2>1
  <2>3. [x EXCEPT !.parent = p, !.references = refs, !.height = height,
                  !.ancestorNum = anc, !.chain = chain, !.past = past]
          = [y EXCEPT !.parent = p, !.references = refs, !.height = height,
                      !.ancestorNum = anc, !.chain = chain, !.past = past]
    BY <2>2 DEF Block
  <2> QED BY <2>3
<1> HIDE DEF e
<1> QED BY <1>3, <1>4

\* GenerateBlock does to the table that is shown what it does to the original,
\* and to the graph as well.
LEMMA ShownGenerates ==
    ASSUME NEW B, NEW n, TableOK(B, n), n < MaxBlock, B[n].minerID \in Miners,
           NEW g, GraphOK(B, n, g), Genesis \in g.ledger,
           NEW F, F = FillNewBlock(B, g, n),
           NEW m2 \in Miners, NEW r2 \in 0..MaxResidual, NEW C, C = MineBlock(F, n + 1, m2, r2),
           NEW D, D = FillNewBlock(MineBlock(Shown(B, n), n, B[n].minerID, B[n].residual), g, n)
    PROVE  Shown(C, n + 1) = D /\ Insert(D, g, n) = Insert(F, g, n)
<1> PICK m, r, S, A, k : /\ m = B[n].minerID /\ r = B[n].residual /\ S = Shown(B, n)
                         /\ A = MineBlock(S, n, m, r) /\ k = n + 1
  OBVIOUS
<1>1. /\ B \in [BlockIds -> Block] /\ n \in Nat /\ n >= 1 /\ MaxBlock \in Nat /\ n \in BlockIds
      /\ k \in Nat /\ k <= MaxBlock /\ 0..(n - 1) \subseteq BlockIds
  BY TableFacts, BlockAssumption DEF TableOK, BlockIds
<1>2. TableOK(S, n) /\ Agree(B, S, n) /\ S \in [BlockIds -> Block]
  BY ShownTable
<1>3. r \in 0..MaxResidual /\ m \in Miners
  BY <1>1 DEF Block
<1>4. GraphOK(S, n, g)
  BY <1>2, AgreeKeepsGraph
<1>5. TableOK(D, k)
  BY <1>1, <1>2, <1>3, <1>4, OwnBlockKeepsGraph
<1>6. TableOK(F, k) /\ GraphOK(F, k, g) /\ Agree(B, F, n)
  <2>1. MineBlock(B, n, m, r) = B
    BY <1>1, <1>3, MineKeepsTable
  <2>2. F = FillNewBlock(MineBlock(B, n, m, r), g, n)
    BY <2>1
  <2> QED BY <1>1, <1>3, <2>2, OwnBlockKeepsGraph
<1>7. /\ A \in [BlockIds -> Block] /\ A[n].minerID = m /\ A[n].residual = r
      /\ \A b \in BlockIds \ {n} : A[b] = S[b]
  <2>1. S[n] \in Block
    BY <1>1, <1>2
  <2> PICK x : x = S[n]
    OBVIOUS
  <2> PICK y : y = [x EXCEPT !.minerID = m, !.residual = r]
    OBVIOUS
  <2>2. y \in Block /\ y.minerID = m /\ y.residual = r
    BY <1>3, <2>1 DEF Block
  <2>3. A = [S EXCEPT ![n] = y]
    BY DEF MineBlock
  <2> QED BY <1>1, <1>2, <2>2, <2>3
<1>8. Agree(B, A, n)
  BY <1>1, <1>2, <1>7 DEF Agree
<1>9. D[n] = F[n] /\ \A b \in BlockIds \ {n} : D[b] = S[b]
  <2> PICK p, refs, anc : p = g.pivotTip /\ refs = g.tips \ {g.pivotTip} /\ anc = g.totalWeight
    OBVIOUS
  <2>1. p \in 0..(n - 1) /\ refs \in SUBSET (0..(n - 1))
    BY OwnEdges
  <2>2. F = LinkBlock(B, n, p, refs, anc) /\ D = LinkBlock(A, n, p, refs, anc)
    BY DEF FillNewBlock
  <2>3. Agree(A, B, n)
    BY <1>8 DEF Agree
  <2>4. /\ LinkBlock(A, n, p, refs, anc)[n] = LinkBlock(B, n, p, refs, anc)[n]
        /\ \A b \in BlockIds \ {n} : LinkBlock(A, n, p, refs, anc)[b] = A[b]
    BY <1>1, <1>7, <2>1, <2>3, LinkAgrees
  <2> QED BY <1>7, <2>2, <2>4
<1>10. /\ F \in [BlockIds -> Block] /\ D \in [BlockIds -> Block]
  BY <1>5, <1>6 DEF TableOK
<1>11. \A b \in BlockIds \ {k} : C[b] = F[b]
  <2> PICK y : C = [F EXCEPT ![k] = y]
    BY DEF MineBlock
  <2> QED BY <1>10
<1>12. ASSUME NEW b \in BlockIds PROVE D[b] = Shown(C, k)[b]
  <2>1. b \in Nat /\ Shown(C, k)[b] = IF b < k THEN C[b] ELSE GenesisTable[b]
    BY DEF Shown, BlockIds
  <2>2. CASE b < n
    <3>1. b \in 0..(n - 1) /\ b < k /\ b # k /\ b # n
      BY <1>1, <2>1, <2>2
    <3>2. D[b] = S[b] /\ S[b] = B[b] /\ C[b] = F[b] /\ F[b] = B[b]
      BY <1>2, <1>6, <1>9, <1>11, <3>1 DEF Agree
    <3> QED BY <2>1, <3>1, <3>2
  <2>3. CASE b = n
    <3>1. b < k /\ b # k
      BY <1>1, <2>3
    <3> QED BY <1>9, <1>11, <2>1, <2>3, <3>1
  <2>4. CASE b > n
    <3>1. ~ (b < k) /\ ~ (b < n) /\ b # n
      BY <1>1, <2>1, <2>4
    <3>2. S[b] = GenesisTable[b]
      BY <3>1 DEF Shown
    <3> QED BY <1>9, <2>1, <3>1, <3>2
  <2> QED BY <1>1, <2>1, <2>2, <2>3, <2>4
<1>13. Shown(C, k) = D
  <2>1. D = [b \in BlockIds |-> D[b]]
    BY <1>10
  <2>2. Shown(C, k) = [b \in BlockIds |-> Shown(C, k)[b]]
    BY DEF Shown
  <2> QED BY <1>12, <2>1, <2>2
<1>14. Agree(F, D, k)
  <2>1. ASSUME NEW b \in 0..(k - 1) PROVE D[b] = F[b]
    <3>1. b \in BlockIds /\ b < k /\ b # k
      BY <1>1 DEF BlockIds
    <3>2. D[b] = Shown(C, k)[b] /\ Shown(C, k)[b] = C[b] /\ C[b] = F[b]
      BY <1>11, <1>12, <3>1 DEF Shown
    <3> QED BY <3>2
  <2> QED BY <2>1 DEF Agree
<1>15. n \in 0..(k - 1)
  BY <1>1
<1>16. Insert(D, g, n) = Insert(F, g, n)
  BY <1>5, <1>6, <1>14, <1>15, InsertAgrees
<1> QED BY <1>13, <1>16

-----------------------------------------------------------------------------
(***************************************************************************)
(* The steps.                                                              *)
(***************************************************************************)
\* Nothing but the time and the places of the packets changes: the network
\* does nothing.
LEMMA OnlyPlaces ==
    ASSUME SimInv, Places', Packets' = Packets, timestamp' \in Nat,
           UNCHANGED <<blocks, mined, miners, inFlight>>
    PROVE  SimInv' /\ UNCHANGED Net!vars
<1>1. Size' = Size
  BY DEF Size
<1>2. Tables'
  BY <1>1 DEF SimInv, Tables
<1>3. Origins'
  BY DEF SimInv, Origins
<1>4. UNCHANGED Net!vars
  BY DEF Net!vars
<1> QED BY <1>2, <1>3, <1>4 DEF SimInv

\* The oracle runs an event at the time it is due and leaves the links alone:
\* its results are queued, and are about packets that were not under way.
LEMMA EventStep ==
    ASSUME SimInv, NEW e \in queue, e.timestamp = Due, timestamp' = Due,
           nodes' = nodes, Tables', Size <= Size',
           NEW N, Results(N, Size', Due), NEW G, NextBlock(G, e, Size, Size', Due),
           queue' = Enqueue(queue \ {e}, N \cup G, Due), \A f \in N \cup G : f.timestamp >= Due,
           NEW D, D = {p \in Packets : e.type = "GenBlock" \/ p # e.packet},
           PacketsOf(N) \cap Packets = {}, NoDouble(D, PacketsOf(N)),
           OriginsOK(PacketsOf(N), miners', inFlight'),
           Grown(miners, miners', inFlight, inFlight')
    PROVE  SimInv' /\ Packets' = D \cup PacketsOf(N)
<1>1. Tables /\ Places /\ Origins
  BY DEF SimInv
<1>2. queue' = Moved(queue, e, N, G)
  <2> PICK R : R = N \cup G
    OBVIOUS
  <2>1. queue' = Enqueue(queue \ {e}, R, Due) /\ \A f \in R : f.timestamp >= Due
    OBVIOUS
  <2>2. queue' = (queue \ {e}) \cup R
    BY <2>1, EnqueueAll
  <2> QED BY <2>2 DEF Moved, Without
<1>3. Size' \in Nat
  BY DEF Tables
<1>4. /\ Places'
      /\ e.type = "GenBlock" => Packets' = Packets \cup PacketsOf(N)
      /\ e.type # "GenBlock" => Packets' = (Packets \ {e.packet}) \cup PacketsOf(N)
  BY <1>1, <1>2, <1>3, QueueStep
<1>5. Packets' = D \cup PacketsOf(N) /\ D \subseteq Packets
  BY <1>4
<1>6. OriginsOK(D \cup PacketsOf(N), miners', inFlight')
  <2>1. Packets \subseteq NetPackets(Size) /\ OriginsOK(Packets, miners, inFlight)
    BY <1>1, PacketKinds DEF Origins
  <2> PICK n, P, M, F, L, H, O : /\ n = Size /\ P = Packets /\ M = miners /\ F = inFlight
                                 /\ L = miners' /\ H = inFlight' /\ O = PacketsOf(N)
    OBVIOUS
  <2>2. /\ P \subseteq NetPackets(n) /\ OriginsOK(P, M, F) /\ Grown(M, L, F, H)
        /\ D \subseteq P /\ OriginsOK(O, L, H) /\ NoDouble(D, O)
    BY <1>5, <2>1
  <2>3. OriginsOK(D \cup O, L, H)
    BY <2>2, OriginsGrow
  <2> QED BY <2>3
<1>7. Origins'
  BY <1>5, <1>6 DEF Origins
<1> QED BY <1>4, <1>5, <1>7 DEF SimInv

\* What the steps on the queue start from.
LEMMA PopsAtDue ==
    ASSUME SimInv, NEW t, RunAt(t)
    PROVE  /\ Tables /\ Places /\ Origins /\ t = Due /\ t \in Nat /\ t <= Duration
           /\ timestamp' = Due /\ timestamp <= t
           /\ Packets \subseteq NetPackets(Size) /\ Size \in Nat /\ Size <= MaxBlock
           /\ MaxBlock \in Nat
<1>1. Tables /\ Places /\ Origins
  BY DEF SimInv
<1>2. Due \in Nat /\ timestamp <= Due
  BY <1>1, DueIs
<1>3. Size \in Nat /\ Size <= MaxBlock /\ MaxBlock \in Nat
  BY <1>1, BlockAssumption DEF Tables
<1> QED BY <1>1, <1>2, <1>3, PacketKinds DEF RunAt

\* The packet of an event in the queue.
LEMMA PacketOfEvent ==
    ASSUME SimInv, NEW e \in queue, e.type # "GenBlock"
    PROVE  e.packet \in Packets /\ e.packet \in NetPackets(Size)
<1>1. e.packet \in PacketsOf(queue)
  BY DEF PacketsOf, PacketEvents
<1> QED BY <1>1, PacketsAre, PacketKinds DEF SimInv

\* A packet goes over to its sender's link, and comes out of it.
LEMMA ConstructedKeeps ==
    ASSUME SimInv, NEW e \in queue, RunAt(e.timestamp), RunConstructed(e)
    PROVE  SimInv' /\ UNCHANGED Net!vars
<1>1. Tables /\ Places /\ e.timestamp = Due /\ timestamp' = Due /\ Due \in Nat
  BY PopsAtDue
<1>2. Size' = Size
  BY DEF RunConstructed, Size
<1>3. Places' /\ Packets' = Packets
  <2>1. /\ e.type = "constructed" /\ queue' = queue \ {e}
        /\ nodes' = [nodes EXCEPT ![e.packet.from] = AddEvent(@, e.timestamp, Outbound(e.packet))]
    BY DEF RunConstructed
  <2> QED BY <1>1, <1>2, <2>1, HandOverStep
<1> QED BY <1>1, <1>3, OnlyPlaces DEF RunConstructed

LEMMA ComesOutKeeps ==
    ASSUME SimInv, NEW m \in Miners, NEW w \in nodes[m].wakeups, RunAt(w.timestamp),
           RunWakeup(m, w)
    PROVE  SimInv' /\ UNCHANGED Net!vars
<1>1. Tables /\ Places /\ w.timestamp = Due /\ timestamp' = Due /\ Due \in Nat
  BY PopsAtDue
<1>2. Size' = Size
  BY DEF RunWakeup, Size
<1>3. Places' /\ Packets' = Packets
  BY <1>1, <1>2, WakeupStep
<1> QED BY <1>1, <1>3, OnlyPlaces DEF RunWakeup

\* One packet takes the place of another: it is the request that an announcement
\* leads to, or the same packet one leg further.
LEMMA NextPacket ==
    ASSUME SimInv, NEW e \in queue, RunAt(e.timestamp), e.type # "GenBlock",
           UNCHANGED <<blocks, mined, miners, nodes>>,
           NEW p \in NetPackets(Size), p.type # "INV",
           p.to = e.packet.to, p.block = e.packet.block, p.type # e.packet.type,
           \/ e.packet.type # "INV" /\ inFlight' = inFlight
           \/ p.block \notin inFlight[p.to] /\ inFlight' = Net!RequestInFlight(inFlight, e.packet),
           NEW f, f.packet = p, IsPacketEvent(f, Size, Due),
           queue' = Enqueue(queue \ {e}, {f}, e.timestamp)
    PROVE  SimInv' /\ Packets' = (Packets \ {e.packet}) \cup {p}
<1> PICK q, n : q = e.packet /\ n = Size
  OBVIOUS
<1>1. /\ Tables /\ Places /\ Origins /\ e.timestamp = Due /\ Due \in Nat
      /\ timestamp' = Due /\ Packets \subseteq NetPackets(n) /\ n \in Nat
  BY PopsAtDue
<1>2. q \in Packets /\ q.to \in Miners /\ q.block \in 0..(n - 1)
  BY PacketOfEvent, NetPacketFields
<1>3. Size' = n
  BY DEF Size
<1>4. /\ inFlight \in [Miners -> SUBSET (0..(n - 1))]
      /\ inFlight' \in [Miners -> SUBSET (0..(n - 1))]
      /\ \A m \in Miners : inFlight[m] \subseteq inFlight'[m]
      /\ p.block \in inFlight'[p.to]
  <2>1. inFlight \in [Miners -> SUBSET (0..(n - 1))]
    BY <1>1 DEF Tables
  <2>2. CASE q.type # "INV" /\ inFlight' = inFlight
    <3>1. q.block \in inFlight[q.to]
      BY <1>1, <1>2, <2>2 DEF Origins, OriginsOK
    <3> QED BY <2>1, <2>2, <3>1
  <2>3. CASE inFlight' = Net!RequestInFlight(inFlight, q)
    <3>1. inFlight' = [inFlight EXCEPT ![q.to] = inFlight[q.to] \cup {q.block}]
      BY <2>3 DEF Net!RequestInFlight
    <3> QED BY <1>2, <2>1, <3>1
  <2> QED BY <2>1, <2>2, <2>3
<1>5. \A x \in Packets : x # q /\ x.type # "INV" => ~ (x.to = p.to /\ x.block = p.block)
  BY <1>1, <1>2 DEF Origins, OriginsOK
<1>6. p \notin Packets
  BY <1>5
<1>7. Tables'
  BY <1>1, <1>3, <1>4 DEF Tables
<1> PICK N, D : N = {f} /\ D = {x \in Packets : e.type = "GenBlock" \/ x # q}
  OBVIOUS
<1>8. /\ Results(N, n, Due) /\ PacketsOf(N) = {p} /\ \A x \in N : x.timestamp >= Due
  BY <1>1, OneResult
<1>9. NextBlock({}, e, n, n, Due)
  BY DEF NextBlock
<1>10. queue' = Enqueue(queue \ {e}, N \cup {}, Due) /\ \A x \in N \cup {} : x.timestamp >= Due
  BY <1>1, <1>8
<1>11. PacketsOf(N) \cap Packets = {} /\ NoDouble(D, PacketsOf(N))
  BY <1>5, <1>6, <1>8 DEF NoDouble
<1>12. OriginsOK(PacketsOf(N), miners', inFlight')
  BY <1>4, <1>8 DEF OriginsOK
<1>13. Grown(miners, miners', inFlight, inFlight')
  BY <1>4 DEF Grown
<1>14. nodes' = nodes /\ Size <= Size'
  BY <1>1, <1>3
<1>15. SimInv' /\ Packets' = D \cup PacketsOf(N)
  BY <1>1, <1>3, <1>7, <1>8, <1>9, <1>10, <1>11, <1>12, <1>13, <1>14, EventStep
<1>16. D = Packets \ {q}
  OBVIOUS
<1> QED BY <1>8, <1>15, <1>16

\* A packet is done with.
LEMMA PacketLeaves ==
    ASSUME SimInv, NEW e \in queue, RunAt(e.timestamp), e.type # "GenBlock",
           UNCHANGED <<blocks, mined, miners, inFlight, nodes>>, queue' = queue \ {e}
    PROVE  SimInv' /\ Packets' = Packets \ {e.packet}
<1> PICK n, D : n = Size /\ D = {x \in Packets : e.type = "GenBlock" \/ x # e.packet}
  OBVIOUS
<1>1. Tables /\ e.timestamp = Due /\ Due \in Nat /\ timestamp' = Due /\ n \in Nat
  BY PopsAtDue
<1>2. Size' = n
  BY DEF Size
<1>3. Tables'
  BY <1>1, <1>2 DEF Tables
<1> PICK N : N = {}
  OBVIOUS
<1>4. Results(N, n, Due) /\ PacketsOf(N) = {}
  BY NoResult
<1>5. NextBlock({}, e, n, n, Due)
  BY DEF NextBlock
<1>6. queue' = Enqueue(queue \ {e}, N \cup {}, Due) /\ \A x \in N \cup {} : x.timestamp >= Due
  BY DEF Enqueue
<1>7. /\ PacketsOf(N) \cap Packets = {} /\ NoDouble(D, PacketsOf(N))
      /\ OriginsOK(PacketsOf(N), miners', inFlight')
      /\ Grown(miners, miners', inFlight, inFlight')
  BY <1>4 DEF NoDouble, OriginsOK, Grown
<1>8. nodes' = nodes /\ Size <= Size'
  BY <1>1, <1>2
<1>9. SimInv' /\ Packets' = D \cup PacketsOf(N)
  BY <1>1, <1>2, <1>3, <1>4, <1>5, <1>6, <1>7, <1>8, EventStep
<1>10. D = Packets \ {e.packet}
  OBVIOUS
<1> QED BY <1>4, <1>9, <1>10

\* An announcement arrives.
LEMMA INVKeeps ==
    ASSUME SimInv, NEW e \in queue, RunAt(e.timestamp), RunINV(e)
    PROVE  SimInv' /\ Net!ReceiveINV(e.packet)
<1> PICK q : q = e.packet
  OBVIOUS
<1>1. /\ e.type = "sending" /\ q.type = "INV" /\ UNCHANGED <<blocks, mined, miners, nodes>>
      /\ e.timestamp = Due /\ Due \in Nat
  BY PopsAtDue DEF RunINV
<1>2. CASE q.block \in inFlight[q.to]
  <2>1. queue' = queue \ {e} /\ UNCHANGED inFlight
    BY <1>2 DEF RunINV
  <2>2. SimInv' /\ Packets' = Packets \ {q}
    BY <1>1, <2>1, PacketLeaves
  <2>3. Net!ReceiveINV(q)
    BY <1>1, <1>2, <2>1, <2>2 DEF Net!ReceiveINV
  <2> QED BY <2>2, <2>3
<1>3. CASE q.block \notin inFlight[q.to]
  <2>1. PICK ping \in Pings : queue' = Enqueue(queue \ {e},
                                               {Requested(e.timestamp, Net!Request(q), ping)},
                                               e.timestamp)
    BY <1>3 DEF RunINV
  <2>2. inFlight' = Net!RequestInFlight(inFlight, q)
    BY <1>3 DEF RunINV
  <2> PICK p, f : p = Net!Request(q) /\ f = Requested(e.timestamp, p, ping)
    OBVIOUS
  <2>3. /\ p.type \in {"GET", "GETCompact"} /\ p.to = q.to /\ p.block = q.block
        /\ p \in NetPackets(Size)
    <3>1. q \in NetPackets(Size)
      BY <1>1, PacketOfEvent
    <3>2. q.from \in Miners /\ q.to \in Miners /\ q.block \in 0..(Size - 1)
      BY <3>1, NetPacketFields
    <3> QED BY <3>2 DEF Net!Request, NetPackets
  <2>4. f.packet = p /\ IsPacketEvent(f, Size, Due)
    <3>1. ping \in Nat /\ f = Constructed(Due + 2 * ping, p)
      BY <1>1, SimulationAssumption DEF Requested
    <3>2. Due + 2 * ping \in Nat /\ Due <= Due + 2 * ping
      BY <1>1, <3>1
    <3> QED BY <2>3, <3>1, <3>2, QueueFields DEF IsPacketEvent
  <2>5. p.type # "INV" /\ p.type # q.type
    BY <1>1, <2>3
  <2>6. SimInv' /\ Packets' = (Packets \ {q}) \cup {p}
    BY <1>1, <1>3, <2>1, <2>2, <2>3, <2>4, <2>5, NextPacket
  <2>7. Net!ReceiveINV(q)
    BY <1>1, <1>3, <2>2, <2>6 DEF Net!ReceiveINV
  <2> QED BY <2>6, <2>7
<1> QED BY <1>2, <1>3

\* The request, compact or not, has been sent.
LEMMA GETKeeps ==
    ASSUME SimInv, NEW e \in queue, RunAt(e.timestamp), RunGET(e)
    PROVE  SimInv' /\ (Net!SendCompact(e.packet) \/ Net!SendData(e.packet))
<1> PICK q : q = e.packet
  OBVIOUS
<1>1. /\ e.type = "sending" /\ q.type \in {"GETCompact", "GET"}
      /\ UNCHANGED <<blocks, mined, miners, nodes>> /\ inFlight' = inFlight
      /\ e.timestamp = Due /\ Due \in Nat
  BY PopsAtDue DEF RunGET
<1>2. q \in [type : {"GET", "GETCompact", "SendBlock"}, from : Miners, to : Miners,
             block : 0..(Size - 1)]
  BY <1>1, PacketOfEvent, NetPacketFields
<1>3. PICK ping \in Pings :
        queue' = Enqueue(queue \ {e},
                         {IF q.type = "GETCompact"
                          THEN Requested(e.timestamp, [q EXCEPT !.type = "GET"], ping)
                          ELSE Delivered(e.timestamp, [q EXCEPT !.type = "SendBlock"], ping)},
                         e.timestamp)
  BY DEF RunGET
<1>4. ping \in Nat
  BY SimulationAssumption
<1>5. CASE q.type = "GETCompact"
  <2> PICK p, f : p = [q EXCEPT !.type = "GET"] /\ f = Requested(e.timestamp, p, ping)
    OBVIOUS
  <2>1. p.type = "GET" /\ p.to = q.to /\ p.block = q.block /\ p \in NetPackets(Size)
    BY <1>2 DEF NetPackets
  <2>2. f.packet = p /\ IsPacketEvent(f, Size, Due)
    <3>1. f = Constructed(Due + 2 * ping, p)
      BY <1>1 DEF Requested
    <3>2. Due + 2 * ping \in Nat /\ Due <= Due + 2 * ping
      BY <1>1, <1>4
    <3> QED BY <2>1, <3>1, <3>2, QueueFields DEF IsPacketEvent
  <2>3. queue' = Enqueue(queue \ {e}, {f}, e.timestamp)
    BY <1>3, <1>5
  <2>4. p.type # "INV" /\ p.type # q.type /\ q.type # "INV"
    BY <1>5, <2>1
  <2>5. SimInv' /\ Packets' = (Packets \ {q}) \cup {p}
    BY <1>1, <2>1, <2>2, <2>3, <2>4, NextPacket
  <2>6. Net!SendCompact(q)
    BY <1>1, <1>5, <2>5 DEF Net!SendCompact
  <2> QED BY <2>5, <2>6
<1>6. CASE q.type = "GET"
  <2> PICK p, f : p = [q EXCEPT !.type = "SendBlock"] /\ f = Delivered(e.timestamp, p, ping)
    OBVIOUS
  <2>1. p.type = "SendBlock" /\ p.to = q.to /\ p.block = q.block /\ p \in NetPackets(Size)
    BY <1>2 DEF NetPackets
  <2>2. f.packet = p /\ IsPacketEvent(f, Size, Due)
    <3>1. f = Sending(Due + ping, p)
      BY <1>1 DEF Delivered
    <3>2. Due + ping \in Nat /\ Due <= Due + ping
      BY <1>1, <1>4
    <3> QED BY <2>1, <3>1, <3>2, QueueFields DEF IsPacketEvent
  <2>3. queue' = Enqueue(queue \ {e}, {f}, e.timestamp)
    BY <1>3, <1>6
  <2>4. p.type # "INV" /\ p.type # q.type /\ q.type # "INV"
    BY <1>6, <2>1
  <2>5. SimInv' /\ Packets' = (Packets \ {q}) \cup {p}
    BY <1>1, <2>1, <2>2, <2>3, <2>4, NextPacket
  <2>6. p = Net!SendBlock(q.from, q.to, q.block)
    BY <1>2 DEF Net!SendBlock
  <2>7. Net!SendData(q)
    BY <1>1, <1>6, <2>5, <2>6 DEF Net!SendData
  <2> QED BY <2>5, <2>7
<1> QED BY <1>1, <1>5, <1>6

\* A block arrives: what enters the receiver's graph has not been announced by
\* it before.
LEMMA SendBlockKeeps ==
    ASSUME SimInv, NEW e \in queue, RunAt(e.timestamp), RunSendBlock(e)
    PROVE  SimInv' /\ Net!ReceiveData(e.packet)
<1>0. PICK n, q, m, g, c, r : /\ n = Size /\ q = e.packet /\ m = q.to
                              /\ g = miners[m].graph /\ c = miners[m].cache
                              /\ r = ReceiveBlock(blocks, miners[m], q.block)
  OBVIOUS
<1>1. /\ e.type = "sending" /\ q.type = "SendBlock" /\ UNCHANGED <<blocks, mined, nodes>>
      /\ miners' = [miners EXCEPT ![m] = [graph |-> r.graph, cache |-> r.cache]]
      /\ inFlight' = [inFlight EXCEPT ![m] = @ \cup ToSet(r.relays)]
      /\ queue' = Enqueue(queue \ {e},
                          Announce(e.timestamp, UNION {Net!SendToAllPeer(m, b) : b \in ToSet(r.relays)}),
                          e.timestamp)
  BY <1>0 DEF RunSendBlock
<1>2. /\ Tables /\ Origins /\ e.timestamp = Due /\ Due \in Nat /\ timestamp' = Due
      /\ Packets \subseteq NetPackets(n) /\ n \in Nat
  BY <1>0, PopsAtDue
<1>3. q \in Packets /\ m \in Miners /\ q.block \in 0..(n - 1)
  BY <1>0, <1>1, PacketOfEvent, NetPacketFields
<1>4. /\ TableOK(blocks, n) /\ GraphOK(blocks, n, g) /\ Genesis \in g.ledger
      /\ miners \in [Miners -> [graph : Graph, cache : Seq(0..(n - 1))]]
      /\ c \in Seq(0..(n - 1)) /\ inFlight \in [Miners -> SUBSET (0..(n - 1))]
  BY <1>0, <1>2, <1>3 DEF Tables
<1>5. Received(blocks, n, g, c, q.block, r)
  <2>1. MinerOK(blocks, n, miners[m].graph, miners[m].cache)
    BY <1>0, <1>4 DEF MinerOK
  <2> QED BY <1>0, <1>3, <1>4, <2>1, ReceiveBlockOK
<1>6. /\ MinerOK(blocks, n, r.graph, r.cache) /\ r.relays \in Seq(0..(n - 1))
      /\ r.graph.ledger = g.ledger \cup ToSet(r.relays) /\ g.ledger \cap ToSet(r.relays) = {}
  BY <1>5 DEF Received, Entered
<1>7. /\ GraphOK(blocks, n, r.graph) /\ r.graph \in Graph /\ r.cache \in Seq(0..(n - 1))
      /\ ToSet(r.relays) \subseteq 0..(n - 1) /\ IsFiniteSet(ToSet(r.relays))
  <2>1. ToSet(r.relays) \subseteq 0..(n - 1)
    BY <1>6, ToSetIs
  <2>2. IsFiniteSet(ToSet(r.relays))
    <3>1. IsFiniteSet(0..(n - 1))
      <4>1. 0 \in Int /\ n - 1 \in Int
        BY <1>2
      <4> PICK k : k = n - 1
        OBVIOUS
      <4> QED BY <4>1, FS_Interval
    <3> QED BY <2>1, <3>1, FS_Subset
  <2> QED BY <1>6, <2>1, <2>2 DEF MinerOK, GraphOK
<1>8. /\ miners' \in [Miners -> [graph : Graph, cache : Seq(0..(n - 1))]]
      /\ miners'[m].graph = r.graph /\ miners'[m].cache = r.cache
      /\ \A k \in Miners \ {m} : miners'[k] = miners[k]
  BY <1>1, <1>3, <1>4, <1>7
<1>9. /\ inFlight' \in [Miners -> SUBSET (0..(n - 1))]
      /\ \A k \in Miners : inFlight[k] \subseteq inFlight'[k]
  BY <1>1, <1>3, <1>4, <1>7
<1>10. Size' = n
  BY <1>0, <1>1 DEF Size
<1>11. Tables'
  <2>1. \A k \in Miners : GraphOK(blocks, n, miners'[k].graph) /\ Genesis \in miners'[k].graph.ledger
    <3>1. GraphOK(blocks, n, miners'[m].graph) /\ Genesis \in miners'[m].graph.ledger
      BY <1>4, <1>6, <1>7, <1>8
    <3>2. \A k \in Miners \ {m} : GraphOK(blocks, n, miners'[k].graph)
                                  /\ Genesis \in miners'[k].graph.ledger
      BY <1>0, <1>2, <1>8 DEF Tables
    <3> QED BY <3>1, <3>2
  <2>2. /\ mined' \in Nat /\ Size' \in 1..MaxBlock /\ timestamp' \in Nat
        /\ TableOK(blocks', Size') /\ blocks'[Size'].minerID \in Miners
    <3>1. /\ mined \in Nat /\ Size \in 1..MaxBlock /\ TableOK(blocks, Size)
          /\ blocks[Size].minerID \in Miners
      BY <1>2 DEF Tables
    <3> QED BY <1>0, <1>1, <1>2, <1>10, <3>1
  <2>3. blocks' = blocks
    BY <1>1
  <2> QED BY <1>8, <1>9, <1>10, <2>1, <2>2, <2>3 DEF Tables
<1> PICK P : P = UNION {Net!SendToAllPeer(m, b) : b \in ToSet(r.relays)}
  OBVIOUS
<1>12. /\ IsFiniteSet(P)
       /\ \A p \in P : /\ p \in NetPackets(n) /\ p.type = "INV" /\ p.from = m
                       /\ p.block \in ToSet(r.relays)
  <2>1. ASSUME NEW b \in ToSet(r.relays)
        PROVE  /\ IsFiniteSet(Net!SendToAllPeer(m, b))
               /\ \A p \in Net!SendToAllPeer(m, b) :
                     p \in NetPackets(n) /\ p.type = "INV" /\ p.from = m /\ p.block = b
    BY <1>3, <1>7, NetAnnouncements
  <2> PICK X : X = ToSet(r.relays)
    OBVIOUS
  <2> DEFINE T == {Net!SendToAllPeer(m, b) : b \in X}
             h == [b \in X |-> Net!SendToAllPeer(m, b)]
  <2>2. h \in Surjection(X, T)
    BY DEF Surjection
  <2>3. IsFiniteSet(X)
    BY <1>7
  <2>4. \A Y \in T : IsFiniteSet(Y)
    BY <2>1
  <2>5. P = UNION T
    OBVIOUS
  <2>6. \A p \in P : p \in NetPackets(n) /\ p.type = "INV" /\ p.from = m /\ p.block \in X
    BY <2>1
  <2> HIDE DEF h, T
  <2>7. IsFiniteSet(T)
    BY <2>2, <2>3, FS_Surjection
  <2>8. IsFiniteSet(UNION T)
    BY <2>4, <2>7, FS_UNION
  <2> QED BY <2>5, <2>6, <2>8
<1>13. P \cap Packets = {}
  BY <1>0, <1>2, <1>6, <1>12 DEF Origins, OriginsOK
<1> PICK N, D : /\ N = Announce(Due, P)
                /\ D = {x \in Packets : e.type = "GenBlock" \/ x # e.packet}
  OBVIOUS
<1>14. Results(N, n, Due) /\ PacketsOf(N) = P /\ \A f \in N : f.timestamp >= Due
  <2>1. P \subseteq NetPackets(n) /\ IsFiniteSet(P) /\ Due \in Nat
    BY <1>2, <1>12
  <2>2. /\ Results(Announce(Due, P), n, Due) /\ PacketsOf(Announce(Due, P)) = P
        /\ \A f \in Announce(Due, P) : f.timestamp >= Due
    BY <2>1, AnnounceIs
  <2> QED BY <2>2
<1>15. NextBlock({}, e, n, n, Due)
  BY <1>1 DEF NextBlock
<1>16. queue' = Enqueue(queue \ {e}, N \cup {}, Due) /\ \A f \in N \cup {} : f.timestamp >= Due
  BY <1>1, <1>2, <1>14
<1>17. NoDouble(D, PacketsOf(N))
  BY <1>12, <1>14 DEF NoDouble
<1>18. OriginsOK(PacketsOf(N), miners', inFlight')
  <2>1. \A b \in ToSet(r.relays) : b \in miners'[m].graph.ledger
    BY <1>6, <1>8
  <2> QED BY <1>12, <1>14, <2>1 DEF OriginsOK
<1>19. Grown(miners, miners', inFlight, inFlight')
  <2>1. g.ledger \subseteq miners'[m].graph.ledger
    BY <1>6, <1>8
  <2> QED BY <1>0, <1>8, <1>9, <2>1 DEF Grown
<1>20. nodes' = nodes /\ Size <= Size'
  BY <1>0, <1>1, <1>2, <1>10
<1>21. PacketsOf(N) \cap Packets = {} /\ Results(N, Size', Due) /\ NextBlock({}, e, Size, Size', Due)
  BY <1>0, <1>10, <1>13, <1>14, <1>15
<1>22. SimInv' /\ Packets' = D \cup PacketsOf(N)
  BY <1>2, <1>11, <1>16, <1>17, <1>18, <1>19, <1>20, <1>21, EventStep
<1>23. Packets' = (Packets \ {q}) \cup UNION {Net!SendToAllPeer(m, b) : b \in ToSet(r.relays)}
  <2>1. D = Packets \ {q}
    BY <1>0, <1>1
  <2> QED BY <1>14, <1>22, <2>1
<1> PICK S : S = Shown(blocks, n)
  OBVIOUS
<1>24. r = Net!ReceiveBlock(S, miners[m], q.block)
  <2>1. TableOK(S, n) /\ Agree(blocks, S, n)
    BY <1>4, ShownTable
  <2>2. MinerOK(blocks, n, miners[m].graph, miners[m].cache)
    BY <1>0, <1>4 DEF MinerOK
  <2> PICK B, w, b : B = blocks /\ w = miners[m] /\ b = q.block
    OBVIOUS
  <2>3. ReceiveBlock(S, w, b) = ReceiveBlock(B, w, b)
    BY <1>3, <1>4, <2>1, <2>2, ReceiveBlockAgrees
  <2>4. Net!ReceiveBlock(S, w, b) = ReceiveBlock(S, w, b)
    BY SameHandlers
  <2> QED BY <1>0, <2>3, <2>4
<1>25. S = [b \in BlockIds |-> IF b < mined - 1 THEN blocks[b] ELSE GenesisTable[b]]
  BY <1>0 DEF Shown, Size
<1>26. Net!ReceiveData(q)
  <2>1. Net!ToSet(r.relays) = ToSet(r.relays)
    BY SameLists
  <2> PICK X : X = ToSet(r.relays)
    OBVIOUS
  <2>2. /\ miners' = [miners EXCEPT ![m] = [graph |-> r.graph, cache |-> r.cache]]
        /\ inFlight' = [inFlight EXCEPT ![m] = @ \cup X]
        /\ Packets' = (Packets \ {q}) \cup UNION {Net!SendToAllPeer(m, b) : b \in X}
    BY <1>1, <1>23
  <2>3. q.type = "SendBlock" /\ UNCHANGED <<blocks, mined>> /\ m = q.to
    BY <1>0, <1>1
  <2> DEFINE T == [b \in BlockIds |-> IF b < mined - 1 THEN blocks[b] ELSE GenesisTable[b]]
             R == Net!ReceiveBlock(T, miners[q.to], q.block)
  <2>4. R = r /\ Net!ToSet(R.relays) = X
    BY <1>24, <1>25, <2>1, <2>3
  <2>5. T' = T /\ (mined - 1)' = mined - 1
    BY <2>3
  <2>6. /\ miners' = [miners EXCEPT ![q.to] = [graph |-> R.graph, cache |-> R.cache]]
        /\ inFlight' = [inFlight EXCEPT ![q.to] = @ \cup Net!ToSet(R.relays)]
    BY <2>2, <2>3, <2>4
  <2>7. Packets' = (Packets \ {q}) \cup UNION {Net!SendToAllPeer(q.to, b) : b \in Net!ToSet(R.relays)}
    BY <2>2, <2>3, <2>4
  <2> QED BY <2>3, <2>5, <2>6, <2>7, Zenon DEF Net!ReceiveData
<1> QED BY <1>0, <1>22, <1>26

\* A block is generated: it is new to everybody, and so is what is sent of it.
LEMMA GenBlockKeeps ==
    ASSUME SimInv, NEW e \in queue, RunAt(e.timestamp), RunGenBlock(e)
    PROVE  SimInv' /\ \E m \in Miners : Net!Generate(m)
<1>0. PICK n, k, t, m, r, g, c, F, h, C :
        /\ n = Size /\ k = n + 1 /\ t = e.timestamp
        /\ m = blocks[n].minerID /\ r = blocks[n].residual
        /\ g = miners[m].graph /\ c = miners[m].cache
        /\ F = FillNewBlock(blocks, g, n) /\ h = Insert(F, g, n) /\ C = blocks'
  OBVIOUS
<1>1. /\ Tables /\ Origins /\ t = Due /\ t \in Nat /\ timestamp' = t /\ t <= Duration
      /\ Packets \subseteq NetPackets(n) /\ timestamp <= t
  BY <1>0, PopsAtDue
<1>2. e.type = "GenBlock" /\ mined' = mined + 1 /\ nodes' = nodes
  BY DEF RunGenBlock
<1>3. e.block = n /\ n < MaxBlock
  <2>1. IsGenBlock(e, n, timestamp)
    BY <1>0, <1>2, QueueKinds DEF SimInv, Places, QueueOK
  <2> QED BY <1>0, <1>1, <2>1, QueueKinds DEF IsGenBlock
<1>4. /\ TableOK(blocks, n) /\ m \in Miners /\ n \in Nat /\ n >= 1 /\ k \in Nat /\ k <= MaxBlock
      /\ mined = k /\ MaxBlock \in Nat /\ n <= MaxBlock
      /\ \A x \in Miners : GraphOK(blocks, n, miners[x].graph) /\ Genesis \in miners[x].graph.ledger
      /\ miners \in [Miners -> [graph : Graph, cache : Seq(0..(n - 1))]]
      /\ inFlight \in [Miners -> SUBSET (0..(n - 1))]
  BY <1>0, <1>1, <1>3, BlockAssumption DEF Tables, Size
<1>5. Size' = k
  BY <1>0, <1>2, <1>4 DEF Size
<1>6. GraphOK(blocks, n, g) /\ Genesis \in g.ledger /\ c \in Seq(0..(n - 1))
  BY <1>0, <1>4
<1>7. PICK m2 \in Miners, r2 \in 0..MaxResidual, s \in NextStamps(t, k) :
        /\ C = MineBlock(F, k, m2, r2)
        /\ queue' = Enqueue(queue \ {e},
                            Announce(t, Net!BroadcastEvents(m, n)) \cup {GenBlock(s, k)}, t)
  <2>1. mined = k /\ blocks[e.block].minerID = m /\ e.block = n /\ t = e.timestamp
        /\ FillNewBlock(blocks, miners[m].graph, n) = F
    BY <1>0, <1>3, <1>4
  <2>2. PICK m2 \in Miners, r2 \in 0..MaxResidual, s \in NextStamps(e.timestamp, mined) :
          LET w    == blocks[e.block].minerID
              next == Mine(FillNewBlock(blocks, miners[w].graph, e.block), e.timestamp, mined,
                           m2, r2, s)
          IN  /\ blocks' = next.blocks
              /\ queue' = Enqueue(queue \ {e},
                                  Announce(e.timestamp, Net!BroadcastEvents(w, e.block))
                                      \cup {next.event},
                                  e.timestamp)
    BY ZenonT(60) DEF RunGenBlock
  <2>3. s \in NextStamps(t, k)
    BY <2>1
  <2>4. Mine(F, t, k, m2, r2, s).blocks = MineBlock(F, k, m2, r2)
        /\ Mine(F, t, k, m2, r2, s).event = GenBlock(s, k)
    BY DEF Mine
  <2>5. /\ C = MineBlock(F, k, m2, r2)
        /\ queue' = Enqueue(queue \ {e},
                            Announce(t, Net!BroadcastEvents(m, n)) \cup {GenBlock(s, k)}, t)
    BY <1>0, <2>1, <2>2, <2>4
  <2> QED BY <2>3, <2>5
<1>8. /\ miners' = [miners EXCEPT ![m] = GenerateBlock(F, miners[m], n)]
      /\ inFlight' = Net!BroadcastInFlight(inFlight, m, n)
  BY <1>0, <1>3 DEF RunGenBlock
<1>9. /\ TableOK(F, k) /\ \A x : GraphOK(blocks, n, x) => GraphOK(F, k, x)
      /\ GraphOK(F, k, h) /\ h.ledger = g.ledger \cup {n}
  <2>1. blocks \in [BlockIds -> Block] /\ n \in BlockIds
    BY <1>4 DEF TableOK, BlockIds
  <2>2. r \in 0..MaxResidual
    BY <1>0, <2>1 DEF Block
  <2>3. MineBlock(blocks, n, m, r) = blocks
    BY <1>0, <1>4, <2>2, MineKeepsTable
  <2>4. F = FillNewBlock(MineBlock(blocks, n, m, r), g, n) /\ h = Insert(F, g, n)
    BY <1>0, <2>3
  <2>5. /\ TableOK(F, n + 1) /\ \A x : GraphOK(blocks, n, x) => GraphOK(F, n + 1, x)
        /\ GraphOK(F, n + 1, Insert(F, g, n)) /\ Insert(F, g, n).ledger = g.ledger \cup {n}
    BY <1>4, <1>6, <2>2, <2>4, OwnBlockKeepsGraph
  <2>6. k = n + 1 /\ h = Insert(F, g, n)
    BY <1>0
  <2> QED BY <2>5, <2>6
<1>10. TableOK(C, k) /\ C[k].minerID = m2 /\ \A x : GraphOK(F, k, x) => GraphOK(C, k, x)
  <2>1. TableOK(C, k) /\ Agree(F, C, k) /\ C[k].minerID = m2
    BY <1>4, <1>7, <1>9, MineKeepsTable
  <2> QED BY <1>9, <2>1, AgreeKeepsGraph
<1>11. /\ miners'[m].graph = h /\ miners'[m].cache = c
       /\ \A x \in Miners \ {m} : miners'[x] = miners[x]
       /\ miners' \in [Miners -> [graph : Graph, cache : Seq(0..(k - 1))]]
  <2> PICK w, v : w = miners[m] /\ v = GenerateBlock(F, w, n)
    OBVIOUS
  <2>1. \A d : d \in Seq(0..(n - 1)) => d \in Seq(0..(k - 1))
    BY <1>0, <1>4, SeqGrows
  <2>2. /\ w \in [graph : Graph, cache : Seq(0..(n - 1))] /\ w.graph = g /\ w.cache = c
    BY <1>0, <1>4
  <2>3. v = [w EXCEPT !.graph = h]
    BY <1>0, <2>2 DEF GenerateBlock
  <2>4. h \in Graph
    BY <1>9 DEF GraphOK
  <2>5. v \in [graph : Graph, cache : Seq(0..(n - 1))] /\ v.graph = h /\ v.cache = c
    BY <2>2, <2>3, <2>4
  <2>6. /\ miners' = [miners EXCEPT ![m] = v]
        /\ miners' \in [Miners -> [graph : Graph, cache : Seq(0..(n - 1))]]
    BY <1>4, <1>8, <2>5
  <2>7. miners'[m] = v /\ \A x \in Miners \ {m} : miners'[x] = miners[x]
    BY <1>4, <2>6
  <2>8. ASSUME NEW x \in Miners
        PROVE  miners'[x] \in [graph : Graph, cache : Seq(0..(k - 1))]
    <3>1. miners'[x] \in [graph : Graph, cache : Seq(0..(n - 1))]
      BY <2>6
    <3> QED BY <2>1, <3>1
  <2>9. miners' \in [Miners -> [graph : Graph, cache : Seq(0..(k - 1))]]
    BY <2>6, <2>8
  <2> QED BY <2>5, <2>7, <2>9
<1>12. /\ inFlight' \in [Miners -> SUBSET (0..(k - 1))]
       /\ \A x \in Miners : inFlight[x] \subseteq inFlight'[x]
  <2>1. 0..(n - 1) \subseteq 0..(k - 1) /\ n \in 0..(k - 1)
    BY <1>0, <1>4
  <2>2. inFlight' = [x \in Miners |-> inFlight[x]
                        \cup (IF x \in Net!Expressed(m) \cup {m} THEN {n} ELSE {})]
    BY <1>8 DEF Net!BroadcastInFlight
  <2> QED BY <1>4, <2>1, <2>2
<1>13. Tables'
  <2>1. ASSUME NEW x \in Miners
        PROVE  GraphOK(C, k, miners'[x].graph) /\ Genesis \in miners'[x].graph.ledger
    <3>1. CASE x = m
      BY <1>6, <1>9, <1>10, <1>11, <3>1
    <3>2. CASE x # m
      BY <1>4, <1>9, <1>10, <1>11, <3>2
    <3> QED BY <3>1, <3>2
  <2>2. mined' \in Nat /\ Size' \in 1..MaxBlock /\ timestamp' \in Nat
    <3>1. mined' = k + 1 /\ Size' = k /\ timestamp' = t /\ k \in 1..MaxBlock
      BY <1>0, <1>1, <1>2, <1>4, <1>5
    <3> QED BY <1>1, <1>4, <3>1
  <2>3. TableOK(blocks', Size') /\ blocks'[Size'].minerID \in Miners
    BY <1>0, <1>5, <1>7, <1>10
  <2> QED BY <1>0, <1>5, <1>11, <1>12, <2>1, <2>2, <2>3 DEF Tables
<1> PICK P : P = Net!BroadcastEvents(m, n)
  OBVIOUS
<1>14. /\ IsFiniteSet(P)
       /\ \A p \in P : /\ p \in NetPackets(k) /\ p.block = n /\ (p.type = "INV" => p.from = m)
                       /\ p.type # "INV" => p = Net!SendBlock(m, p.to, n) /\ n \in inFlight'[p.to]
  <2>1. n \in 0..(k - 1) /\ m \in Miners
    BY <1>0, <1>4
  <2>2. /\ IsFiniteSet(Net!BroadcastEvents(m, n))
        /\ \A p \in Net!BroadcastEvents(m, n) :
              /\ p \in NetPackets(k) /\ p.block = n /\ (p.type = "INV" => p.from = m)
              /\ p.type # "INV" => /\ p = Net!SendBlock(m, p.to, n)
                                   /\ n \in Net!BroadcastInFlight(inFlight, m, n)[p.to]
    BY <2>1, NetBroadcasts
  <2> QED BY <1>8, <2>2
<1>15. \A p \in Packets : p.block # n
  <2>1. \A p \in Packets : p.block \in 0..(n - 1)
    BY <1>1, NetPacketFields
  <2> QED BY <1>4, <2>1
<1> PICK N, G, D : /\ N = Announce(t, P) /\ G = {GenBlock(s, k)}
                   /\ D = {x \in Packets : e.type = "GenBlock" \/ x # e.packet}
  OBVIOUS
<1>16. Results(N, k, t) /\ PacketsOf(N) = P /\ \A f \in N : f.timestamp >= t
  <2>1. P \subseteq NetPackets(k) /\ IsFiniteSet(P)
    BY <1>14
  <2>2. /\ Results(Announce(t, P), k, t) /\ PacketsOf(Announce(t, P)) = P
        /\ \A f \in Announce(t, P) : f.timestamp >= t
    BY <1>1, <2>1, AnnounceIs
  <2> QED BY <2>2
<1>17. IsGenBlock(GenBlock(s, k), k, t) /\ GenBlock(s, k).timestamp >= t
  <2>1. s \in Nat /\ t <= s /\ (s <= Duration => k < MaxBlock)
    BY <1>1, <1>4, <1>7, OracleAssumption DEF NextStamps
  <2> QED BY <2>1, QueueFields DEF IsGenBlock
<1>18. NextBlock(G, e, n, k, t) /\ \A f \in G : f.timestamp >= t
  BY <1>2, <1>17 DEF NextBlock
<1>19. queue' = Enqueue(queue \ {e}, N \cup G, t) /\ \A f \in N \cup G : f.timestamp >= t
  BY <1>7, <1>16, <1>18
<1>20. NoDouble(D, PacketsOf(N)) /\ PacketsOf(N) \cap Packets = {}
  BY <1>14, <1>15, <1>16 DEF NoDouble
<1>21. OriginsOK(PacketsOf(N), miners', inFlight')
  <2>1. n \in miners'[m].graph.ledger
    BY <1>9, <1>11
  <2> QED BY <1>14, <1>16, <2>1 DEF OriginsOK
<1>22. Grown(miners, miners', inFlight, inFlight')
  <2>1. g.ledger \subseteq miners'[m].graph.ledger
    BY <1>9, <1>11
  <2>2. g = miners[m].graph
    BY <1>0
  <2>3. \A x \in Miners : miners[x].graph.ledger \subseteq miners'[x].graph.ledger
    BY <1>11, <2>1, <2>2
  <2> QED BY <1>12, <2>3 DEF Grown
<1>23. e.timestamp = Due /\ timestamp' = Due /\ Size <= Size'
  BY <1>0, <1>1, <1>4, <1>5
<1>24. /\ Results(N, Size', Due) /\ NextBlock(G, e, Size, Size', Due)
       /\ queue' = Enqueue(queue \ {e}, N \cup G, Due) /\ \A f \in N \cup G : f.timestamp >= Due
  BY <1>0, <1>1, <1>5, <1>16, <1>18, <1>19
<1>25. SimInv' /\ Packets' = D \cup PacketsOf(N)
  BY <1>2, <1>13, <1>20, <1>21, <1>22, <1>23, <1>24, EventStep
<1>26. Packets' = Packets \cup Net!BroadcastEvents(m, n)
  <2>1. D = Packets
    BY <1>2
  <2> QED BY <1>16, <1>25, <2>1
<1> PICK S, E, V : /\ S = Shown(blocks, n) /\ E = FillNewBlock(MineBlock(S, n, m, r), g, n)
                   /\ V = Shown(C, k)
  OBVIOUS
<1>27. V = E /\ Insert(E, g, n) = h
  <2> PICK B : B = blocks
    OBVIOUS
  <2>1. /\ TableOK(B, n) /\ n < MaxBlock /\ B[n].minerID \in Miners
        /\ GraphOK(B, n, g) /\ Genesis \in g.ledger /\ F = FillNewBlock(B, g, n)
        /\ m2 \in Miners /\ r2 \in 0..MaxResidual /\ C = MineBlock(F, n + 1, m2, r2)
    <3>1. TableOK(B, n) /\ B[n].minerID \in Miners /\ F = FillNewBlock(B, g, n)
      BY <1>0, <1>4
    <3>2. C = MineBlock(F, n + 1, m2, r2)
      BY <1>0, <1>7
    <3> QED BY <1>3, <1>6, <3>1, <3>2
  <2>2. E = FillNewBlock(MineBlock(Shown(B, n), n, B[n].minerID, B[n].residual), g, n)
    BY <1>0
  <2>3. Shown(C, n + 1) = E /\ Insert(E, g, n) = Insert(F, g, n)
    BY <2>1, <2>2, ShownGenerates
  <2> QED BY <1>0, <2>3
<1>28. miners' = [miners EXCEPT ![m] = GenerateBlock(E, miners[m], n)]
  <2>1. GenerateBlock(E, miners[m], n) = GenerateBlock(F, miners[m], n)
    BY <1>0, <1>27 DEF GenerateBlock
  <2> QED BY <1>8, <2>1
<1>29. r \in 0..MaxResidual
  <2>1. blocks \in [BlockIds -> Block] /\ n \in BlockIds
    BY <1>4 DEF TableOK, BlockIds
  <2> QED BY <1>0, <2>1 DEF Block
<1>30. /\ S = [b \in BlockIds |-> IF b < mined - 1 THEN blocks[b] ELSE GenesisTable[b]]
       /\ V = [b \in BlockIds |-> IF b < mined' - 1 THEN blocks'[b] ELSE GenesisTable[b]]
       /\ n = mined - 1 /\ k = mined' - 1
  BY <1>0, <1>2, <1>4 DEF Shown
<1>31. Net!Generate(m)
  <2>1. /\ Net!FillNewBlock(Net!MineBlock(S, n, m, r), g, n) = E
        /\ Net!GenerateBlock(E, miners[m], n) = GenerateBlock(E, miners[m], n)
    BY SameBlocks, SameHandlers
  <2>2. n <= MaxBlock /\ mined' - 1 = n + 1 /\ g = miners[m].graph /\ mined - 1 = n
    <3>1. k = n + 1 /\ g = miners[m].graph
      BY <1>0
    <3> QED BY <1>4, <1>30, <3>1
  <2>3. miners' = [miners EXCEPT ![m] = Net!GenerateBlock(E, miners[m], n)]
    BY <1>28, <2>1
  <2> QED BY <1>8, <1>26, <1>27, <1>29, <1>30, <2>1, <2>2, <2>3 DEF Net!Generate
<1> QED BY <1>4, <1>25, <1>31

\* The end: all that is left is later.
LEMMA EndKeeps ==
    ASSUME SimInv, End
    PROVE  SimInv' /\ UNCHANGED Net!vars
<1>1. /\ timestamp' = Due /\ UNCHANGED <<queue, blocks, mined, miners, inFlight, nodes>>
      /\ Tables /\ Places
  BY DEF End, SimInv
<1>2. /\ Due \in Nat /\ timestamp \in Nat /\ timestamp <= Due /\ Size \in Nat /\ Size' = Size
      /\ \A e \in queue : Due <= e.timestamp
      /\ \A m \in Miners : NotLate(nodes[m], Due)
  BY <1>1, DueIs DEF Tables, Size
<1>3. QueueOK(queue, Size, Due)
  BY <1>1, <1>2, LaterQueue DEF Places
<1>4. ASSUME NEW m \in Miners PROVE SenderOK(m, nodes[m], Size, Due)
  <2>1. SenderOK(m, nodes[m], Size, timestamp) /\ NotLate(nodes[m], Due)
    BY <1>1, <1>2 DEF Places
  <2> QED BY <1>2, <2>1, SenderStays
<1>5. Places'
  BY <1>1, <1>2, <1>3, <1>4 DEF Places
<1>6. Packets' = Packets
  BY <1>1, PacketsAre, PacketsArePrimed
<1> QED BY <1>1, <1>2, <1>5, <1>6, OnlyPlaces

\* Nothing happens.
LEMMA StutterKeeps ==
    ASSUME SimInv, UNCHANGED vars
    PROVE  SimInv' /\ UNCHANGED Net!vars
<1>1. UNCHANGED <<timestamp, queue, blocks, mined, miners, inFlight, nodes>>
  BY DEF vars, oracleVars
<1>2. Packets' = Packets /\ Size' = Size
  BY <1>1, PacketsAre, PacketsArePrimed DEF Size
<1>3. Places' /\ timestamp' \in Nat
  BY <1>1, <1>2 DEF SimInv, Tables, Places
<1> QED BY <1>1, <1>2, <1>3, OnlyPlaces

\* The program starts with one block to come and nothing under way.
LEMMA SimInitially == Init => SimInv /\ Net!Init
<1> SUFFICES ASSUME Init PROVE SimInv /\ Net!Init
  OBVIOUS
<1>1. /\ timestamp = 0 /\ mined = 2 /\ Size = 1 /\ MaxBlock \in Nat /\ 1 <= MaxBlock
      /\ miners = [m \in Miners |->
                      [graph |-> Insert(GenesisTable, NewLocalGraph, Genesis), cache |-> <<>>]]
      /\ inFlight = [m \in Miners |-> {Genesis}]
      /\ nodes = [m \in Miners |-> NewNodeOutbound]
  BY BlockAssumption, OracleAssumption DEF Init, Size
<1>2. PICK m \in Miners, r \in 0..MaxResidual, s \in NextStamps(0, 1) :
        blocks = MineBlock(GenesisTable, 1, m, r) /\ queue = {GenBlock(s, 1)}
  BY DEF Init, Mine
<1>3. /\ TableOK(blocks, 1) /\ Agree(GenesisTable, blocks, 1) /\ blocks[1].minerID = m
  BY <1>1, <1>2, GenesisTableOK, MineKeepsTable
<1> PICK g : g = Insert(GenesisTable, NewLocalGraph, Genesis)
  OBVIOUS
<1>4. GraphOK(blocks, 1, g) /\ Genesis \in g.ledger /\ g \in Graph
  <2>1. GraphOK(GenesisTable, 1, NewLocalGraph)
    BY EmptyGraphOK
  <2>2. GraphOK(GenesisTable, 1, g) /\ Genesis \in g.ledger
    <3>1. Genesis \in 0..(1 - 1) /\ InsertResult(GenesisTable, NewLocalGraph, Genesis) = "Success"
      BY BlockAssumption DEF InsertResult, SeenAllAncestors, Parents, IsGenesis, GenesisTable,
         BlankBlock, NewLocalGraph, BlockIds, Genesis, None
    <3>2. GraphOK(GenesisTable, 1, g)
      BY <2>1, <3>1, GenesisTableOK, InsertKeepsGraph
    <3>3. g.ledger = NewLocalGraph.ledger \cup {Genesis}
      BY <2>1, <3>1, GenesisTableOK, InsertLedger
    <3> QED BY <3>2, <3>3
  <2>3. GraphOK(blocks, 1, g)
    BY <1>3, <2>2, GenesisTableOK, AgreeKeepsGraph
  <2> QED BY <2>2, <2>3 DEF GraphOK
<1>5. Tables
  <2>1. \A x \in Miners : miners[x].graph = g /\ miners[x].cache = <<>>
    BY <1>1
  <2>2. miners \in [Miners -> [graph : Graph, cache : Seq(0..(1 - 1))]]
    <3>1. <<>> \in Seq(0..(1 - 1))
      OBVIOUS
    <3> QED BY <1>1, <1>4, <3>1
  <2>3. inFlight \in [Miners -> SUBSET (0..(1 - 1))]
    BY <1>1 DEF Genesis
  <2> QED BY <1>1, <1>2, <1>3, <1>4, <2>1, <2>2, <2>3 DEF Tables
<1> PICK f : f = GenBlock(s, 1)
  OBVIOUS
<1>6. f.type = "GenBlock" /\ IsGenBlock(f, 1, 0)
  <2>1. s \in Nat /\ 0 <= s /\ (s <= Duration => 1 < MaxBlock)
    BY <1>1, <1>2, OracleAssumption DEF NextStamps
  <2> QED BY <2>1, QueueFields DEF IsGenBlock
<1>7. QueueOK(queue, 1, 0) /\ PacketsOf(queue) = {}
  <2>1. PacketEvents(queue) = {}
    BY <1>2, <1>6 DEF PacketEvents
  <2> QED BY <1>2, <1>6, <2>1, FS_Singleton DEF QueueOK, PacketsOf
<1>8. ASSUME NEW x, NEW n, NEW t \in Nat
      PROVE  SenderOK(x, NewNodeOutbound, n, t) /\ PacketsIn(NewNodeOutbound) = {}
  <2> PICK y : y = NewNodeOutbound
    OBVIOUS
  <2>1. /\ y.queue = {} /\ y.waiting = <<>> /\ y.wakeups = {} /\ y.lastWakeupT = 0
        /\ y \in NodeOutbound
    BY DEF NewNodeOutbound, NodeOutbound
  <2>2. LinkInv(y)
    BY <2>1, FS_EmptySet DEF LinkInv, LinkType, NotFinished, WakeupExact
  <2>3. Once(y.queue, y.waiting) /\ PacketsIn(y) = {}
    BY <2>1, InsideIs DEF Once, PacketsIn
  <2>4. NotLate(y, t) /\ y.lastWakeupT <= t
    BY <2>1 DEF NotLate
  <2> QED BY <2>2, <2>3, <2>4 DEF SenderOK
<1>9. Places
  <2>1. nodes \in [Miners -> NodeOutbound]
    BY <1>1, <1>8 DEF SenderOK, LinkInv, LinkType
  <2> QED BY <1>1, <1>7, <1>8, <2>1 DEF Places
<1>10. Packets = {}
  BY <1>1, <1>7, <1>8, PacketsAre
<1>11. Origins
  BY <1>10 DEF Origins, OriginsOK
<1>12. Net!Init
  <2>1. /\ GenesisTable \in [BlockIds -> Block]
        /\ \A b \in BlockIds : b < mined - 1 => blocks[b] = GenesisTable[b]
    <3>1. \A b \in BlockIds : b < mined - 1 => b \in 0..(1 - 1)
      BY <1>1 DEF BlockIds
    <3> QED BY <1>3, <3>1, GenesisTableOK DEF TableOK, Agree
  <2>2. [b \in BlockIds |-> IF b < mined - 1 THEN blocks[b] ELSE GenesisTable[b]] = GenesisTable
    BY <2>1
  <2>3. mined - 1 = 1
    BY <1>1
  <2> QED BY <1>1, <1>10, <2>2, <2>3, SameGenesis, SameInsert DEF Net!Init
<1> QED BY <1>5, <1>9, <1>11, <1>12 DEF SimInv

\* The conjunction is inductive.
THEOREM SimInductive == Spec => []SimInv
<1>1. Init => SimInv
  BY SimInitially
<1>2. SimInv /\ [Next]_vars => SimInv'
  <2> SUFFICES ASSUME SimInv, [Next]_vars PROVE SimInv'
    OBVIOUS
  <2>1. ASSUME NEW e \in queue, RunAt(e.timestamp),
               RunGenBlock(e) \/ RunConstructed(e) \/ RunINV(e) \/ RunGET(e) \/ RunSendBlock(e)
        PROVE  SimInv'
    BY <2>1, GenBlockKeeps, ConstructedKeeps, INVKeeps, GETKeeps, SendBlockKeeps
  <2>2. ASSUME NEW m \in Miners, NEW w \in nodes[m].wakeups, RunAt(w.timestamp), RunWakeup(m, w)
        PROVE  SimInv'
    BY <2>2, ComesOutKeeps
  <2>3. CASE End
    BY <2>3, EndKeeps
  <2>4. CASE UNCHANGED vars
    BY <2>4, StutterKeeps
  <2> QED BY <2>1, <2>2, <2>3, <2>4 DEF Next, Step, Terminated
<1> QED BY <1>1, <1>2, PTL DEF Spec

\* As many packets as there are things that hold one each.
LEMMA CountsAgree ==
    ASSUME NEW S, IsFiniteSet(S), NEW T, NEW f \in Bijection(S, T)
    PROVE  IsFiniteSet(T) /\ Cardinality(T) = Cardinality(S)
<1>1. ExistsBijection(S, T)
  BY DEF ExistsBijection
<1> QED BY <1>1, FS_Bijection

\* No packet is in two places (oracle.go, traffic.go): the oracle's queue and
\* its sender's link hold it once between them, however links, delays and
\* blocks follow each other.
THEOREM NeverInTwoPlaces == Spec => []OnePlace
<1>1. SimInv => OnePlace
  <2> SUFFICES ASSUME SimInv PROVE OnePlace
    OBVIOUS
  <2>1. /\ QueueOK(queue, Size, timestamp)
        /\ \A m \in Miners : /\ SenderOK(m, nodes[m], Size, timestamp)
                             /\ PacketsIn(nodes[m]) \cap PacketsOf(queue) = {}
    BY DEF SimInv, Places
  <2>2. Cardinality(PacketEvents(queue)) = Cardinality(PacketsOf(queue))
    <3> PICK S, T : S = PacketEvents(queue) /\ T = PacketsOf(queue)
      OBVIOUS
    <3>1. IsFiniteSet(S) /\ T = {e.packet : e \in S} /\ \A e, f \in S : e.packet = f.packet => e = f
      BY <2>1, FS_Subset DEF QueueOK, PacketEvents, PacketsOf
    <3>2. [e \in S |-> e.packet] \in Bijection(S, T)
      BY <3>1 DEF Bijection, Injection, Surjection, IsInjective
    <3>3. Cardinality(T) = Cardinality(S)
      BY <3>1, <3>2, CountsAgree
    <3> QED BY <3>3
  <2>3. ASSUME NEW m \in Miners
        PROVE  Cardinality(PacketsIn(nodes[m])) = Cardinality(nodes[m].queue) + Len(nodes[m].waiting)
    <3> PICK Q, W, A, B : /\ Q = nodes[m].queue /\ W = nodes[m].waiting
                          /\ A = {p.packet : p \in Q} /\ B = {W[i].packet : i \in DOMAIN W}
      OBVIOUS
    <3>1. IsFiniteSet(Q) /\ Once(Q, W) /\ W \in Seq(Packet)
      BY <2>1 DEF SenderOK, LinkInv, LinkType, NodeOutbound
    <3>2. PacketsIn(nodes[m]) = A \cup B
      BY InsideIs DEF PacketsIn
    <3>3. A \cap B = {}
      BY <3>1 DEF Once
    <3>4. IsFiniteSet(A) /\ Cardinality(A) = Cardinality(Q)
      <4>1. [p \in Q |-> p.packet] \in Bijection(Q, A)
        BY <3>1 DEF Once, Bijection, Injection, Surjection, IsInjective
      <4> QED BY <3>1, <4>1, CountsAgree
    <3>5. IsFiniteSet(B) /\ Cardinality(B) = Len(W)
      <4> PICK I, n : n = Len(W) /\ I = 1..n
        OBVIOUS
      <4>1. n \in Nat /\ DOMAIN W = I
        BY <3>1
      <4>2. IsFiniteSet(I) /\ Cardinality(I) = n
        <5>1. 1 \in Int /\ n \in Int
          BY <4>1
        <5>2. IsFiniteSet(1..n) /\ Cardinality(1..n) = IF 1 > n THEN 0 ELSE n - 1 + 1
          BY <5>1, FS_Interval
        <5> QED BY <4>1, <5>2
      <4>3. [i \in I |-> W[i].packet] \in Bijection(I, B)
        BY <3>1, <4>1 DEF Once, Bijection, Injection, Surjection, IsInjective
      <4> QED BY <4>2, <4>3, CountsAgree
    <3>6. Cardinality(A \cup B) = Cardinality(A) + Cardinality(B)
      <4>1. Cardinality(A \cup B) = Cardinality(A) + Cardinality(B) - Cardinality({})
        BY <3>3, <3>4, <3>5, FS_Union
      <4>2. Cardinality({}) = 0 /\ Cardinality(A) \in Nat /\ Cardinality(B) \in Nat
        BY <3>4, <3>5, FS_EmptySet, FS_CardinalityType
      <4> QED BY <4>1, <4>2
    <3> QED BY <3>2, <3>4, <3>5, <3>6
  <2>4. ASSUME NEW m \in Miners, NEW p \in PacketsIn(nodes[m])
        PROVE  p.from = m /\ p \notin PacketsOf(queue)
    BY <2>1 DEF SenderOK
  <2>5. /\ {e \in queue : e.type # "GenBlock"} = PacketEvents(queue)
        /\ QueuedPackets = PacketsOf(queue) /\ \A m \in Miners : LinkPackets(m) = PacketsIn(nodes[m])
    BY PacketsAre DEF PacketEvents
  <2> QED BY <2>2, <2>3, <2>4, <2>5 DEF OnePlace
<1> QED BY <1>1, SimInductive, PTL

\* Where RunWakeup and RunConstructed have no step the code ends the program:
\* the wakeups of all the links find their packets, finished up to the
\* tolerance, and no link that a packet goes into or comes out of sets its
\* wakeup before lastWakeupT is the present.
LinksSucceed ==
    /\ \A m \in Miners : \A w \in nodes[m].wakeups :
          LET s == Woken(nodes[m], w)
          IN  /\ Firsts(s) # {}
              /\ \A p \in Firsts(s) : ~PopEventFails(s, w.timestamp, p)
    /\ \A e \in queue : e.type = "constructed" /\ e.timestamp = Due =>
          ~AddEventFails(nodes[e.packet.from], Due, Outbound(e.packet))

\* The fatal errors of traffic.go never end the program, whatever the network
\* does with the links.
THEOREM NoFatalErrorInAnyLink == Spec => []LinksSucceed
<1>1. ASSUME SimInv, NEW m \in Miners, NEW w \in nodes[m].wakeups
      PROVE  LET s == Woken(nodes[m], w)
             IN  /\ Firsts(s) # {}
                 /\ \A p \in Firsts(s) : ~PopEventFails(s, w.timestamp, p)
  <2> PICK n, t, z, s : n = Size /\ t = timestamp /\ z = nodes[m] /\ s = Woken(z, w)
    OBVIOUS
  <2>1. SenderOK(m, z, n, t) /\ t \in Nat /\ w \in z.wakeups
    BY <1>1 DEF SimInv, Tables, Places
  <2>2. (\E p \in z.queue : p \in Firsts(s)) /\ \A p \in Firsts(s) : ~PopEventFails(s, w.timestamp, p)
    BY <2>1, SenderPops
  <2> QED BY <2>2
<1>2. ASSUME SimInv, NEW e \in queue, e.type = "constructed", e.timestamp = Due
      PROVE  ~AddEventFails(nodes[e.packet.from], Due, Outbound(e.packet))
  <2> PICK n, p, m, t, u : n = Size /\ p = e.packet /\ m = p.from /\ t = timestamp /\ u = Due
    OBVIOUS
  <2>1. /\ n \in Nat /\ n <= MaxBlock + 1 /\ t \in Nat /\ u \in Nat /\ t <= u
        /\ QueueOK(queue, n, t) /\ \A k \in Miners : NotLate(nodes[k], u)
    BY <1>2, DueIs, BlockAssumption DEF SimInv, Tables, Places
  <2>2. p \in NetPackets(n) /\ m \in Miners
    <3>1. IsPacketEvent(e, n, t)
      BY <1>2, <2>1, QueueKinds DEF QueueOK
    <3>2. p \in NetPackets(n)
      BY <3>1 DEF IsPacketEvent
    <3> QED BY <3>2, NetPacketFields
  <2> PICK s : s = nodes[m]
    OBVIOUS
  <2>3. SenderOK(m, s, n, t) /\ NotLate(s, u) /\ p \notin PacketsIn(s)
    <3>1. p \in PacketsOf(queue)
      BY <1>2 DEF PacketsOf, PacketEvents
    <3> QED BY <1>2, <2>1, <2>2, <3>1 DEF SimInv, Places
  <2>4. ~AddEventFails(s, u, Outbound(p))
    BY <2>1, <2>2, <2>3, SenderAdds
  <2> QED BY <2>4
<1>3. SimInv => LinksSucceed
  BY <1>1, <1>2 DEF LinksSucceed
<1> QED BY <1>3, SimInductive, PTL

\* Whatever its times, its queue and its links, the program does with miners and
\* packets what BitcoinNetwork.tla lets them do in any order (net_bitcoin.go),
\* or nothing, while a packet goes in or comes out of a link.  Progress is left
\* to ImplementsNetwork.
THEOREM NetworkSteps == Spec => Net!Init /\ [][Net!Next]_(Net!vars)
<1>1. Init => Net!Init
  BY SimInitially
<1>2. SimInv /\ [Next]_vars => [Net!Next]_(Net!vars)
  <2> SUFFICES ASSUME SimInv, [Next]_vars PROVE Net!Next \/ UNCHANGED Net!vars
    OBVIOUS
  <2>1. ASSUME NEW e \in queue, RunAt(e.timestamp), RunGenBlock(e)
        PROVE  Net!Next
    BY <2>1, GenBlockKeeps DEF Net!Next
  <2>2. ASSUME NEW e \in queue, RunAt(e.timestamp), RunINV(e) \/ RunGET(e) \/ RunSendBlock(e)
        PROVE  Net!Next
    <3>1. e.packet \in Packets
      <4>1. e.type # "GenBlock"
        BY <2>2 DEF RunINV, RunGET, RunSendBlock
      <4> QED BY <4>1, PacketOfEvent
    <3>2. \/ Net!ReceiveINV(e.packet) \/ Net!SendCompact(e.packet)
          \/ Net!SendData(e.packet) \/ Net!ReceiveData(e.packet)
      BY <2>2, INVKeeps, GETKeeps, SendBlockKeeps
    <3> QED BY <3>1, <3>2 DEF Net!Next
  <2>3. ASSUME NEW e \in queue, RunAt(e.timestamp), RunConstructed(e)
        PROVE  UNCHANGED Net!vars
    BY <2>3, ConstructedKeeps
  <2>4. ASSUME NEW m \in Miners, NEW w \in nodes[m].wakeups, RunAt(w.timestamp), RunWakeup(m, w)
        PROVE  UNCHANGED Net!vars
    BY <2>4, ComesOutKeeps
  <2>5. CASE End
    BY <2>5, EndKeeps
  <2>6. CASE UNCHANGED vars
    BY <2>6, StutterKeeps
  <2> QED BY <2>1, <2>2, <2>3, <2>4, <2>5, <2>6 DEF Next, Step, Terminated
<1> QED BY <1>1, <1>2, SimInductive, PTL DEF Spec
=============================================================================
