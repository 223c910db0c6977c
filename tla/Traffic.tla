------------------------------- MODULE Traffic -------------------------------
(***************************************************************************)
(* One link (Link.tla) and the oracle, which hands packets over at any     *)
(* time and wakes the link up when it has asked for it.  Senders do not    *)
(* interact, so one NodeOutbound is the whole of traffic.go.               *)
(***************************************************************************)
EXTENDS Link

CONSTANTS MaxPacket,  \* bound: how many packets the miner sends
          MaxTime,    \* bound: no packet is handed over later
          Sizes       \* the sizes of packets

ASSUME TrafficAssumption == /\ MaxPacket \in Nat /\ MaxTime \in Nat
                            /\ Sizes \subseteq Nat \ {0}

VARIABLES now,       \* oracle.timestamp
          sender,    \* the NodeOutbound
          delivered, \* the packets whose status is sending, in order
          arrived,   \* how many packets addEvent has been called on
          busy,      \* how long queue has been non-empty, up to lastWakeupT
          aborted    \* log.Fatal or log.Panic has ended the program

trafficVars == <<now, sender, delivered, arrived, busy, aborted>>

-----------------------------------------------------------------------------
TrafficInit == /\ now = 0
               /\ sender = NewNodeOutbound
               /\ delivered = <<>>
               /\ arrived = 0
               /\ busy = 0
               /\ aborted = FALSE

\* The oracle runs what happens at time t next: no wakeup comes earlier.
MayRunAt(t) == /\ ~aborted
               /\ t >= now
               /\ \A w \in sender.wakeups : t <= w.timestamp
               /\ now' = t

BusyUntil(t) == IF sender.queue = {} THEN busy ELSE busy + (t - sender.lastWakeupT)

\* PacketEvent.Run of a packet whose status is constructed.
HandOver(t, size) ==
    LET p == [packet |-> arrived + 1, size |-> size, accSize |-> 0]
    IN  /\ arrived < MaxPacket
        /\ MayRunAt(t)
        /\ arrived' = arrived + 1
        /\ sender' = AddEvent(sender, t, p)
        /\ busy' = IF Fits(sender, p) THEN BusyUntil(t) ELSE busy
        /\ aborted' = AddEventFails(sender, t, p)
        /\ UNCHANGED delivered

\* WakeupTrafficEvent.Run, which has left the oracle's queue.
Wakeup(w) ==
    LET s == [sender EXCEPT !.wakeups = @ \ {w}]
    IN  /\ MayRunAt(w.timestamp)
        /\ IF s.queue = {}
           THEN aborted' = TRUE /\ UNCHANGED <<sender, delivered, busy>>
           ELSE \E p \in Firsts(s) :
                  /\ busy' = BusyUntil(w.timestamp)
                  /\ aborted' = PopEventFails(s, w.timestamp, p)
                  /\ sender' = PopEvent(s, w.timestamp, p)
                  /\ delivered' = Append(delivered, p)
        /\ UNCHANGED arrived

TrafficNext == \/ \E t \in 0..MaxTime, size \in Sizes : HandOver(t, size)
               \/ \E w \in sender.wakeups : Wakeup(w)

\* The oracle pops every event it has queued, as long as the duration of the
\* simulation allows; it need not ever see another packet.
TrafficSpec == /\ TrafficInit /\ [][TrafficNext]_trafficVars
               /\ WF_trafficVars(\E w \in sender.wakeups : Wakeup(w))

-----------------------------------------------------------------------------
\* None of the errors of traffic.go ends the program.  In popEvent, a wakeup
\* always finds its packet, and finds it finished up to what rounding the
\* time to a tick leaves, however often other packets have moved it; and
\* updateNextWakeup always finds accSize brought up to the present.
NeverAborts == ~aborted

SizesOf(packets) == MapThenSumSet(LAMBDA p : p.size, packets)

\* No wakeup is lost and none is left over: as long as packets are being
\* sent there is exactly one, and nextWakeupE points to it.  buffer counts
\* the bytes of the queue and stays below bufferSize; if nothing is being
\* sent, packets wait only behind one that could never fit.
LinkExact ==
    /\ \A w \in sender.wakeups : w.current
    /\ Cardinality(sender.wakeups) = (IF sender.queue = {} THEN 0 ELSE 1)
    /\ sender.buffer = SizesOf(sender.queue)
    /\ sender.buffer < BufferSize
    /\ sender.queue = {} /\ sender.waiting # <<>> => Head(sender.waiting).size >= BufferSize

\* All the packets so far have one size.
OneSize == \A p, q \in sender.queue \cup ToSet(sender.waiting) \cup ToSet(delivered) :
    p.size = q.size

\* Packets of one size are sent in the order they came, whether they had to
\* wait or not; two may change places only if they are finished together.
NoOvertaking == OneSize => \A i, j \in DOMAIN delivered :
    i < j /\ delivered[i].packet > delivered[j].packet => delivered[i].accSize = delivered[j].accSize

\* What the packets have been sent: all of the delivered ones, and of the
\* others what accSize says.
SentOf(packets, acc) == MapThenSumSet(LAMBDA p : p.size - (p.accSize - acc), packets)

Served == SizesOf(ToSet(delivered)) + SentOf(sender.queue, sender.accSize)

\* The link sends what its bandwidth allows while it is busy, neither more
\* nor less: a delivered packet may be short of one tick, and each rounding
\* of accSize (one per arrival and per delivery) loses less than a byte for
\* each packet of the queue, which holds no more than have arrived.
BandwidthKept ==
    /\ Served <= Bandwidth * busy + (Bandwidth + 1) * Len(delivered)
    /\ Served >= Bandwidth * busy - arrived * (arrived + Len(delivered))

\* Packet i waits at or behind a packet as large as the buffer.
Stuck(i) == \E j, k \in DOMAIN sender.waiting :
    j <= k /\ sender.waiting[k].packet = i /\ sender.waiting[j].size >= BufferSize

\* Every packet is sent, those that had to wait too, except what comes to
\* wait at or behind a packet of bufferSize or more: that one stays at the
\* head of waiting for ever (traffic.go:66, 80), and no check or message
\* says so.
EventuallySent == \A i \in 1..MaxPacket :
    arrived >= i ~> Stuck(i) \/ \E p \in ToSet(delivered) : p.packet = i
=============================================================================
