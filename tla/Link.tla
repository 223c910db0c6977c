-------------------------------- MODULE Link --------------------------------
(***************************************************************************)
(* The outbound link of one miner (traffic.go), as functions of its state: *)
(* the packets in queue share the bandwidth equally, packets that do not   *)
(* fit in the buffer wait, and one WakeupTrafficEvent in the oracle's      *)
(* queue stands for the moment the first packet has been sent.  accSize is *)
(* the number of bytes each packet of a queue that was never empty would   *)
(* have been sent by lastWakeupT; a packet pushed at accSize a is finished *)
(* when accSize is a + size.                                               *)
(*                                                                         *)
(* Abstractions: Bandwidth is in bytes per tick of the oracle's clock and  *)
(* products and quotients are exact (float64 in the code) up to the        *)
(* conversion to int64, which truncates.                                   *)
(***************************************************************************)
EXTENDS Integers, SequencesExt, FiniteSetsExt

CONSTANTS BufferSize, \* sender.bufferSize
          Bandwidth,  \* sender.bandwidth / oracle.timePrecision
          Tolerance   \* 100*bytes in popEvent

ASSUME LinkAssumption == /\ BufferSize \in Nat \ {0} /\ Bandwidth \in Nat \ {0}
                         /\ Tolerance \in Nat /\ Bandwidth <= Tolerance

\* queue is a set of packets and waiting a sequence: a packet has a size, an
\* accSize and what tells it from the others.  wakeups holds the
\* WakeupTrafficEvents in the oracle's queue: the timestamp of each and
\* whether nextWakeupE points to it (current).
NewNodeOutbound == [accSize |-> 0, lastWakeupT |-> 0, queue |-> {},
                    waiting |-> <<>>, buffer |-> 0, wakeups |-> {}]

-----------------------------------------------------------------------------
\* The packets Peek and heap.Pop may return.
Firsts(s) == {p \in s.queue : \A q \in s.queue : p.accSize <= q.accSize}

FirstAcc(s) == (CHOOSE p \in Firsts(s) : TRUE).accSize

NextWakeup(s, t) ==
    t + Max({0, ((FirstAcc(s) - s.accSize) * Cardinality(s.queue)) \div Bandwidth})

\* nextWakeupE is nil or has left the oracle's queue: a new event; else the
\* time of the event is changed.  Two mutants: it is not, or it always is a
\* new event.
UpdateNextWakeupStale(s, t) ==
    IF s.queue = {} \/ s.wakeups # {} THEN s
    ELSE [s EXCEPT !.wakeups = {[timestamp |-> NextWakeup(s, t), current |-> TRUE]}]

UpdateNextWakeupAnew(s, t) ==
    IF s.queue = {} THEN s
    ELSE [s EXCEPT !.wakeups = @ \cup {[timestamp |-> NextWakeup(s, t), current |-> TRUE]}]

UpdateNextWakeup(s, t) ==
    LET others == {w \in s.wakeups : ~w.current}
    IN  IF s.queue = {}
        THEN [s EXCEPT !.wakeups = {[w EXCEPT !.current = FALSE] : w \in @}]
        ELSE [s EXCEPT !.wakeups =
                  others \cup {[timestamp |-> NextWakeup(s, t), current |-> TRUE]}]

\* accSize at time t.
Elapse(s, t) ==
    [s EXCEPT !.lastWakeupT = t,
              !.accSize = @ + (IF s.queue = {} THEN 0
                               ELSE ((t - s.lastWakeupT) * Bandwidth) \div Cardinality(s.queue))]

\* A mutant: accSize stays, and what the queue was sent meanwhile is lost.
PushEventStopped(s, t, p) ==
    UpdateNextWakeup(
        [s EXCEPT !.lastWakeupT = t,
                  !.queue = @ \cup {[p EXCEPT !.accSize = s.accSize + p.size]},
                  !.buffer = @ + p.size], t)

PushEvent(s, t, p) ==
    LET e == Elapse(s, t)
    IN  UpdateNextWakeup(
            [e EXCEPT !.queue = @ \cup {[p EXCEPT !.accSize = e.accSize + p.size]},
                      !.buffer = @ + p.size], t)

Fits(s, p) == s.buffer + p.size < BufferSize

AddEvent(s, t, p) ==
    IF Fits(s, p) THEN PushEvent(s, t, p) ELSE [s EXCEPT !.waiting = Append(@, p)]

\* Two mutants: nothing is pulled, or the packet that came last is.
PullNothing(s, t) == UpdateNextWakeup(s, t)

PullLast(s, t) ==
    IF s.waiting # <<>> /\ Fits(s, Last(s.waiting))
    THEN PushEvent([s EXCEPT !.waiting = Front(@)], t, Last(s.waiting))
    ELSE UpdateNextWakeup(s, t)

PullWaitingListAndUpdate(s, t) ==
    IF s.waiting # <<>> /\ Fits(s, Head(s.waiting))
    THEN PushEvent([s EXCEPT !.waiting = Tail(@)], t, Head(s.waiting))
    ELSE UpdateNextWakeup(s, t)

\* popEvent when p is the packet heap.Pop returns.  A mutant: the packet is
\* only looked at.
PopEventPeek(s, t, p) == PullWaitingListAndUpdate(Elapse(s, t), t)

PopEvent(s, t, p) ==
    PullWaitingListAndUpdate(
        [Elapse(s, t) EXCEPT !.queue = @ \ {p}, !.buffer = @ - p.size], t)

(***************************************************************************)
(* The errors that end the program.                                        *)
(***************************************************************************)
\* log.Fatalf of popEvent.
OutOfTolerance(s, t, p) ==
    LET acc == Elapse(s, t).accSize
    IN  p.accSize - acc > Tolerance \/ acc - p.accSize > Tolerance

\* log.Panic and log.Fatal of updateNextWakeup, which has led to s at time t
\* and changes neither queue nor lastWakeupT.
ForgetsLastWakeupT(s, t) == s.queue # {} /\ s.lastWakeupT # t

\* addEvent of a packet that has to wait calls nothing.
AddEventFails(s, t, p) == Fits(s, p) /\ ForgetsLastWakeupT(AddEvent(s, t, p), t)

PopEventFails(s, t, p) == OutOfTolerance(s, t, p) \/ ForgetsLastWakeupT(PopEvent(s, t, p), t)
=============================================================================
