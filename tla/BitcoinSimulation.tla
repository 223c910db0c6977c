-------------------------- MODULE BitcoinSimulation --------------------------
(***************************************************************************)
(* The program as main.go runs it by default: the oracle, its miners,      *)
(* BitcoinNetwork and the links of Traffic, with the time of everything.   *)
(* One step is one iteration of Oracle.run.  What a packet does when it    *)
(* has come is taken from BitcoinNetwork.tla, what a link does from        *)
(* Link.tla; this module has the ways between them.                        *)
(*                                                                         *)
(* Abstractions: the wakeups are in the links, whose state holds their     *)
(* times, and the other events in queue; as in BitcoinNetwork.tla the      *)
(* behaviours start when genesis has been delivered.                       *)
(***************************************************************************)
EXTENDS HonestMiner, Oracle, Link

CONSTANTS Peers, Attackers, RelayImpl,  \* as in BitcoinNetwork.tla
          VerifyTime,   \* bn.verifyTime
          Pings,        \* what pingDelay may return
          BlockSize,    \* blockSize_
          CompactSize   \* blockSize_/50

ASSUME SimulationAssumption == /\ VerifyTime \in Nat /\ Pings \subseteq Nat
                               /\ BlockSize \in Nat \ {0} /\ CompactSize \in Nat \ {0}

VARIABLES miners,   \* o.miners: the graph and the cache of each
          inFlight, \* bn.inFlight
          nodes     \* traffic.nodes, from the start

vars == <<oracleVars, miners, inFlight, nodes>>

\* An event of a packet whose status is constructed or sending; SendBlock
\* events, which are no packets, count as sending.
Constructed(t, p) == [type |-> "constructed", timestamp |-> t, packet |-> p]
Sending(t, p)     == [type |-> "sending", timestamp |-> t, packet |-> p]

\* The packets in the oracle's queue, and those in a link.
QueuedPackets == {e.packet : e \in {f \in queue : f.type # "GenBlock"}}
LinkPackets(m) == {p.packet : p \in nodes[m].queue \cup ToSet(nodes[m].waiting)}

-----------------------------------------------------------------------------
\* What is under way, and the blocks that have been generated; the last one
\* mined waits for its time.
Packets == QueuedPackets \cup UNION {LinkPackets(m) : m \in Miners}

Net == INSTANCE BitcoinNetwork WITH
           blocks    <- [b \in BlockIds |-> IF b < mined - 1 THEN blocks[b] ELSE GenesisTable[b]],
           generated <- mined - 1,
           packets   <- Packets

\* See PeersAssumption of BitcoinNetwork.tla; numMiners is a number.
ASSUME NetworkAssumption ==
    /\ IsFiniteSet(Miners) /\ Attackers \subseteq Miners /\ Cardinality(Attackers) <= 1
    /\ RelayImpl \in {0, 1} /\ Peers \in Net!PeerLists(Miners)

-----------------------------------------------------------------------------
\* The time an announcement needs to be verified and an express event to be
\* sent.
Announce(t, packets) ==
    {Sending(t + (IF p.type = "INV" THEN VerifyTime ELSE 1), p) : p \in packets}

\* The request takes two ways, the block itself one.
Requested(t, p, ping) == Constructed(t + 2 * ping, p)
Delivered(t, p, ping) == Sending(t + ping, p)

SizeOf(p) == IF p.type = "GETCompact" THEN CompactSize ELSE BlockSize

\* What addEvent is given.
Outbound(p) == [packet |-> p, size |-> SizeOf(p), accSize |-> 0]

\* The time of the event that the oracle pops.
Due == Min({e.timestamp : e \in queue}
               \cup UNION {{w.timestamp : w \in nodes[m].wakeups} : m \in Miners})

RunAt(t) == /\ running /\ t = Due /\ t <= Duration
            /\ timestamp' = t
            /\ UNCHANGED running

Init == /\ timestamp = 0
        /\ running = TRUE
        /\ mined = 2
        /\ \E m \in Miners, r \in 0..MaxResidual, stamp \in NextStamps(0, 1) :
             LET next == Mine(GenesisTable, 0, 1, m, r, stamp)
             IN  blocks = next.blocks /\ queue = {next.event}
        /\ miners = [m \in Miners |->
                        [graph |-> Insert(GenesisTable, NewLocalGraph, Genesis), cache |-> <<>>]]
        /\ inFlight = [m \in Miners |-> {Genesis}]
        /\ nodes = [m \in Miners |-> NewNodeOutbound]

\* GenBlockEvent.Run with Broadcast.
RunGenBlock(e) ==
    /\ e.type = "GenBlock"
    /\ LET m      == blocks[e.block].minerID
           filled == FillNewBlock(blocks, miners[m].graph, e.block)
       IN  /\ miners' = [miners EXCEPT ![m] = GenerateBlock(filled, @, e.block)]
           /\ inFlight' = Net!BroadcastInFlight(inFlight, m, e.block)
           /\ \E n \in Miners, r \in 0..MaxResidual, stamp \in NextStamps(e.timestamp, mined) :
                LET next == Mine(filled, e.timestamp, mined, n, r, stamp)
                IN  /\ blocks' = next.blocks
                    /\ queue' = Enqueue(queue \ {e},
                                        Announce(e.timestamp, Net!BroadcastEvents(m, e.block))
                                            \cup {next.event},
                                        e.timestamp)
    /\ mined' = mined + 1
    /\ UNCHANGED nodes

\* PacketEvent.Run, constructed: the packet goes into the sender's link.  Where
\* an error of traffic.go ends the program, here or below, there is no step.
RunConstructed(e) ==
    /\ e.type = "constructed"
    /\ ~AddEventFails(nodes[e.packet.from], e.timestamp, Outbound(e.packet))
    /\ nodes' = [nodes EXCEPT ![e.packet.from] = AddEvent(@, e.timestamp, Outbound(e.packet))]
    /\ queue' = queue \ {e}
    /\ UNCHANGED <<blocks, mined, miners, inFlight>>

\* WakeupTrafficEvent.Run: the first one comes out.  popEvent of an empty link
\* is an error too.
RunWakeup(m, w) ==
    LET s == [nodes[m] EXCEPT !.wakeups = @ \ {w}] IN
    /\ \E p \in Firsts(s), ping \in Pings :
         /\ ~PopEventFails(s, w.timestamp, p)
         /\ nodes' = [nodes EXCEPT ![m] = PopEvent(s, w.timestamp, p)]
         /\ queue' = Enqueue(queue, {Delivered(w.timestamp, p.packet, ping)}, w.timestamp)
    /\ UNCHANGED <<blocks, mined, miners, inFlight>>

\* INVPacketEvent.Sent.
RunINV(e) ==
    /\ e.type = "sending" /\ e.packet.type = "INV"
    /\ IF e.packet.block \in inFlight[e.packet.to]
       THEN queue' = queue \ {e} /\ UNCHANGED inFlight
       ELSE /\ \E ping \in Pings :
                 queue' = Enqueue(queue \ {e},
                                  {Requested(e.timestamp, Net!Request(e.packet), ping)},
                                  e.timestamp)
            /\ inFlight' = Net!RequestInFlight(inFlight, e.packet)
    /\ UNCHANGED <<blocks, mined, miners, nodes>>

\* GETCompactPacketEvent.Sent and GETPacketEvent.Sent.
RunGET(e) ==
    /\ e.type = "sending" /\ e.packet.type \in {"GETCompact", "GET"}
    /\ \E ping \in Pings :
         queue' = Enqueue(queue \ {e},
                          {IF e.packet.type = "GETCompact"
                           THEN Requested(e.timestamp, [e.packet EXCEPT !.type = "GET"], ping)
                           ELSE Delivered(e.timestamp, [e.packet EXCEPT !.type = "SendBlock"], ping)},
                          e.timestamp)
    /\ UNCHANGED <<blocks, mined, miners, inFlight, nodes>>

\* SendBlockEvent.Run with Relay of every block that enters the graph.
RunSendBlock(e) ==
    /\ e.type = "sending" /\ e.packet.type = "SendBlock"
    /\ LET m == e.packet.to
           r == ReceiveBlock(blocks, miners[m], e.packet.block)
       IN  /\ miners' = [miners EXCEPT ![m] = [graph |-> r.graph, cache |-> r.cache]]
           /\ inFlight' = [inFlight EXCEPT ![m] = @ \cup ToSet(r.relays)]
           /\ queue' = Enqueue(queue \ {e},
                               Announce(e.timestamp,
                                        UNION {Net!SendToAllPeer(m, b) : b \in ToSet(r.relays)}),
                               e.timestamp)
    /\ UNCHANGED <<blocks, mined, nodes>>

Step == \/ \E e \in queue :
             /\ RunAt(e.timestamp)
             /\ \/ RunGenBlock(e) \/ RunConstructed(e) \/ RunINV(e)
                \/ RunGET(e) \/ RunSendBlock(e)
        \/ \E m \in Miners : \E w \in nodes[m].wakeups : RunAt(w.timestamp) /\ RunWakeup(m, w)

\* The event popped is past the duration; the rest is lost with the queue.
End == /\ running /\ Due > Duration
       /\ timestamp' = Due
       /\ running' = FALSE
       /\ UNCHANGED <<queue, blocks, mined, miners, inFlight, nodes>>

Terminated == ~running /\ UNCHANGED vars

Next == Step \/ End \/ Terminated

\* The loop of Oracle.run, as in Simulation.tla.
Progress == []<>(~running) \/ []<><<TRUE>>_vars

Spec == Init /\ [][Next]_vars /\ Progress

-----------------------------------------------------------------------------
\* No packet is in two places: it is in the oracle's queue once, or in its
\* sender's link, where it is being sent or waits, once.
OnePlace ==
    /\ Cardinality({e \in queue : e.type # "GenBlock"}) = Cardinality(QueuedPackets)
    /\ \A m \in Miners :
         /\ Cardinality(LinkPackets(m)) = Cardinality(nodes[m].queue) + Len(nodes[m].waiting)
         /\ \A p \in LinkPackets(m) : p.from = m /\ p \notin QueuedPackets

\* With its times, its queue and its links the program does what
\* BitcoinNetwork.tla lets the packets do in any order; and no packet stays
\* in a link or in the queue, if the duration leaves time for it.
ImplementsNetwork == Net!Spec
=============================================================================
