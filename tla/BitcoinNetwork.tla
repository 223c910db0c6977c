--------------------------- MODULE BitcoinNetwork ---------------------------
(***************************************************************************)
(* BitcoinNetwork (net_bitcoin.go), the network of main.go, with its       *)
(* miners.  A miner announces a block to its peers once the block is in    *)
(* its graph (INV), a peer that has not asked for the block yet requests   *)
(* it, and the sender's link (Traffic.tla) delivers it.  The attacker asks *)
(* nobody and announces nothing: it is sent every block when the block is  *)
(* broadcast, and its own blocks are sent to everybody.                    *)
(*                                                                         *)
(* Abstractions: events run in any order, which covers every verification  *)
(* time, ping delay and queue of a link; the block table keeps the order   *)
(* of the indexes.  A GET packet stands for the request on its way, the    *)
(* packet in the link, and the data on its way.  The behaviours start when *)
(* the SendBlock events of genesis have run, which all have timestamp 0;   *)
(* the INVs of genesis find it in flight everywhere and are left out.      *)
(* A miner's list of peers is given by how often it holds each miner: its  *)
(* order only decides which of several events of one time runs first.      *)
(***************************************************************************)
EXTENDS HonestMiner

CONSTANTS Peers,     \* bn.peers: how often each miner is in the list of each
          Attackers, \* bn.attacker, at most one miner in the code
          RelayImpl  \* bn.relayImpl: 1 to send a compact block first

Honest == Miners \ Attackers

ToPeers(S) == {p \in Miners : \E m \in S : Peers[m][p] > 0}

\* What Setup guarantees of the lists: see LinksMutual of BitcoinSetup.tla.
PeerLists(S) == {P \in [S -> [S -> 0..2]] : \A m, p \in S : P[m][p] > 0 <=> P[p][m] > 0}

ASSUME PeersAssumption ==
    /\ Attackers \subseteq Miners /\ Cardinality(Attackers) <= 1 /\ RelayImpl \in {0, 1}
    /\ Peers \in PeerLists(Miners)

\* What Setup does not: that the honest miners are connected.
ASSUME ConnectedAssumption ==
    \A S \in SUBSET Honest : S \notin {{}, Honest} => (ToPeers(S) \cap Honest) \ S # {}

VARIABLES blocks,    \* o.blocks
          generated, \* how many blocks have edges
          miners,    \* o.miners: the graph and the cache of each
          inFlight,  \* bn.inFlight
          packets    \* the packets and SendBlock events that are under way

vars == <<blocks, generated, miners, inFlight, packets>>

SendBlock(m, to, b) == [type |-> "SendBlock", from |-> m, to |-> to, block |-> b]

\* slot tells the places of the receiver in the sender's list apart.
SendToAllPeer(m, b) ==
    IF m \in Attackers THEN {}
    ELSE UNION {{[type |-> "INV", from |-> m, to |-> p, block |-> b, slot |-> i] :
                    i \in 1..Peers[m][p]} : p \in Miners}

\* The receivers of expressRelay and of expressBroadcast.
Expressed(m) == Attackers \cup (IF m \in Attackers THEN Miners \ {m} ELSE {})

\* What Broadcast leaves in flight.  Two mutants: not at the receivers of the
\* express events, or not at the sender.
BroadcastInFlightSender(f, m, b) == [f EXCEPT ![m] = @ \cup {b}]

BroadcastInFlightExpress(f, m, b) ==
    [n \in Miners |-> f[n] \cup (IF n \in Expressed(m) THEN {b} ELSE {})]

BroadcastInFlight(f, m, b) ==
    [n \in Miners |-> f[n] \cup (IF n \in Expressed(m) \cup {m} THEN {b} ELSE {})]

BroadcastEvents(m, b) ==
    SendToAllPeer(m, b) \cup {SendBlock(m, n, b) : n \in Expressed(m)}

\* The receiver asks for the block.
RequestInFlight(f, e) == [f EXCEPT ![e.to] = @ \cup {e.block}]

Request(e) == [type |-> IF RelayImpl = 0 THEN "GET" ELSE "GETCompact",
               from |-> e.from, to |-> e.to, block |-> e.block]

-----------------------------------------------------------------------------
Init == /\ blocks = GenesisTable
        /\ generated = 1
        /\ miners = [m \in Miners |->
                        [graph |-> Insert(GenesisTable, NewLocalGraph, Genesis), cache |-> <<>>]]
        /\ inFlight = [m \in Miners |-> {Genesis}]
        /\ packets = {}

\* GenBlockEvent.Run, the block mined by m: GenerateBlock and Broadcast.
Generate(m) ==
    /\ generated <= MaxBlock
    /\ \E r \in 0..MaxResidual :
         LET b      == generated
             filled == FillNewBlock(MineBlock(blocks, b, m, r), miners[m].graph, b)
         IN  /\ blocks' = filled
             /\ miners' = [miners EXCEPT ![m] = GenerateBlock(filled, @, b)]
             /\ inFlight' = BroadcastInFlight(inFlight, m, b)
             /\ packets' = packets \cup BroadcastEvents(m, b)
    /\ generated' = generated + 1

\* INVPacketEvent.Sent.
ReceiveINV(e) ==
    /\ e.type = "INV"
    /\ IF e.block \in inFlight[e.to]
       THEN /\ packets' = packets \ {e}
            /\ UNCHANGED inFlight
       ELSE /\ packets' = (packets \ {e}) \cup {Request(e)}
            /\ inFlight' = RequestInFlight(inFlight, e)
    /\ UNCHANGED <<blocks, generated, miners>>

\* A packet has passed the sender's link.  GETCompactPacketEvent.Sent: now the
\* whole block goes the same way.
SendCompact(e) ==
    /\ e.type = "GETCompact"
    /\ packets' = (packets \ {e}) \cup {[e EXCEPT !.type = "GET"]}
    /\ UNCHANGED <<blocks, generated, miners, inFlight>>

\* GETPacketEvent.Sent.
SendData(e) ==
    /\ e.type = "GET"
    /\ packets' = (packets \ {e}) \cup {SendBlock(e.from, e.to, e.block)}
    /\ UNCHANGED <<blocks, generated, miners, inFlight>>

\* SendBlockEvent.Run: ReceiveBlock of the receiver, and Relay of every block
\* that has entered its graph.
ReceiveData(e) ==
    /\ e.type = "SendBlock"
    /\ LET r == ReceiveBlock(blocks, miners[e.to], e.block)
       IN  /\ miners' = [miners EXCEPT ![e.to] = [graph |-> r.graph, cache |-> r.cache]]
           /\ inFlight' = [inFlight EXCEPT ![e.to] = @ \cup ToSet(r.relays)]
           /\ packets' = (packets \ {e}) \cup
                         UNION {SendToAllPeer(e.to, b) : b \in ToSet(r.relays)}
    /\ UNCHANGED <<blocks, generated>>

Next == \/ \E m \in Miners : Generate(m)
        \/ \E e \in packets : ReceiveINV(e) \/ SendCompact(e) \/ SendData(e) \/ ReceiveData(e)

\* The oracle pops every event it has queued: see EventuallySent of
\* Traffic.tla for the packets in a link.
Progress == []<>(packets = {}) \/ []<><<\E e \in packets : e \notin packets'>>_vars

Spec == Init /\ [][Next]_vars /\ Progress

-----------------------------------------------------------------------------
\* The blocks a miner has received or generated.
Has(m) == miners[m].graph.ledger \cup ToSet(miners[m].cache)

\* The requests and the data for block b on their way to miner m.
Coming(b, m) == {e \in packets : e.type # "INV" /\ e.to = m /\ e.block = b}

\* inFlight means that the block has come or is coming, once: a block marked
\* in flight that is not coming would never be asked for again, and one not
\* marked would be sent twice.  (The attacker is sent its own blocks.)
InFlightExact == \A m \in Miners, b \in BlockIds :
    /\ b \in inFlight[m] <=> b \in Has(m) \/ Coming(b, m) # {}
    /\ blocks[b].minerID # m => Cardinality(Coming(b, m)) + (IF b \in Has(m) THEN 1 ELSE 0) <= 1

\* A block an honest miner has in its graph is in flight at each of its
\* peers, or announced to it: cached blocks are announced when they leave the
\* cache.
Announced == \A m \in Honest : \A b \in miners[m].graph.ledger, p \in ToPeers({m}) :
    b \in inFlight[p] \/ \E e \in packets : e.type = "INV" /\ e.to = p /\ e.block = b

\* "error %d at %d" (net_bitcoin.go:218) is never logged: nobody hears of a
\* block of the attacker before it has been sent to everyone.
AttackerFirst == \A e \in packets :
    e.type = "INV" /\ blocks[e.block].minerID \in Attackers => e.block \in inFlight[e.to]

\* Every block generated gets into every graph, through however many peers,
\* and however its ancestors are delayed.
EventuallyEverywhere == \A b \in BlockIds :
    b < generated ~> \A m \in Miners : b \in miners[m].graph.ledger
=============================================================================
