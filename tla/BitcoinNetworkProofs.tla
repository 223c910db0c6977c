------------------------ MODULE BitcoinNetworkProofs ------------------------
(***************************************************************************)
(* The bookkeeping of BitcoinNetwork, for every number of miners and of    *)
(* blocks, every list of peers that Setup can produce and every order of   *)
(* the events.  InFlightExact needs the packets to be of the right kinds,  *)
(* and that is all; AttackerFirst, about the packets under way, follows    *)
(* from what is true of every block of the attacker: it is in flight       *)
(* everywhere from the moment it is broadcast.                             *)
(***************************************************************************)
EXTENDS BitcoinNetwork, BitcoinSetup, GraphProofs

USE DEF Genesis, None

\* The packets there can be when the blocks below n have edges.
Packets(n) ==
    [type : {"INV"}, from : Miners, to : Miners, block : 0..(n - 1), slot : 1..2]
    \cup [type : {"GET", "GETCompact", "SendBlock"}, from : Miners, to : Miners, block : 0..(n - 1)]

TypeOK ==
    /\ TableOK(blocks, generated)
    /\ miners \in [Miners -> [graph : Graph, cache : Seq(0..(generated - 1))]]
    /\ \A m \in Miners : /\ GraphOK(blocks, generated, miners[m].graph)
                         /\ Genesis \in miners[m].graph.ledger
    /\ inFlight \in [Miners -> SUBSET (0..(generated - 1))]
    /\ packets \subseteq Packets(generated)

\* InFlightExact without counting.
InFlightOnce == \A m \in Miners, b \in BlockIds :
    /\ b \in inFlight[m] <=> b \in Has(m) \/ Coming(b, m) # {}
    /\ blocks[b].minerID # m => /\ \A e, f \in Coming(b, m) : e = f
                                /\ b \in Has(m) => Coming(b, m) = {}

\* A block of the attacker is in flight everywhere.
AttackerEverywhere == \A b \in 0..(generated - 1) :
    blocks[b].minerID \in Attackers => \A m \in Miners : b \in inFlight[m]

\* The inductive invariant.
IInv == TypeOK /\ InFlightOnce /\ AttackerEverywhere /\ Announced


-----------------------------------------------------------------------------
(***************************************************************************)
(* Packets.                                                                *)
(***************************************************************************)
\* The fields of a packet.
LEMMA PacketFields ==
    ASSUME NEW n, NEW e \in Packets(n)
    PROVE  /\ e.from \in Miners /\ e.to \in Miners /\ e.block \in 0..(n - 1)
           /\ e.type \in {"INV", "GET", "GETCompact", "SendBlock"}
           /\ e.type # "INV" =>
                 e \in [type : {"GET", "GETCompact", "SendBlock"}, from : Miners, to : Miners,
                        block : 0..(n - 1)]
BY DEF Packets

\* A longer table has the packets of the shorter one.
LEMMA PacketsGrow == ASSUME NEW n \in Nat PROVE Packets(n) \subseteq Packets(n + 1)
<1>1. 0..(n - 1) \subseteq 0..(n + 1 - 1)
  OBVIOUS
<1> HIDE DEF Genesis, None
<1> QED BY <1>1 DEF Packets

\* SendToAllPeer announces the block to every peer, and does nothing else; the
\* attacker announces nothing.
LEMMA Announcements ==
    ASSUME NEW m \in Miners, NEW n, NEW b \in 0..(n - 1)
    PROVE  /\ SendToAllPeer(m, b) \subseteq Packets(n)
           /\ \A e \in SendToAllPeer(m, b) : e.type = "INV" /\ e.block = b
           /\ m \in Honest => \A p \in ToPeers({m}) : \E e \in SendToAllPeer(m, b) :
                                 e.type = "INV" /\ e.to = p /\ e.block = b
<1> DEFINE S(p) == {[type |-> "INV", from |-> m, to |-> p, block |-> b, slot |-> i] :
                       i \in 1..Peers[m][p]}
<1>1. SendToAllPeer(m, b) = IF m \in Attackers THEN {} ELSE UNION {S(p) : p \in Miners}
  BY DEF SendToAllPeer
<1>2. ASSUME NEW p \in Miners PROVE Peers[m][p] \in 0..2
  BY PeersAssumption DEF PeerLists
<1>3. ASSUME NEW p \in Miners
      PROVE  S(p) \subseteq Packets(n) /\ \A e \in S(p) : e.type = "INV" /\ e.block = b
  <2>1. \A i \in 1..Peers[m][p] : i \in 1..2
    BY <1>2
  <2> QED BY <2>1 DEF Packets
<1>4. ASSUME NEW p \in ToPeers({m})
      PROVE  p \in Miners /\ \E e \in S(p) : e.type = "INV" /\ e.to = p /\ e.block = b
  <2>1. p \in Miners /\ Peers[m][p] > 0
    BY DEF ToPeers
  <2>2. 1 \in 1..Peers[m][p]
    BY <1>2, <2>1
  <2>3. [type |-> "INV", from |-> m, to |-> p, block |-> b, slot |-> 1] \in S(p)
    BY <2>2
  <2> QED BY <2>1, <2>3
<1> HIDE DEF S
<1>5. SendToAllPeer(m, b) \subseteq UNION {S(p) : p \in Miners}
  BY <1>1
<1>6. m \in Honest => SendToAllPeer(m, b) = UNION {S(p) : p \in Miners}
  BY <1>1 DEF Honest
<1>7. ASSUME NEW e \in SendToAllPeer(m, b)
      PROVE  e \in Packets(n) /\ e.type = "INV" /\ e.block = b
  BY <1>3, <1>5
<1>8. ASSUME m \in Honest, NEW p \in ToPeers({m})
      PROVE  \E e \in SendToAllPeer(m, b) : e.type = "INV" /\ e.to = p /\ e.block = b
  BY <1>4, <1>6, <1>8
<1> QED BY <1>7, <1>8

\* A broadcast sends the block itself to the miners of Expressed.
LEMMA Broadcasts ==
    ASSUME NEW m \in Miners, NEW n, NEW b \in 0..(n - 1)
    PROVE  /\ Expressed(m) \subseteq Miners
           /\ m \in Attackers => Expressed(m) \cup {m} = Miners
           /\ Attackers \subseteq Expressed(m) \cup {m}
           /\ BroadcastEvents(m, b) \subseteq Packets(n)
           /\ \A e \in BroadcastEvents(m, b) : e.block = b
           /\ \A e \in BroadcastEvents(m, b) :
                 e.type # "INV" => e.to \in Expressed(m) /\ e = SendBlock(m, e.to, b)
           /\ \A p \in Expressed(m) : SendBlock(m, p, b) \in BroadcastEvents(m, b)
<1>1. /\ Expressed(m) \subseteq Miners /\ (m \in Attackers => Expressed(m) \cup {m} = Miners)
      /\ Attackers \subseteq Expressed(m) \cup {m}
  BY PeersAssumption DEF Expressed
<1>2. /\ SendToAllPeer(m, b) \subseteq Packets(n)
      /\ \A e \in SendToAllPeer(m, b) : e.type = "INV" /\ e.block = b
  BY Announcements
<1>3. ASSUME NEW p \in Expressed(m)
      PROVE  /\ SendBlock(m, p, b) \in Packets(n) /\ SendBlock(m, p, b).block = b
             /\ SendBlock(m, p, b).to = p
  BY <1>1 DEF SendBlock, Packets
<1>4. BroadcastEvents(m, b) = SendToAllPeer(m, b) \cup {SendBlock(m, p, b) : p \in Expressed(m)}
  BY DEF BroadcastEvents
<1>5. ASSUME NEW e \in BroadcastEvents(m, b)
      PROVE  /\ e \in Packets(n) /\ e.block = b
             /\ e.type # "INV" => e.to \in Expressed(m) /\ e = SendBlock(m, e.to, b)
  <2>1. CASE e \in SendToAllPeer(m, b)
    BY <1>2, <2>1
  <2>2. CASE e \in {SendBlock(m, p, b) : p \in Expressed(m)}
    BY <1>3, <2>2
  <2> QED BY <1>4, <2>1, <2>2
<1>6. \A p \in Expressed(m) : SendBlock(m, p, b) \in BroadcastEvents(m, b)
  BY <1>4
<1> QED BY <1>1, <1>5, <1>6


-----------------------------------------------------------------------------
(***************************************************************************)
(* The steps.                                                              *)
(***************************************************************************)
\* Genesis is everywhere.
LEMMA Initially == Init => IInv
<1> SUFFICES ASSUME Init PROVE IInv
  OBVIOUS
<1> DEFINE g0 == Insert(GenesisTable, NewLocalGraph, Genesis)
<1>1. /\ blocks = GenesisTable /\ generated = 1 /\ packets = {}
      /\ miners = [m \in Miners |-> [graph |-> g0, cache |-> <<>>]]
      /\ inFlight = [m \in Miners |-> {Genesis}]
  BY DEF Init
<1>2. TableOK(GenesisTable, 1) /\ GraphOK(GenesisTable, 1, NewLocalGraph) /\ Genesis \in 0..(1 - 1)
  BY GenesisTableOK, EmptyGraphOK
<1>3. GraphOK(GenesisTable, 1, g0)
  BY <1>2, InsertKeepsGraph
<1>4. g0.ledger = {Genesis}
  <2>1. InsertResult(GenesisTable, NewLocalGraph, Genesis) = "Success"
    BY BlockAssumption DEF InsertResult, SeenAllAncestors, Parents, IsGenesis, GenesisTable,
       BlankBlock, NewLocalGraph, BlockIds
  <2>2. g0.ledger = NewLocalGraph.ledger \cup {Genesis}
    BY <1>2, <2>1, InsertLedger
  <2> QED BY <2>2 DEF NewLocalGraph
<1>5. g0 \in Graph
  BY <1>3 DEF GraphOK
<1>6. <<>> \in Seq(0..(1 - 1)) /\ ToSet(<<>>) = {}
  BY DEF ToSet
<1> HIDE DEF g0
<1>7. \A m \in Miners : miners[m].graph = g0 /\ miners[m].cache = <<>>
  BY <1>1
<1>8. TypeOK
  <2>1. miners \in [Miners -> [graph : Graph, cache : Seq(0..(generated - 1))]]
    BY <1>1, <1>5, <1>6
  <2>2. inFlight \in [Miners -> SUBSET (0..(generated - 1))]
    BY <1>1, <1>2
  <2> QED BY <1>1, <1>2, <1>3, <1>4, <1>7, <2>1, <2>2 DEF TypeOK
<1>9. \A m \in Miners, b \in BlockIds : Has(m) = {Genesis} /\ Coming(b, m) = {}
  BY <1>1, <1>4, <1>6, <1>7 DEF Has, Coming
<1>10. InFlightOnce
  BY <1>1, <1>9 DEF InFlightOnce
<1>11. blocks[Genesis].minerID \notin Attackers
  <2>1. blocks[Genesis].minerID = NoMiner
    BY <1>1, BlockAssumption DEF GenesisTable, BlankBlock, BlockIds
  <2> QED BY <2>1, BlockAssumption, PeersAssumption
<1>12. AttackerEverywhere
  BY <1>1, <1>11 DEF AttackerEverywhere
<1>13. Announced
  <2>1. \A m \in Honest : \A p \in ToPeers({m}) : m \in Miners /\ p \in Miners
    BY DEF Honest, ToPeers
  <2> QED BY <1>1, <1>4, <1>7, <2>1 DEF Announced
<1> QED BY <1>8, <1>10, <1>12, <1>13 DEF IInv

\* The step of a request: a packet that is not an announcement makes way for
\* another with the same receiver and block.
LEMMA ForwardKeeps ==
    ASSUME IInv, NEW e \in packets, e.type # "INV",
           NEW f \in Packets(generated), f.type # "INV", f.to = e.to, f.block = e.block,
           packets' = (packets \ {e}) \cup {f}, UNCHANGED <<blocks, generated, miners, inFlight>>
    PROVE  IInv'
<1>1. TypeOK'
  BY DEF IInv, TypeOK
<1>2. ASSUME NEW m \in Miners
      PROVE  Has(m)' = Has(m)
  BY DEF Has
<1>3. ASSUME NEW m \in Miners, NEW b \in BlockIds
      PROVE  /\ Coming(b, m)' = {} <=> Coming(b, m) = {}
             /\ (\A x, y \in Coming(b, m) : x = y) => (\A x, y \in Coming(b, m)' : x = y)
  <2>1. CASE b = e.block /\ m = e.to
    <3>1. e \in Coming(b, m) /\ f \in Coming(b, m)'
      BY <2>1 DEF Coming
    <3>2. Coming(b, m)' = (Coming(b, m) \ {e}) \cup {f}
      BY <2>1 DEF Coming
    <3> QED BY <3>1, <3>2
  <2>2. CASE ~ (b = e.block /\ m = e.to)
    <3>1. Coming(b, m)' = Coming(b, m)
      BY <2>2 DEF Coming
    <3> QED BY <3>1
  <2> QED BY <2>1, <2>2
<1>4. InFlightOnce'
  <2>1. ASSUME NEW m \in Miners, NEW b \in BlockIds
        PROVE  /\ b \in inFlight[m]' <=> b \in Has(m)' \/ Coming(b, m)' # {}
               /\ blocks[b].minerID' # m => /\ \A x, y \in Coming(b, m)' : x = y
                                            /\ b \in Has(m)' => Coming(b, m)' = {}
    <3>1. /\ b \in inFlight[m] <=> b \in Has(m) \/ Coming(b, m) # {}
          /\ blocks[b].minerID # m => /\ \A x, y \in Coming(b, m) : x = y
                                      /\ b \in Has(m) => Coming(b, m) = {}
      BY DEF IInv, InFlightOnce
    <3>2. blocks' = blocks /\ inFlight' = inFlight
      OBVIOUS
    <3> QED BY <1>2, <1>3, <3>1, <3>2
  <2> QED BY <2>1 DEF InFlightOnce
<1>5. AttackerEverywhere'
  BY DEF IInv, AttackerEverywhere
<1>6. Announced'
  BY DEF IInv, Announced
<1> QED BY <1>1, <1>4, <1>5, <1>6 DEF IInv


\* An announcement: the block is asked for, unless it is in flight already.
LEMMA ReceiveINVKeeps ==
    ASSUME IInv, NEW e \in packets, ReceiveINV(e)
    PROVE  IInv'
<1>1. /\ e.type = "INV" /\ UNCHANGED <<blocks, generated, miners>>
      /\ \/ e.block \in inFlight[e.to] /\ packets' = packets \ {e} /\ inFlight' = inFlight
         \/ /\ e.block \notin inFlight[e.to] /\ packets' = (packets \ {e}) \cup {Request(e)}
            /\ inFlight' = RequestInFlight(inFlight, e)
  BY DEF ReceiveINV
<1>2. TypeOK /\ InFlightOnce /\ AttackerEverywhere /\ Announced
  BY DEF IInv
<1>3. generated \in Nat /\ e \in Packets(generated) /\ packets \subseteq Packets(generated)
  BY <1>2, TableFacts DEF TypeOK
<1>4. e.from \in Miners /\ e.to \in Miners /\ e.block \in 0..(generated - 1)
  BY <1>3, PacketFields
<1>5. inFlight \in [Miners -> SUBSET (0..(generated - 1))]
  BY <1>2 DEF TypeOK
<1>6. /\ Request(e) \in Packets(generated) /\ Request(e).type # "INV"
      /\ Request(e).to = e.to /\ Request(e).block = e.block
  BY <1>4 DEF Request, Packets
<1>7. /\ inFlight' \in [Miners -> SUBSET (0..(generated - 1))] /\ e.block \in inFlight'[e.to]
      /\ \A m \in Miners : inFlight[m] \subseteq inFlight'[m]
      /\ \A m \in Miners, b \in BlockIds :
            b \in inFlight'[m] <=> b \in inFlight[m] \/ (m = e.to /\ b = e.block)
  <2>1. CASE inFlight' = inFlight /\ e.block \in inFlight[e.to]
    BY <1>5, <2>1
  <2>2. CASE inFlight' = RequestInFlight(inFlight, e)
    BY <1>4, <1>5, <2>2 DEF RequestInFlight
  <2> QED BY <1>1, <2>1, <2>2
<1>8. TypeOK'
  <2>1. packets' \subseteq Packets(generated)
    BY <1>1, <1>3, <1>6
  <2> QED BY <1>1, <1>2, <1>7, <2>1 DEF TypeOK
<1>9. InFlightOnce'
  <2>1. ASSUME NEW m \in Miners, NEW b \in BlockIds
        PROVE  /\ b \in inFlight'[m] <=> b \in Has(m)' \/ Coming(b, m)' # {}
               /\ blocks'[b].minerID # m => /\ \A x, y \in Coming(b, m)' : x = y
                                            /\ b \in Has(m)' => Coming(b, m)' = {}
    <3>1. /\ b \in inFlight[m] <=> b \in Has(m) \/ Coming(b, m) # {}
          /\ blocks[b].minerID # m => /\ \A x, y \in Coming(b, m) : x = y
                                      /\ b \in Has(m) => Coming(b, m) = {}
      BY <1>2 DEF InFlightOnce
    <3>2. Has(m)' = Has(m) /\ blocks' = blocks
      BY <1>1 DEF Has
    <3>3. CASE e.block \notin inFlight[e.to] /\ m = e.to /\ b = e.block
      <4>1. Coming(b, m) = {} /\ b \notin Has(m)
        BY <3>1, <3>3
      <4>2. Coming(b, m)' = {Request(e)}
        <5>1. packets' = (packets \ {e}) \cup {Request(e)}
          BY <1>1, <3>3
        <5> QED BY <1>6, <3>3, <4>1, <5>1 DEF Coming
      <4> QED BY <1>7, <3>2, <3>3, <4>1, <4>2
    <3>4. CASE ~ (e.block \notin inFlight[e.to] /\ m = e.to /\ b = e.block)
      <4>1. Coming(b, m)' = Coming(b, m)
        BY <1>1, <1>6, <3>4 DEF Coming
      <4>2. b \in inFlight'[m] <=> b \in inFlight[m]
        BY <1>7, <3>4
      <4> QED BY <3>1, <3>2, <4>1, <4>2
    <3> QED BY <3>3, <3>4
  <2> QED BY <2>1 DEF InFlightOnce
<1>10. AttackerEverywhere'
  BY <1>1, <1>2, <1>7 DEF AttackerEverywhere
<1>11. Announced'
  <2>1. ASSUME NEW m \in Honest, NEW b \in miners[m].graph.ledger, NEW p \in ToPeers({m})
        PROVE  b \in inFlight'[p] \/ \E f \in packets' : f.type = "INV" /\ f.to = p /\ f.block = b
    <3>1. p \in Miners
      BY DEF ToPeers
    <3>2. CASE b \in inFlight[p]
      BY <1>7, <3>1, <3>2
    <3>3. ASSUME NEW f \in packets, f.type = "INV", f.to = p, f.block = b
          PROVE  b \in inFlight'[p] \/ f \in packets'
      BY <1>1, <1>7, <3>3
    <3> QED BY <1>2, <3>2, <3>3 DEF Announced
  <2> QED BY <1>1, <2>1 DEF Announced
<1> QED BY <1>8, <1>9, <1>10, <1>11 DEF IInv

\* A miner generates a block and broadcasts it.
LEMMA GenerateKeeps ==
    ASSUME IInv, NEW m \in Miners, Generate(m)
    PROVE  IInv'
<1> DEFINE n == generated
           g == miners[m].graph
           c == miners[m].cache
           h == Insert(blocks', g, n)
<1>1. PICK r \in 0..MaxResidual :
        /\ blocks' = FillNewBlock(MineBlock(blocks, n, m, r), g, n)
        /\ miners' = [miners EXCEPT ![m] = GenerateBlock(blocks', @, n)]
        /\ inFlight' = BroadcastInFlight(inFlight, m, n)
        /\ packets' = packets \cup BroadcastEvents(m, n)
  BY DEF Generate
<1>2. n <= MaxBlock /\ generated' = n + 1
  BY DEF Generate
<1>3. TypeOK /\ InFlightOnce /\ AttackerEverywhere /\ Announced
  BY DEF IInv
<1>4. /\ TableOK(blocks, n) /\ n \in Nat /\ n \in BlockIds
      /\ miners \in [Miners -> [graph : Graph, cache : Seq(0..(n - 1))]]
      /\ \A k \in Miners : GraphOK(blocks, n, miners[k].graph) /\ Genesis \in miners[k].graph.ledger
      /\ inFlight \in [Miners -> SUBSET (0..(n - 1))] /\ packets \subseteq Packets(n)
  BY <1>2, <1>3, TableFacts DEF TypeOK, BlockIds
<1>5. /\ TableOK(blocks', n + 1) /\ Agree(blocks, blocks', n) /\ blocks'[n].minerID = m
      /\ \A x : GraphOK(blocks, n, x) => GraphOK(blocks', n + 1, x)
      /\ GraphOK(blocks', n + 1, h) /\ h.ledger = g.ledger \cup {n}
  BY <1>1, <1>2, <1>4, OwnBlockKeepsGraph
<1>6. h \in Graph /\ g \in Graph
  BY <1>4, <1>5 DEF GraphOK
<1> HIDE DEF h
<1>7. /\ miners' \in [Miners -> [graph : Graph, cache : Seq(0..(n - 1))]]
      /\ miners'[m].graph = h /\ miners'[m].cache = c
      /\ \A k \in Miners : miners'[k].cache = miners[k].cache
      /\ \A k \in Miners \ {m} : miners'[k] = miners[k]
  <2>1. miners' = [miners EXCEPT ![m] = [miners[m] EXCEPT !.graph = h]]
    BY <1>1 DEF GenerateBlock, h
  <2> QED BY <1>4, <1>6, <2>1
<1>8. miners' \in [Miners -> [graph : Graph, cache : Seq(0..(n + 1 - 1))]]
  <2>1. Seq(0..(n - 1)) \subseteq Seq(0..(n + 1 - 1))
    BY <1>4, SeqGrows
  <2> HIDE DEF n
  <2> QED BY <1>7, <2>1
<1>9. n \in 0..(n + 1 - 1) /\ 0..(n - 1) \subseteq 0..(n + 1 - 1) /\ n \notin 0..(n - 1)
  BY <1>4
<1>10. /\ BroadcastEvents(m, n) \subseteq Packets(n + 1) /\ Expressed(m) \subseteq Miners
       /\ m \in Attackers => Expressed(m) \cup {m} = Miners
       /\ \A e \in BroadcastEvents(m, n) : e.block = n
       /\ \A e \in BroadcastEvents(m, n) :
             e.type # "INV" => e.to \in Expressed(m) /\ e = SendBlock(m, e.to, n)
       /\ \A p \in Expressed(m) : SendBlock(m, p, n) \in BroadcastEvents(m, n)
  <2> DEFINE k == n + 1
  <2>1. n \in 0..(k - 1)
    BY <1>9
  <2> HIDE DEF k
  <2>2. /\ BroadcastEvents(m, n) \subseteq Packets(k) /\ Expressed(m) \subseteq Miners
        /\ m \in Attackers => Expressed(m) \cup {m} = Miners
        /\ \A e \in BroadcastEvents(m, n) : e.block = n
        /\ \A e \in BroadcastEvents(m, n) :
              e.type # "INV" => e.to \in Expressed(m) /\ e = SendBlock(m, e.to, n)
        /\ \A p \in Expressed(m) : SendBlock(m, p, n) \in BroadcastEvents(m, n)
    BY <2>1, Broadcasts
  <2> QED BY <2>2 DEF k
<1>11. \A k \in Miners : inFlight'[k] = inFlight[k] \cup (IF k \in Expressed(m) \cup {m} THEN {n} ELSE {})
  BY <1>1 DEF BroadcastInFlight
<1>12. inFlight' \in [Miners -> SUBSET (0..(n + 1 - 1))]
  <2>1. ASSUME NEW k \in Miners
        PROVE  inFlight[k] \cup (IF k \in Expressed(m) \cup {m} THEN {n} ELSE {})
                  \in SUBSET (0..(n + 1 - 1))
    BY <1>4, <1>9
  <2> HIDE DEF n
  <2> QED BY <1>1, <2>1 DEF BroadcastInFlight
<1>13. \A e \in packets : e.block \in 0..(n - 1)
  BY <1>4, PacketFields
<1>14. TypeOK'
  <2>1. packets' \subseteq Packets(n + 1)
    BY <1>1, <1>4, <1>10, PacketsGrow
  <2>2. \A k \in Miners : GraphOK(blocks', n + 1, miners'[k].graph) /\ Genesis \in miners'[k].graph.ledger
    BY <1>4, <1>5, <1>7
  <2>3. generated' = n + 1 /\ generated' - 1 = n + 1 - 1
    BY <1>2, <1>4
  <2>4. TableOK(blocks', generated')
    BY <1>5, <2>3
  <2>5. /\ miners' \in [Miners -> [graph : Graph, cache : Seq(0..(generated' - 1))]]
        /\ inFlight' \in [Miners -> SUBSET (0..(generated' - 1))]
    BY <1>8, <1>12, <2>3
  <2>6. packets' \subseteq Packets(generated')
    BY <2>1, <2>3
  <2>7. \A k \in Miners : GraphOK(blocks', generated', miners'[k].graph)
                          /\ Genesis \in miners'[k].graph.ledger
    BY <2>2, <2>3
  <2> QED BY <2>4, <2>5, <2>6, <2>7 DEF TypeOK
<1>15. InFlightOnce'
  <2>1. ASSUME NEW k \in Miners, NEW b \in BlockIds
        PROVE  /\ b \in inFlight'[k] <=> b \in Has(k)' \/ Coming(b, k)' # {}
               /\ blocks'[b].minerID # k => /\ \A x, y \in Coming(b, k)' : x = y
                                            /\ b \in Has(k)' => Coming(b, k)' = {}
    <3>1. /\ b \in inFlight[k] <=> b \in Has(k) \/ Coming(b, k) # {}
          /\ blocks[b].minerID # k => /\ \A x, y \in Coming(b, k) : x = y
                                      /\ b \in Has(k) => Coming(b, k) = {}
      BY <1>3 DEF InFlightOnce
    <3>2. Has(k)' = Has(k) \cup (IF k = m THEN {n} ELSE {})
      BY <1>5, <1>7 DEF Has
    <3>3. n \notin inFlight[k] /\ (n \in BlockIds)
      BY <1>4, <1>9
    <3>4. CASE b = n
      <4>1. Coming(b, k) = {} /\ b \notin Has(k)
        BY <3>1, <3>3, <3>4
      <4>2. Coming(b, k)' = IF k \in Expressed(m) THEN {SendBlock(m, k, n)} ELSE {}
        <5>1. Coming(b, k)' = {e \in BroadcastEvents(m, n) : e.type # "INV" /\ e.to = k /\ e.block = b}
          BY <1>1, <4>1 DEF Coming
        <5>2. k \in Expressed(m) => /\ SendBlock(m, k, n).type # "INV" /\ SendBlock(m, k, n).to = k
                                    /\ SendBlock(m, k, n).block = n
          BY DEF SendBlock
        <5> QED BY <1>10, <3>4, <5>1, <5>2
      <4> QED BY <1>5, <1>11, <3>2, <3>3, <3>4, <4>1, <4>2
    <3>5. CASE b # n
      <4>1. Coming(b, k)' = Coming(b, k)
        BY <1>1, <1>10, <3>5 DEF Coming
      <4>2. b \in inFlight'[k] <=> b \in inFlight[k]
        BY <1>11, <3>5
      <4>3. ASSUME b \in 0..(n - 1) PROVE blocks'[b] = blocks[b]
        BY <1>5, <4>3 DEF Agree
      <4>4. ASSUME b \notin 0..(n - 1)
            PROVE  b \notin inFlight[k]
        BY <1>4, <4>4
      <4>5. b \in Has(k)' <=> b \in Has(k)
        BY <3>2, <3>5
      <4>6. CASE b \in 0..(n - 1)
        BY <3>1, <4>1, <4>2, <4>3, <4>5, <4>6
      <4>7. CASE b \notin 0..(n - 1)
        BY <3>1, <4>1, <4>2, <4>4, <4>5, <4>7
      <4> QED BY <4>6, <4>7
    <3> QED BY <3>4, <3>5
  <2> QED BY <2>1 DEF InFlightOnce
<1>16. AttackerEverywhere'
  <2>1. ASSUME NEW b \in 0..(n + 1 - 1), blocks'[b].minerID \in Attackers, NEW k \in Miners
        PROVE  b \in inFlight'[k]
    <3>1. CASE b = n
      BY <1>5, <1>10, <1>11, <2>1, <3>1
    <3>2. CASE b # n
      <4>1. b \in 0..(n - 1)
        BY <1>4, <3>2
      <4>2. blocks'[b] = blocks[b]
        BY <1>5, <4>1 DEF Agree
      <4> QED BY <1>3, <1>11, <2>1, <4>1, <4>2 DEF AttackerEverywhere
    <3> QED BY <3>1, <3>2
  <2>2. generated' - 1 = n + 1 - 1
    BY <1>2, <1>4
  <2> QED BY <2>1, <2>2 DEF AttackerEverywhere
<1>17. Announced'
  <2>1. ASSUME NEW k \in Honest, NEW b \in miners'[k].graph.ledger, NEW p \in ToPeers({k})
        PROVE  b \in inFlight'[p] \/ \E f \in packets' : f.type = "INV" /\ f.to = p /\ f.block = b
    <3>1. p \in Miners /\ k \in Miners
      BY DEF ToPeers, Honest
    <3>2. CASE b \in miners[k].graph.ledger
      <4>1. b \in inFlight[p] \/ \E f \in packets : f.type = "INV" /\ f.to = p /\ f.block = b
        BY <1>3, <3>2 DEF Announced
      <4> QED BY <1>1, <1>11, <3>1, <4>1
    <3>3. CASE b \notin miners[k].graph.ledger
      <4>1. k = m /\ b = n
        BY <1>5, <1>7, <3>1, <3>3
      <4>2. \E f \in SendToAllPeer(m, n) : f.type = "INV" /\ f.to = p /\ f.block = n
        <5> DEFINE j == n + 1
        <5>1. n \in 0..(j - 1) /\ m \in Honest /\ p \in ToPeers({m})
          BY <1>9, <4>1
        <5> HIDE DEF j
        <5> QED BY <5>1, Announcements
      <4> QED BY <1>1, <4>1, <4>2 DEF BroadcastEvents
    <3> QED BY <3>2, <3>3
  <2> QED BY <2>1 DEF Announced
<1> QED BY <1>14, <1>15, <1>16, <1>17 DEF IInv


\* A miner receives a block and announces the blocks that enter its graph.
LEMMA ReceiveDataKeeps ==
    ASSUME IInv, NEW e \in packets, ReceiveData(e)
    PROVE  IInv'
<1> DEFINE m == e.to
           g == miners[m].graph
           c == miners[m].cache
           r == ReceiveBlock(blocks, miners[m], e.block)
           news == UNION {SendToAllPeer(m, b) : b \in ToSet(r.relays)}
<1>1. /\ e.type = "SendBlock" /\ blocks' = blocks /\ generated' = generated
      /\ miners' = [miners EXCEPT ![m] = [graph |-> r.graph, cache |-> r.cache]]
      /\ inFlight' = [inFlight EXCEPT ![m] = @ \cup ToSet(r.relays)]
      /\ packets' = (packets \ {e}) \cup news
  BY DEF ReceiveData
<1>2. TypeOK /\ InFlightOnce /\ AttackerEverywhere /\ Announced
  BY DEF IInv
<1>3. /\ TableOK(blocks, generated) /\ generated \in Nat /\ 0..(generated - 1) \subseteq BlockIds
      /\ miners \in [Miners -> [graph : Graph, cache : Seq(0..(generated - 1))]]
      /\ \A k \in Miners : GraphOK(blocks, generated, miners[k].graph)
                           /\ Genesis \in miners[k].graph.ledger
      /\ inFlight \in [Miners -> SUBSET (0..(generated - 1))] /\ packets \subseteq Packets(generated)
  BY <1>2, TableFacts DEF TypeOK
<1>4. m \in Miners /\ e.block \in 0..(generated - 1)
  BY <1>3, PacketFields
<1>5. Received(blocks, generated, g, c, e.block, r)
  <2>1. MinerOK(blocks, generated, miners[m].graph, miners[m].cache)
    BY <1>3, <1>4 DEF MinerOK
  <2> QED BY <1>3, <1>4, <2>1, ReceiveBlockOK
<1> HIDE DEF r
<1>6. /\ MinerOK(blocks, generated, r.graph, r.cache) /\ r.relays \in Seq(0..(generated - 1))
      /\ r.graph.ledger \cup ToSet(r.cache) = g.ledger \cup ToSet(c) \cup {e.block}
      /\ r.graph.ledger = g.ledger \cup ToSet(r.relays)
  BY <1>5 DEF Received, Entered
<1>7. ToSet(r.relays) \subseteq 0..(generated - 1)
  BY <1>6, ToSetIs
<1>8. /\ GraphOK(blocks, generated, r.graph) /\ r.graph \in Graph
      /\ r.cache \in Seq(0..(generated - 1))
  BY <1>6 DEF MinerOK, GraphOK
<1>9. /\ miners' \in [Miners -> [graph : Graph, cache : Seq(0..(generated - 1))]]
      /\ miners'[m].graph = r.graph /\ miners'[m].cache = r.cache
      /\ \A k \in Miners \ {m} : miners'[k] = miners[k]
  BY <1>1, <1>3, <1>4, <1>8
<1>10. /\ news \subseteq Packets(generated) /\ \A f \in news : f.type = "INV"
  <2>1. ASSUME NEW k \in Miners, NEW b \in 0..(generated - 1)
        PROVE  /\ SendToAllPeer(k, b) \subseteq Packets(generated)
               /\ \A f \in SendToAllPeer(k, b) : f.type = "INV"
    <3>1. SendToAllPeer(k, b) \subseteq Packets(generated)
      BY Announcements
    <3>2. ASSUME NEW f \in SendToAllPeer(k, b) PROVE f.type = "INV" /\ f.block = b
      BY Announcements
    <3> QED BY <3>1, <3>2
  <2>2. ASSUME NEW b \in ToSet(r.relays)
        PROVE  /\ SendToAllPeer(m, b) \subseteq Packets(generated)
               /\ \A f \in SendToAllPeer(m, b) : f.type = "INV"
    BY <1>4, <1>7, <2>1
  <2> QED BY <2>2
<1>11. ASSUME NEW b \in ToSet(r.relays), NEW p \in ToPeers({m}), m \in Honest
       PROVE  \E f \in news : f.type = "INV" /\ f.to = p /\ f.block = b
  <2>1. b \in 0..(generated - 1)
    BY <1>7
  <2>2. PICK f \in SendToAllPeer(m, b) : f.type = "INV" /\ f.to = p /\ f.block = b
    BY <1>4, <1>11, <2>1, Announcements
  <2> QED BY <2>2
<1> HIDE DEF news
<1>12. e \in Coming(e.block, m)
  BY <1>1 DEF Coming
<1>13. ASSUME NEW k \in Miners
       PROVE  /\ Has(k)' = Has(k) \cup (IF k = m THEN {e.block} ELSE {})
              /\ inFlight'[k] = inFlight[k]
  <2>1. CASE k = m
    <3>1. Has(m)' = Has(m) \cup {e.block}
      BY <1>6, <1>9 DEF Has
    <3>2. ToSet(r.relays) \subseteq Has(m) \cup {e.block}
      BY <1>6 DEF Has
    <3>3. ToSet(r.relays) \subseteq inFlight[m]
      BY <1>2, <1>3, <1>4, <1>7, <1>12, <3>2 DEF InFlightOnce
    <3>4. inFlight'[m] = inFlight[m]
      BY <1>1, <1>3, <1>4, <3>3
    <3> QED BY <2>1, <3>1, <3>4
  <2>2. CASE k # m
    BY <1>1, <1>3, <1>9, <2>2 DEF Has
  <2> QED BY <2>1, <2>2
<1>14. TypeOK'
  <2>1. \A k \in Miners : GraphOK(blocks, generated, miners'[k].graph)
                          /\ Genesis \in miners'[k].graph.ledger
    BY <1>3, <1>4, <1>6, <1>8, <1>9
  <2>2. inFlight' \in [Miners -> SUBSET (0..(generated - 1))]
    BY <1>1, <1>3, <1>4, <1>7
  <2>3. packets' \subseteq Packets(generated)
    BY <1>1, <1>3, <1>10
  <2> QED BY <1>1, <1>3, <1>9, <2>1, <2>2, <2>3 DEF TypeOK
<1>15. InFlightOnce'
  <2>1. ASSUME NEW k \in Miners, NEW b \in BlockIds
        PROVE  /\ b \in inFlight'[k] <=> b \in Has(k)' \/ Coming(b, k)' # {}
               /\ blocks'[b].minerID # k => /\ \A x, y \in Coming(b, k)' : x = y
                                            /\ b \in Has(k)' => Coming(b, k)' = {}
    <3>1. /\ b \in inFlight[k] <=> b \in Has(k) \/ Coming(b, k) # {}
          /\ blocks[b].minerID # k => /\ \A x, y \in Coming(b, k) : x = y
                                      /\ b \in Has(k) => Coming(b, k) = {}
      BY <1>2 DEF InFlightOnce
    <3>2. Coming(b, k)' = Coming(b, k) \ {e}
      BY <1>1, <1>10 DEF Coming
    <3>3. CASE k = m /\ b = e.block
      <4>1. b \in Has(k)' /\ b \in inFlight'[k]
        BY <1>12, <1>13, <3>1, <3>3
      <4>2. blocks[b].minerID # k => Coming(b, k)' = {}
        BY <1>12, <3>1, <3>2, <3>3
      <4> QED BY <1>1, <4>1, <4>2
    <3>4. CASE ~ (k = m /\ b = e.block)
      <4>1. Coming(b, k)' = Coming(b, k)
        BY <3>2, <3>4 DEF Coming
      <4>2. b \in Has(k)' <=> b \in Has(k)
        BY <1>13, <3>4
      <4> QED BY <1>1, <1>13, <3>1, <4>1, <4>2
    <3> QED BY <3>3, <3>4
  <2> QED BY <2>1 DEF InFlightOnce
<1>16. AttackerEverywhere'
  BY <1>1, <1>2, <1>13 DEF AttackerEverywhere
<1>17. Announced'
  <2>1. ASSUME NEW k \in Honest, NEW b \in miners'[k].graph.ledger, NEW p \in ToPeers({k})
        PROVE  b \in inFlight'[p] \/ \E f \in packets' : f.type = "INV" /\ f.to = p /\ f.block = b
    <3>1. p \in Miners /\ k \in Miners
      BY DEF ToPeers, Honest
    <3>2. CASE b \in miners[k].graph.ledger
      <4>1. b \in inFlight[p] \/ \E f \in packets : f.type = "INV" /\ f.to = p /\ f.block = b
        BY <1>2, <3>2 DEF Announced
      <4> QED BY <1>1, <1>13, <3>1, <4>1
    <3>3. CASE b \notin miners[k].graph.ledger
      <4>1. k = m /\ b \in ToSet(r.relays)
        BY <1>6, <1>9, <3>1, <3>3
      <4>2. m \in Honest /\ p \in ToPeers({m})
        BY <4>1
      <4>3. PICK f \in news : f.type = "INV" /\ f.to = p /\ f.block = b
        BY <1>11, <4>1, <4>2
      <4>4. f \in packets'
        BY <1>1, <4>3
      <4> QED BY <4>3, <4>4
    <3> QED BY <3>2, <3>3
  <2> QED BY <2>1 DEF Announced
<1> QED BY <1>14, <1>15, <1>16, <1>17 DEF IInv

\* The conjunction is inductive.
THEOREM Inductive == Spec => []IInv
<1>1. Init => IInv
  BY Initially
<1>2. IInv /\ [Next]_vars => IInv'
  <2> SUFFICES ASSUME IInv, [Next]_vars PROVE IInv'
    OBVIOUS
  <2>1. ASSUME NEW m \in Miners, Generate(m) PROVE IInv'
    BY <2>1, GenerateKeeps
  <2>2. ASSUME NEW e \in packets, ReceiveINV(e) PROVE IInv'
    BY <2>2, ReceiveINVKeeps
  <2>3. ASSUME NEW e \in packets, SendCompact(e) PROVE IInv'
    <3> DEFINE f == [e EXCEPT !.type = "GET"]
    <3>1. e.type = "GETCompact" /\ e \in Packets(generated)
      BY <2>3 DEF SendCompact, IInv, TypeOK
    <3>2. e \in [type : {"GET", "GETCompact", "SendBlock"}, from : Miners, to : Miners,
                 block : 0..(generated - 1)]
      BY <3>1, PacketFields
    <3>3. f \in Packets(generated) /\ f.type # "INV" /\ f.to = e.to /\ f.block = e.block
      BY <3>2 DEF Packets
    <3>4. packets' = (packets \ {e}) \cup {f} /\ UNCHANGED <<blocks, generated, miners, inFlight>>
      BY <2>3 DEF SendCompact
    <3> HIDE DEF f
    <3> QED BY <3>1, <3>3, <3>4, ForwardKeeps
  <2>4. ASSUME NEW e \in packets, SendData(e) PROVE IInv'
    <3> DEFINE f == SendBlock(e.from, e.to, e.block)
    <3>1. e.type = "GET" /\ e \in Packets(generated)
      BY <2>4 DEF SendData, IInv, TypeOK
    <3>2. e.from \in Miners /\ e.to \in Miners /\ e.block \in 0..(generated - 1)
      BY <3>1, PacketFields
    <3>3. f \in Packets(generated) /\ f.type # "INV" /\ f.to = e.to /\ f.block = e.block
      BY <3>2 DEF Packets, SendBlock
    <3>4. packets' = (packets \ {e}) \cup {f} /\ UNCHANGED <<blocks, generated, miners, inFlight>>
      BY <2>4 DEF SendData
    <3> HIDE DEF f
    <3> QED BY <3>1, <3>3, <3>4, ForwardKeeps
  <2>5. ASSUME NEW e \in packets, ReceiveData(e) PROVE IInv'
    BY <2>5, ReceiveDataKeeps
  <2>6. CASE UNCHANGED vars
    <3>1. /\ blocks' = blocks /\ generated' = generated /\ miners' = miners
          /\ inFlight' = inFlight /\ packets' = packets
      BY <2>6 DEF vars
    <3>2. TypeOK'
      BY <3>1 DEF IInv, TypeOK
    <3>4. AttackerEverywhere'
      BY <3>1 DEF IInv, AttackerEverywhere
    <3>5. Announced'
      BY <3>1 DEF IInv, Announced
    <3>3. InFlightOnce'
      <4>1. \A m \in Miners, b \in BlockIds : Has(m)' = Has(m) /\ Coming(b, m)' = Coming(b, m)
        BY <3>1 DEF Has, Coming
      <4>2. InFlightOnce
        BY DEF IInv
      <4>3. ASSUME NEW m \in Miners, NEW b \in BlockIds
            PROVE  /\ b \in inFlight'[m] <=> b \in Has(m)' \/ Coming(b, m)' # {}
                   /\ blocks'[b].minerID # m => /\ \A x, y \in Coming(b, m)' : x = y
                                                /\ b \in Has(m)' => Coming(b, m)' = {}
        BY <3>1, <4>1, <4>2 DEF InFlightOnce
      <4> QED BY <4>3 DEF InFlightOnce
    <3> QED BY <3>2, <3>3, <3>4, <3>5 DEF IInv
  <2> QED BY <2>1, <2>2, <2>3, <2>4, <2>5, <2>6 DEF Next
<1> QED BY <1>1, <1>2, PTL DEF Spec

\* A block is marked in flight to a miner if and only if the miner has it, in
\* the graph or in the cache, or a request or the data is on the way, once.
THEOREM InFlightIsExact == Spec => []InFlightExact
<1>1. ASSUME IInv PROVE InFlightExact
  <2>1. ASSUME NEW m \in Miners, NEW b \in BlockIds, blocks[b].minerID # m
        PROVE  Cardinality(Coming(b, m)) + (IF b \in Has(m) THEN 1 ELSE 0) <= 1
    <3>1. /\ \A x, y \in Coming(b, m) : x = y
          /\ b \in Has(m) => Coming(b, m) = {}
      BY <1>1, <2>1 DEF IInv, InFlightOnce
    <3>2. CASE Coming(b, m) = {}
      BY <3>2, FS_EmptySet
    <3>3. CASE Coming(b, m) # {}
      <4>1. PICK x : x \in Coming(b, m)
        BY <3>3
      <4>2. Coming(b, m) = {x} /\ b \notin Has(m)
        BY <3>1, <3>3, <4>1
      <4>3. Cardinality(Coming(b, m)) = 1
        BY <4>2, FS_Singleton
      <4> QED BY <4>2, <4>3
    <3> QED BY <3>2, <3>3
  <2> QED BY <1>1, <2>1 DEF IInv, InFlightOnce, InFlightExact
<1> QED BY <1>1, Inductive, PTL

\* Nobody is told of a block of the attacker that has not been sent to it.
THEOREM AttackerIsFirst == Spec => []AttackerFirst
<1>1. ASSUME IInv PROVE AttackerFirst
  <2>1. \A e \in packets : e.to \in Miners /\ e.block \in 0..(generated - 1)
    BY <1>1, PacketFields DEF IInv, TypeOK
  <2> QED BY <1>1, <2>1 DEF IInv, AttackerEverywhere, AttackerFirst
<1> QED BY <1>1, Inductive, PTL

\* A block in the graph of an honest miner is in flight at each of its peers
\* or announced to it.
THEOREM IsAnnounced == Spec => []Announced
<1>1. IInv => Announced
  BY DEF IInv
<1> QED BY <1>1, Inductive, PTL
-----------------------------------------------------------------------------
(***************************************************************************)
(* Setup, which makes the lists of peers (BitcoinSetup.tla).  LinksMutual  *)
(* is not inductive: that a list can be thrown away and be built again     *)
(* from chosen needs that chosen holds every miner of the list             *)
(* (ListChosen) and that those miners have had their turn (LaterUnlinked). *)
(***************************************************************************)
SetupTypeOK == /\ geo \in [Nodes -> Regions]
               /\ peer \in [Nodes -> [Nodes -> Nat]]
               /\ next \in Nat /\ chosen \subseteq Nodes /\ drawn \in Nat

\* Two miners whose turn is still to come are not linked, nor one to itself.
LaterUnlinked == \A m, p \in Nodes : m >= next /\ p >= next => peer[m][p] = 0

\* A connection with a miner whose turn is still to come is in both lists once.
OpenOnce == \A m, p \in Nodes :
    m < next /\ p >= next => peer[p][m] = peer[m][p] /\ peer[m][p] \in {0, 1}

\* Two miners that have had their turn, and one with itself.
Closed == \A m, p \in Nodes : m < next /\ p < next =>
    /\ m < p => \/ peer[p][m] = 0 /\ peer[m][p] = 0
                \/ peer[p][m] = 1 /\ peer[m][p] = 1
                \/ peer[p][m] = 1 /\ peer[m][p] = 2
    /\ m = p => peer[m][p] = 0 \/ peer[m][p] = 2

\* The list of the next miner can be built again from chosen.
ListChosen == next \in Nodes => \A p \in Nodes : peer[next][p] > 0 => p \in chosen

Late == {p \in chosen : p >= next}

\* No more than the drawn ones are late.
LateDrawn == Cardinality(Late) <= drawn

SetupInv == SetupTypeOK /\ LaterUnlinked /\ OpenOnce /\ Closed /\ ListChosen /\ LateDrawn

\* Sets of miners are finite.
LEMMA MinersFinite == IsFiniteSet(Nodes) /\ \A S : S \subseteq Nodes => IsFiniteSet(S)
<1>1. 0 \in Int /\ N - 1 \in Int
  BY SetupAssumption
<1>2. IsFiniteSet(Nodes)
  BY <1>1, FS_Interval DEF Nodes
<1> QED
  BY <1>2, FS_Subset

\* No one is linked before the first turn.
LEMMA SetupStarts == SetupInit => SetupInv
<1> SUFFICES ASSUME SetupInit PROVE SetupInv
  OBVIOUS
<1>1. SetupTypeOK /\ LaterUnlinked /\ OpenOnce /\ Closed /\ ListChosen
  BY DEF SetupInit, SetupTypeOK, LaterUnlinked, OpenOnce, Closed, ListChosen, Nodes
<1>2. Late = {}
  BY DEF SetupInit, Late
<1>3. LateDrawn
  BY <1>2, FS_EmptySet DEF SetupInit, LateDrawn
<1> QED
  BY <1>1, <1>3 DEF SetupInv

\* What is drawn only adds to chosen, and at most one miner that is late.
LEMMA DrawKeeps == SetupInv /\ Draw => SetupInv'
<1> SUFFICES ASSUME SetupInv, Draw PROVE SetupInv'
  OBVIOUS
<1> USE DEF SetupInv
<1>1. PICK end \in Region(next) \ chosen : chosen' = chosen \cup {end}
  BY DEF Draw
<1>2. /\ end \in Nodes /\ drawn' = drawn + 1
      /\ next' = next /\ peer' = peer /\ geo' = geo
  BY <1>1 DEF Draw, Region
<1>3. SetupTypeOK'
  BY <1>1, <1>2 DEF SetupTypeOK
<1>4. LaterUnlinked' /\ OpenOnce' /\ Closed'
  BY <1>2 DEF LaterUnlinked, OpenOnce, Closed
<1>5. ListChosen'
  BY <1>1, <1>2 DEF ListChosen
<1>6. LateDrawn'
  <2>1. IsFiniteSet(Late) /\ Cardinality(Late) \in Nat
    BY MinersFinite, FS_CardinalityType DEF Late, SetupTypeOK
  <2>2. Late' = Late \/ Late' = Late \cup {end}
    BY <1>1, <1>2 DEF Late
  <2>3. Cardinality(Late') \in Nat /\ Cardinality(Late') <= Cardinality(Late) + 1
    <3>1. Cardinality(Late \cup {end}) = IF end \in Late THEN Cardinality(Late)
                                         ELSE Cardinality(Late) + 1
      BY <2>1, FS_AddElement
    <3> QED
      BY <2>1, <2>2, <3>1
  <2>4. Cardinality(Late) <= drawn /\ drawn \in Nat
    BY DEF LateDrawn, SetupTypeOK
  <2>5. Cardinality(Late') <= drawn'
    BY <2>1, <2>3, <2>4, <1>2
  <2> QED
    BY <2>5 DEF LateDrawn
<1> QED
  BY <1>3, <1>4, <1>5, <1>6

\* The list of miner i = next is thrown away and built from chosen.
LEMMA LinkKeeps == SetupInv /\ LinkPeers => SetupInv'
<1> SUFFICES ASSUME SetupInv, LinkPeers PROVE SetupInv'
  OBVIOUS
<1> USE DEF SetupInv
<1> DEFINE i == next
<1>1. /\ i \in Nodes /\ next' = i + 1 /\ geo' = geo /\ drawn' = 0
      /\ peer' = Relinked(peer, i, chosen) /\ chosen' = Known(peer', i + 1)
      /\ i \in Nat /\ \A m \in Nodes : m \in Nat
  BY DEF LinkPeers, Nodes
<1>2. \A m, p \in Nodes :
         /\ peer[m][p] \in Nat
         /\ m # i /\ p # i => peer'[m][p] = peer[m][p]
         /\ m # i => peer'[m][i] = peer[m][i] + (IF m \in chosen THEN 1 ELSE 0)
         /\ p # i => peer'[i][p] = (IF p \in chosen THEN 1 ELSE 0)
  BY <1>1 DEF Relinked, SetupTypeOK
<1>3. peer'[i][i] = IF i \in chosen THEN 2 ELSE 0
  BY <1>1 DEF Relinked
<1>4. SetupTypeOK'
  <2>1. peer' \in [Nodes -> [Nodes -> Nat]]
    BY <1>1 DEF Relinked, SetupTypeOK
  <2> QED
    BY <2>1, <1>1 DEF SetupTypeOK, Known
<1>5. LaterUnlinked'
  <2> SUFFICES ASSUME NEW m \in Nodes, NEW p \in Nodes, m >= i + 1, p >= i + 1
               PROVE  peer'[m][p] = 0
    BY <1>1 DEF LaterUnlinked
  <2>1. m # i /\ p # i /\ m >= i /\ p >= i
    BY <1>1
  <2>2. peer[m][p] = 0
    BY <2>1 DEF LaterUnlinked
  <2> QED
    BY <2>1, <2>2, <1>2
<1>6. OpenOnce'
  <2> SUFFICES ASSUME NEW m \in Nodes, NEW p \in Nodes, m < i + 1, p >= i + 1
               PROVE  peer'[p][m] = peer'[m][p] /\ peer'[m][p] \in {0, 1}
    BY <1>1 DEF OpenOnce
  <2>1. CASE m = i
    <3>1. peer[p][i] = 0
      BY <2>1, <1>1 DEF LaterUnlinked
    <3> QED
      BY <3>1, <2>1, <1>1, <1>2
  <2>2. CASE m < i
    BY <2>2, <1>1, <1>2 DEF OpenOnce
  <2> QED
    BY <2>1, <2>2, <1>1
<1>7. Closed'
  <2> SUFFICES ASSUME NEW m \in Nodes, NEW p \in Nodes, m < i + 1, p < i + 1
               PROVE  /\ m < p => \/ peer'[p][m] = 0 /\ peer'[m][p] = 0
                                  \/ peer'[p][m] = 1 /\ peer'[m][p] = 1
                                  \/ peer'[p][m] = 1 /\ peer'[m][p] = 2
                      /\ m = p => peer'[m][p] = 0 \/ peer'[m][p] = 2
    BY <1>1 DEF Closed
  <2>1. CASE p < i /\ m < i
    BY <2>1, <1>1, <1>2 DEF Closed
  <2>2. CASE p = i /\ m = i
    BY <2>2, <1>1, <1>3
  <2>3. CASE p = i /\ m < i
    <3>0. i >= i
      BY <1>1
    <3>1. peer[i][m] = peer[m][i] /\ peer[m][i] \in {0, 1}
      BY <2>3, <3>0, <1>1 DEF OpenOnce
    <3>2. peer[i][m] > 0 => m \in chosen
      BY <1>1 DEF ListChosen
    <3>3. /\ peer'[m][i] = peer[m][i] + (IF m \in chosen THEN 1 ELSE 0)
          /\ peer'[i][m] = (IF m \in chosen THEN 1 ELSE 0)
      BY <2>3, <1>1, <1>2
    <3>4. CASE m \in chosen
      BY <3>1, <3>3, <3>4, <2>3, <1>1
    <3>5. CASE m \notin chosen
      BY <3>1, <3>2, <3>3, <3>5, <2>3, <1>1
    <3> QED
      BY <3>4, <3>5
  <2>4. CASE p < m
    <3>1. m \in Nat /\ p \in Nat
      BY <1>1
    <3>2. ~(m < p) /\ m # p
      BY <2>4, <3>1
    <3> QED
      BY <3>2
  <2> QED
    BY <2>1, <2>2, <2>3, <2>4, <1>1
<1>8. ListChosen'
  BY <1>1 DEF ListChosen, Known
<1>9. LateDrawn'
  <2>1. Late' = {}
    BY <1>1, <1>5 DEF Late, Known, LaterUnlinked
  <2> QED
    BY <2>1, <1>1, FS_EmptySet DEF LateDrawn
<1> QED
  BY <1>4, <1>5, <1>6, <1>7, <1>8, <1>9

\* The inductive invariant holds at all times.
LEMMA SetupInvariant == SetupSpec => []SetupInv
<1>1. SetupInv /\ [SetupNext]_setupVars => SetupInv'
  <2> SUFFICES ASSUME SetupInv, [SetupNext]_setupVars PROVE SetupInv'
    OBVIOUS
  <2>1. CASE Draw
    BY <2>1, DrawKeeps
  <2>2. CASE LinkPeers
    BY <2>2, LinkKeeps
  <2>3. CASE UNCHANGED setupVars
    BY <2>3 DEF setupVars, SetupInv, SetupTypeOK, LaterUnlinked, OpenOnce, Closed, ListChosen, LateDrawn, Late
  <2> QED
    BY <2>1, <2>2, <2>3 DEF SetupNext
<1> QED
  BY <1>1, SetupStarts, PTL DEF SetupSpec

-----------------------------------------------------------------------------
\* Setup links both ends of every connection (net_bitcoin.go:83-86), however
\* many miners there are and whatever they draw.
THEOREM LinksAreMutual == SetupSpec => []LinksMutual
<1>1. SetupInv => LinksMutual
  <2> SUFFICES ASSUME SetupInv, NEW m \in Nodes, NEW p \in Nodes
               PROVE  \/ m < p /\ <<peer[p][m], peer[m][p]>> \in {<<0, 0>>, <<1, 1>>, <<1, 2>>}
                      \/ m = p /\ peer[m][p] \in {0, 2}
                      \/ m > p
    BY DEF LinksMutual
  <2>1. m \in Nat /\ p \in Nat /\ next \in Nat /\ (m < next \/ m >= next) /\ (p < next \/ p >= next)
    BY DEF Nodes, SetupInv, SetupTypeOK
  <2>2. CASE m < p
    <3>1. CASE p < next
      BY <2>1, <2>2, <3>1 DEF SetupInv, Closed
    <3>2. CASE m < next /\ p >= next
      BY <2>1, <2>2, <3>2 DEF SetupInv, OpenOnce
    <3>3. CASE m >= next /\ p >= next
      BY <2>1, <2>2, <3>3 DEF SetupInv, LaterUnlinked
    <3> QED
      BY <2>1, <2>2, <3>1, <3>2, <3>3
  <2>3. CASE m = p
    BY <2>1, <2>3 DEF SetupInv, Closed, LaterUnlinked
  <2> QED
    BY <2>1, <2>2, <2>3
<1> QED
  BY <1>1, SetupInvariant, PTL

\* Setup can hang only at the last miners of a region (net_bitcoin.go:65).
THEOREM HangsOnlyAtTheEnd == SetupSpec => []HangsOnlyLate
<1>1. SetupInv => HangsOnlyLate
  <2> SUFFICES ASSUME SetupInv, Hangs
               PROVE  Cardinality({p \in Region(next) : p >= next}) < Connections
    BY DEF HangsOnlyLate
  <2> DEFINE Left == {p \in Region(next) : p >= next}
  <2>1. Left \subseteq Late
    BY DEF Hangs, Late
  <2>2. IsFiniteSet(Late) /\ Cardinality(Late) \in Nat
    BY MinersFinite, FS_CardinalityType DEF SetupInv, SetupTypeOK, Late
  <2>3. Cardinality(Left) <= Cardinality(Late) /\ Cardinality(Left) \in Nat
    BY <2>1, <2>2, FS_Subset, FS_CardinalityType
  <2>4. Cardinality(Late) <= drawn /\ drawn < Connections /\ drawn \in Nat
    BY DEF SetupInv, LateDrawn, SetupTypeOK, Hangs
  <2> QED
    BY <2>2, <2>3, <2>4, SetupAssumption
<1> QED
  BY <1>1, SetupInvariant, PTL

\* So the lists are such as BitcoinNetwork.tla takes for Peers: Broadcast and
\* sendToAllPeer can rely on a miner's being a peer of its peers.
THEOREM SetupMakesPeers == SetupSpec => [](peer \in PeerLists(Nodes))
<1>1. SetupInv => peer \in PeerLists(Nodes)
  <2> SUFFICES ASSUME SetupInv PROVE peer \in PeerLists(Nodes)
    OBVIOUS
  <2>1. ASSUME NEW m \in Nodes, NEW p \in Nodes
        PROVE  peer[m][p] \in 0..2 /\ (peer[m][p] > 0 <=> peer[p][m] > 0)
    <3>1. m \in Nat /\ p \in Nat /\ next \in Nat /\ (m < next \/ m >= next) /\ (p < next \/ p >= next)
      BY DEF Nodes, SetupInv, SetupTypeOK
    <3>2. CASE m >= next /\ p >= next
      BY <3>2 DEF SetupInv, LaterUnlinked
    <3>3. CASE m < next /\ p >= next
      BY <3>3 DEF SetupInv, OpenOnce
    <3>4. CASE m >= next /\ p < next
      BY <3>4 DEF SetupInv, OpenOnce
    <3>5. CASE m < next /\ p < next
      <4>1. m < p \/ m = p \/ p < m
        BY <3>1
      <4> QED BY <3>5, <4>1 DEF SetupInv, Closed
    <3> QED BY <3>1, <3>2, <3>3, <3>4, <3>5
  <2>2. peer \in [Nodes -> [Nodes -> 0..2]]
    BY <2>1 DEF SetupInv, SetupTypeOK
  <2> QED BY <2>1, <2>2 DEF PeerLists
<1> QED BY <1>1, SetupInvariant, PTL
=============================================================================
