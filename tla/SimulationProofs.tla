---------------------------- MODULE SimulationProofs ----------------------------
(***************************************************************************)
(* The invariants of Simulation, for every number of blocks and miners,    *)
(* every duration and every delay.                                         *)
(***************************************************************************)
EXTENDS Simulation, GraphProofs

USE DEF Genesis, None

\* The number of blocks with edges: the last block mined has none yet.
Size == mined - 1

Known(m)  == miners[m].graph.ledger
Cached(m) == ToSet(miners[m].cache)

Types ==
    /\ timestamp \in Nat /\ running \in BOOLEAN
    /\ miners \in [Miners -> [graph : Graph, cache : Seq(BlockIds)]]

\* The table below the block that is mined, whose miner is drawn already.
Blocks ==
    /\ mined \in Nat /\ Size \in 1..MaxBlock
    /\ TableOK(blocks, Size) /\ PastOK(blocks, Size)
    /\ \A b \in 1..(Size - 1) : EdgesFrom(blocks, b, blocks[b].past)
    /\ blocks[Genesis].minerID = NoMiner
    /\ blocks[Size].minerID \in Miners

Miner(m) == /\ MinerOK(blocks, Size, miners[m].graph, miners[m].cache)
            /\ Clear(blocks, miners[m].graph, miners[m].cache)

\* What may be in the queue.  Genesis is sent at once; a block that is to be
\* generated comes later than that.
IsGenBlock(e)  == /\ e = GenBlock(e.timestamp, Size) /\ e.timestamp \in Nat \ {0}
                  /\ e.timestamp <= Duration => Size < MaxBlock
IsBroadcast(e) == /\ e.block \in 0..(Size - 1) /\ e = Broadcast(e.timestamp, e.block)
                  /\ e.timestamp \in Nat /\ (e.block = Genesis => e.timestamp = 0)
IsSendBlock(e) == /\ e.block \in 0..(Size - 1) /\ e.receiver \in Miners \ {blocks[e.block].minerID}
                  /\ e = SendBlock(e.timestamp, e.block, e.receiver)
                  /\ e.timestamp \in Nat /\ (e.block = Genesis => e.timestamp = 0)

Events ==
    /\ \A e \in queue : IsGenBlock(e) \/ IsBroadcast(e) \/ IsSendBlock(e)
    /\ \A e, f \in queue : e.type = "GenBlock" /\ f.type = "GenBlock" => e = f

\* Where block b is for miner m.
Placed(b, m) ==
    IF blocks[b].minerID = m \/ b \in Known(m) \cup Cached(m)
    THEN /\ b \in Known(m) \cup Cached(m)
         /\ blocks[b].minerID = m => b \in Known(m)
         /\ blocks[b].minerID # m => InFlight(b, m) = {}
    ELSE \E e \in queue : InFlight(b, m) = {e}

IInv == /\ Types /\ Blocks /\ Events
        /\ \A m \in Miners : Miner(m)
        /\ running => \A b \in 0..(Size - 1) : \A m \in Miners : Placed(b, m)

-----------------------------------------------------------------------------
(***************************************************************************)
(* Events.                                                                 *)
(***************************************************************************)
\* The fields of the three kinds of event.
LEMMA EventFields ==
    ASSUME NEW t, NEW b, NEW m
    PROVE  /\ GenBlock(t, b).type = "GenBlock" /\ GenBlock(t, b).timestamp = t /\ GenBlock(t, b).block = b
           /\ Broadcast(t, b).type = "Broadcast" /\ Broadcast(t, b).timestamp = t
           /\ Broadcast(t, b).block = b
           /\ SendBlock(t, b, m).type = "SendBlock" /\ SendBlock(t, b, m).timestamp = t
           /\ SendBlock(t, b, m).block = b /\ SendBlock(t, b, m).receiver = m
BY DEF GenBlock, Broadcast, SendBlock

\* The type of an event tells its kind.
LEMMA EventKinds ==
    ASSUME NEW e
    PROVE  /\ IsGenBlock(e) => e.type = "GenBlock"
           /\ IsBroadcast(e) => e.type = "Broadcast"
           /\ IsSendBlock(e) => e.type = "SendBlock"
<1>1. IsGenBlock(e) => e.type = "GenBlock"
  BY EventFields DEF IsGenBlock
<1>2. IsBroadcast(e) => e.type = "Broadcast"
  BY EventFields DEF IsBroadcast
<1>3. IsSendBlock(e) => e.type = "SendBlock"
  BY EventFields DEF IsSendBlock
<1> QED BY <1>1, <1>2, <1>3

\* The stamps mineNextBlock gives lie ahead, and the last one past the end.
LEMMA Stamps ==
    ASSUME NEW t \in Nat, t <= Duration, NEW k \in Nat, NEW s \in NextStamps(t, k)
    PROVE  s \in Nat \ {0} /\ s >= t /\ (s <= Duration => k < MaxBlock)
BY OracleAssumption, BlockAssumption DEF NextStamps

About(e, b, m) == e.block = b /\ (e.type = "Broadcast" \/ (e.type = "SendBlock" /\ e.receiver = m))

\* What is on its way stays so when other events come and go.
LEMMA InFlightStays ==
    ASSUME NEW e, NEW N, queue' = (queue \ {e}) \cup N, NEW b, NEW m,
           ~ About(e, b, m), \A f \in N : ~ About(f, b, m)
    PROVE  InFlight(b, m)' = InFlight(b, m)
BY DEF InFlight, About

\* A block that nothing has happened to stays where it is.
LEMMA PlacedStays ==
    ASSUME NEW b, NEW m, Placed(b, m), InFlight(b, m)' = InFlight(b, m),
           blocks'[b].minerID = blocks[b].minerID,
           b \in (Known(m) \cup Cached(m))' <=> b \in Known(m) \cup Cached(m),
           b \in Known(m) => b \in Known(m)'
    PROVE  Placed(b, m)'
<1>1. CASE blocks[b].minerID = m \/ b \in Known(m) \cup Cached(m)
  BY <1>1 DEF Placed
<1>2. CASE ~ (blocks[b].minerID = m \/ b \in Known(m) \cup Cached(m))
  <2>1. PICK e \in queue : InFlight(b, m) = {e}
    BY <1>2 DEF Placed
  <2>2. InFlight(b, m)' = {e} /\ e \in queue'
    <3>1. e \in InFlight(b, m)'
      BY <2>1
    <3>2. InFlight(b, m)' \subseteq queue'
      BY DEF InFlight
    <3> QED BY <2>1, <3>1, <3>2
  <2> QED BY <1>2, <2>2 DEF Placed
<1> QED BY <1>1, <1>2

\* When the next block is generated no event about genesis is left.
LEMMA GenesisKnown ==
    ASSUME IInv, running, NEW e \in Earliest(queue), e.type = "GenBlock", NEW m \in Miners
    PROVE  Genesis \in Known(m)
<1>1. /\ e \in queue /\ IsGenBlock(e) /\ \A f \in queue : e.timestamp <= f.timestamp
  BY EventKinds DEF IInv, Events, Earliest
<1>2. /\ TableOK(blocks, Size) /\ 0 \in 0..(Size - 1) /\ blocks[0].minerID # m
  BY BlockAssumption DEF IInv, Blocks
<1>3. Placed(0, m)
  BY <1>2 DEF IInv
<1>4. Parents(blocks, 0) = {}
  BY <1>2 DEF TableOK, EdgesOK, Parents, IsGenesis
<1>5. 0 \notin Cached(m)
  <2> DEFINE g == miners[m].graph
             c == miners[m].cache
  <2>1. Clear(blocks, g, c) /\ c \in Seq(0..(Size - 1))
    BY DEF IInv, Miner, MinerOK
  <2> HIDE DEF c, g
  <2>2. SUFFICES ASSUME 0 \in ToSet(c) PROVE FALSE
    BY DEF Cached, c
  <2>3. PICK i \in 1..Len(c) : c[i] = 0
    BY <2>1, <2>2, ToSetIs
  <2>4. InsertResult(blocks, g, 0) = "Fail"
    BY <2>1, <2>3 DEF Clear, Drained
  <2> QED BY <1>4, <2>4 DEF InsertResult, SeenAllAncestors
<1>6. ASSUME 0 \notin Known(m) PROVE FALSE
  <2>1. PICK f \in queue : InFlight(0, m) = {f}
    BY <1>2, <1>3, <1>5, <1>6 DEF Placed
  <2>2. f.block = 0 /\ f.type # "GenBlock"
    BY <2>1 DEF InFlight
  <2>3. IsBroadcast(f) \/ IsSendBlock(f)
    BY <2>2, EventKinds DEF IInv, Events
  <2>4. f.timestamp = 0
    BY <2>2, <2>3 DEF IsBroadcast, IsSendBlock
  <2> QED BY <1>1, <2>4 DEF IsGenBlock
<1> QED BY <1>6

-----------------------------------------------------------------------------
(***************************************************************************)
(* The steps.                                                              *)
(***************************************************************************)
\* At the start genesis is about to be sent to everyone.
LEMMA Initially == Init => IInv
<1> SUFFICES ASSUME Init PROVE IInv
  OBVIOUS
<1>1. PICK m \in Miners, r \in 0..MaxResidual, s \in NextStamps(0, 1) :
        blocks = MineBlock(GenesisTable, 1, m, r) /\ queue = {GenBlock(s, 1), Broadcast(0, 0)}
  BY DEF Init, OracleInit, Mine
<1>2. /\ timestamp = 0 /\ running = TRUE /\ mined = 2 /\ Size = 1
      /\ miners = [x \in Miners |-> NewHonestMiner]
  BY DEF Init, OracleInit, Size
<1>3. 1 <= MaxBlock /\ MaxBlock \in Nat
  BY BlockAssumption, OracleAssumption
<1>4. TableOK(blocks, 1) /\ Agree(GenesisTable, blocks, 1) /\ blocks[1].minerID = m
  BY <1>1, <1>3, GenesisTableOK, MineKeepsTable
<1>5. blocks[0] = GenesisTable[0] /\ GenesisTable[0].minerID = NoMiner /\ GenesisTable[0].past = {}
  <2>1. 0 \in BlockIds /\ 0 \in 0..(1 - 1)
    BY <1>3 DEF BlockIds
  <2> QED BY <1>4, <2>1 DEF Agree, GenesisTable, BlankBlock
<1>6. PastOK(blocks, 1)
  BY <1>5 DEF PastOK
<1>7. Blocks
  BY <1>2, <1>3, <1>4, <1>5, <1>6 DEF Blocks
<1>8. \A x \in Miners : miners[x].graph = NewLocalGraph /\ miners[x].cache = <<>>
  BY <1>2 DEF NewHonestMiner
<1>9. Types
  <2>1. NewLocalGraph \in Graph
    BY EmptyGraphOK DEF GraphOK
  <2> QED BY <1>2, <2>1 DEF Types, NewHonestMiner
<1>10. Events
  <2>1. IsGenBlock(GenBlock(s, 1))
    <3>1. s \in Nat \ {0} /\ (s <= Duration => 1 < MaxBlock)
      BY Stamps, OracleAssumption
    <3> QED BY <1>2, <3>1, EventFields DEF IsGenBlock
  <2>2. IsBroadcast(Broadcast(0, 0))
    BY <1>2, EventFields DEF IsBroadcast
  <2>3. GenBlock(s, 1).type = "GenBlock" /\ Broadcast(0, 0).type # "GenBlock"
    BY EventFields
  <2> QED BY <1>1, <2>1, <2>2, <2>3 DEF Events
<1>11. ASSUME NEW x \in Miners PROVE Miner(x)
  <2>1. GraphOK(blocks, Size, NewLocalGraph)
    BY EmptyGraphOK
  <2>2. Len(<<>>) = 0 /\ DOMAIN <<>> = {} /\ <<>> \in Seq(0..(Size - 1))
    OBVIOUS
  <2>3. Clear(blocks, NewLocalGraph, <<>>)
    BY <2>2 DEF Clear, Drained, IsInjective, ToSet
  <2> QED BY <1>8, <2>1, <2>2, <2>3 DEF Miner, MinerOK
<1>12. ASSUME NEW x \in Miners PROVE Placed(0, x)
  <2>1. Known(x) = {} /\ Cached(x) = {}
    BY <1>8 DEF Known, Cached, NewLocalGraph, ToSet
  <2>2. blocks[0].minerID # x
    BY <1>5, BlockAssumption
  <2>3. InFlight(0, x) = {Broadcast(0, 0)}
    BY <1>1, EventFields DEF InFlight
  <2> QED BY <1>1, <2>1, <2>2, <2>3 DEF Placed
<1>13. \A b \in 0..(Size - 1) : b = 0
  BY <1>2
<1> QED BY <1>7, <1>9, <1>10, <1>11, <1>12, <1>13 DEF IInv

\* BroadcastEvent.Run: one event becomes one for each other miner.
LEMMA BroadcastKeeps ==
    ASSUME IInv, NEW e \in queue, Pop(e), RunBroadcastEvent(e)
    PROVE  IInv'
<1> DEFINE b == e.block
           t == e.timestamp
           N == RunBroadcast(blocks, t, b)
<1>1. /\ e.type = "Broadcast" /\ queue' = Enqueue(queue \ {e}, N, t)
      /\ blocks' = blocks /\ mined' = mined /\ miners' = miners
      /\ running /\ running' = running /\ timestamp' = t
  BY DEF Pop, RunBroadcastEvent
<1>2. IsBroadcast(e) /\ b \in 0..(Size - 1) /\ t \in Nat /\ (b = 0 => t = 0) /\ blocks[0].minerID = NoMiner
  BY <1>1, EventKinds DEF IInv, Events, IsBroadcast, Blocks
<1>3. \A m \in Miners : GetDelay(blocks, m, b) \in Nat /\ (b = 0 => GetDelay(blocks, m, b) = 0)
  <2>1. HonestDelay \in Nat /\ AttackerIn \in Nat /\ AttackerOut \in Nat
    BY NetworkAssumption
  <2> SUFFICES ASSUME NEW m \in Miners
               PROVE  GetDelay(blocks, m, b) \in Nat /\ (b = 0 => GetDelay(blocks, m, b) = 0)
    OBVIOUS
  <2> DEFINE x == blocks[b].minerID
  <2>3. GetDelay(blocks, m, b) = CASE x = NoMiner -> 0
                                   [] x \in Attackers -> AttackerOut
                                   [] x \notin Attackers \cup {NoMiner} /\ m \in Attackers -> AttackerIn
                                   [] OTHER -> HonestDelay
    BY DEF GetDelay
  <2>2. NoMiner \notin Attackers /\ (b = 0 => x = NoMiner)
    BY <1>2, BlockAssumption, NetworkAssumption
  <2> HIDE DEF x
  <2>4. GetDelay(blocks, m, b) \in {0, AttackerOut, AttackerIn, HonestDelay}
    BY <2>3
  <2>5. x = NoMiner => GetDelay(blocks, m, b) = 0
    BY <2>2, <2>3
  <2> QED BY <2>1, <2>2, <2>4, <2>5
<1>4. N = {SendBlock(t + GetDelay(blocks, m, b), b, m) : m \in Miners \ {blocks[b].minerID}}
  BY DEF RunBroadcast
<1> HIDE DEF N
<1>5. ASSUME NEW f \in N
      PROVE  /\ \E m \in Miners \ {blocks[b].minerID} : f = SendBlock(t + GetDelay(blocks, m, b), b, m)
             /\ IsSendBlock(f) /\ f.timestamp >= t /\ f.block = b /\ f.type = "SendBlock"
  <2>1. PICK m \in Miners \ {blocks[b].minerID} : f = SendBlock(t + GetDelay(blocks, m, b), b, m)
    BY <1>4
  <2>2. t + GetDelay(blocks, m, b) \in Nat /\ t + GetDelay(blocks, m, b) >= t
        /\ (b = 0 => t + GetDelay(blocks, m, b) = 0)
    BY <1>2, <1>3
  <2>3. /\ f.type = "SendBlock" /\ f.timestamp = t + GetDelay(blocks, m, b)
        /\ f.block = b /\ f.receiver = m
    BY <2>1, EventFields
  <2> HIDE DEF b, t
  <2> QED BY <1>2, <2>1, <2>2, <2>3 DEF IsSendBlock
<1>6. queue' = (queue \ {e}) \cup N
  BY <1>1, <1>5 DEF Enqueue
<1>7. Size' = Size
  BY <1>1 DEF Size
<1>8. Types'
  BY <1>1, <1>2 DEF IInv, Types
<1>9. Blocks'
  BY <1>1, <1>7 DEF IInv, Blocks
<1>10. ASSUME NEW f PROVE /\ IsGenBlock(f) => IsGenBlock(f)'
                          /\ IsBroadcast(f) => IsBroadcast(f)'
                          /\ IsSendBlock(f) => IsSendBlock(f)'
  BY <1>1, <1>7 DEF IsGenBlock, IsBroadcast, IsSendBlock
<1>11. Events'
  <2>1. \A f \in queue' : (IsGenBlock(f) \/ IsBroadcast(f) \/ IsSendBlock(f))'
    BY <1>5, <1>6, <1>10 DEF IInv, Events
  <2>2. \A f, h \in queue' : f.type = "GenBlock" /\ h.type = "GenBlock" => f = h
    BY <1>5, <1>6 DEF IInv, Events
  <2> QED BY <2>1, <2>2 DEF Events
<1>12. \A m \in Miners : Miner(m)'
  BY <1>1, <1>7 DEF IInv, Miner
<1>13. \A m : Known(m)' = Known(m) /\ Cached(m)' = Cached(m)
  BY <1>1 DEF Known, Cached
<1>14. ASSUME NEW a \in 0..(Size - 1), NEW m \in Miners PROVE Placed(a, m)'
  <2>1. Placed(a, m)
    BY <1>1 DEF IInv
  <2>2. CASE a # b
    <3>1. ~ About(e, a, m) /\ \A f \in N : ~ About(f, a, m)
      BY <1>5, <2>2 DEF About
    <3>2. InFlight(a, m)' = InFlight(a, m)
      BY <1>6, <3>1, InFlightStays, ZenonT(60)
    <3> QED BY <1>1, <1>13, <2>1, <3>2, PlacedStays
  <2>3. CASE a = b /\ blocks[b].minerID = m
    BY <1>1, <1>13, <2>1, <2>3 DEF Placed
  <2>4. CASE a = b /\ blocks[b].minerID # m
    <3>1. e \in InFlight(a, m)
      BY <1>1, <2>4 DEF InFlight
    <3>2. InFlight(a, m) = {e} /\ b \notin Known(m) \cup Cached(m)
      BY <2>1, <2>4, <3>1 DEF Placed
    <3> DEFINE s == SendBlock(t + GetDelay(blocks, m, b), b, m)
    <3>3. s \in N /\ s.type = "SendBlock" /\ s.block = b /\ s.receiver = m
      BY <1>4, <2>4, EventFields
    <3>4. \A f \in N : f.receiver = m => f = s
      <4> SUFFICES ASSUME NEW f \in N, f.receiver = m PROVE f = s
        OBVIOUS
      <4>1. PICK x \in Miners \ {blocks[b].minerID} : f = SendBlock(t + GetDelay(blocks, x, b), b, x)
        BY <1>5
      <4>2. f.receiver = x
        BY <4>1, EventFields
      <4> QED BY <4>1, <4>2
    <3> HIDE DEF s
    <3>5. InFlight(a, m)' = {s}
      <4>1. \A f : f \in InFlight(a, m)' <=> f \in queue' /\ f.block = b
                      /\ (f.type = "Broadcast" \/ (f.type = "SendBlock" /\ f.receiver = m))
        BY <2>4 DEF InFlight
      <4>2. \A f \in queue \ {e} : f \notin InFlight(a, m)'
        BY <2>4, <3>2 DEF InFlight
      <4>3. \A f \in N : f \in InFlight(a, m)' => f = s
        BY <1>5, <3>4, <4>1
      <4>4. s \in InFlight(a, m)' /\ InFlight(a, m)' \subseteq queue'
        BY <1>6, <3>3, <4>1
      <4> QED BY <1>6, <4>2, <4>3, <4>4
    <3>6. s \in queue'
      BY <1>6, <3>3
    <3> QED BY <1>1, <1>13, <2>4, <3>2, <3>5, <3>6 DEF Placed
  <2> QED BY <2>2, <2>3, <2>4
<1> QED BY <1>7, <1>8, <1>9, <1>11, <1>12, <1>14 DEF IInv

\* SendBlockEvent.Run: the receiver takes the block into its graph, with those
\* that waited for it, or into its cache.
LEMMA SendBlockKeeps ==
    ASSUME IInv, NEW e \in queue, Pop(e), RunSendBlock(e)
    PROVE  IInv'
<1> DEFINE b == e.block
           x == e.receiver
           n == Size
           hm == miners[x]
           r == ReceiveBlock(blocks, hm, b)
<1>1. /\ e.type = "SendBlock" /\ blocks' = blocks /\ mined' = mined
      /\ running /\ running' = running /\ timestamp' = e.timestamp
      /\ miners' = [miners EXCEPT ![x] = [graph |-> r.graph, cache |-> r.cache]]
      /\ queue' = Enqueue(queue \ {e}, UNION {NetworkRelay(e.timestamp, k) : k \in ToSet(r.relays)},
                          e.timestamp)
  BY DEF Pop, RunSendBlock
<1>2. queue' = queue \ {e} /\ queue' = (queue \ {e}) \cup {}
  <2>1. UNION {NetworkRelay(e.timestamp, k) : k \in ToSet(r.relays)} = {}
    BY DEF NetworkRelay
  <2> QED BY <1>1, <2>1 DEF Enqueue
<1>3. IsSendBlock(e) /\ b \in 0..(n - 1) /\ x \in Miners /\ blocks[b].minerID # x /\ e.timestamp \in Nat
  BY <1>1, EventKinds DEF IInv, Events, IsSendBlock
<1>4. /\ TableOK(blocks, n) /\ MinerOK(blocks, n, hm.graph, hm.cache)
      /\ Clear(blocks, hm.graph, hm.cache) /\ n \in Nat
      /\ miners \in [Miners -> [graph : Graph, cache : Seq(BlockIds)]]
  BY <1>3, TableFacts DEF IInv, Types, Blocks, Miner
<1>5. Received(blocks, n, hm.graph, hm.cache, b, r)
  <2> HIDE DEF n, hm, b, r
  <2> QED BY <1>3, <1>4, ReceiveBlockOK DEF r
<1>6. e \in InFlight(b, x) /\ Placed(b, x)
  BY <1>1, <1>3 DEF InFlight, IInv
<1>7. InFlight(b, x) = {e} /\ b \notin Known(x) \cup Cached(x)
  BY <1>3, <1>6 DEF Placed
<1>8. b \notin ToSet(hm.cache)
  BY <1>7 DEF Cached
<1>9. Size' = n
  BY <1>1 DEF Size
<1> HIDE DEF r
<1>10. /\ MinerOK(blocks, n, r.graph, r.cache)
       /\ r.graph.ledger \cup ToSet(r.cache) = Known(x) \cup Cached(x) \cup {b}
       /\ Known(x) \subseteq r.graph.ledger
       /\ Clear(blocks, r.graph, r.cache)
  <2>1. Entered(blocks, hm.graph.ledger, r.relays, r.graph.ledger)
    BY <1>5 DEF Received
  <2>2. hm.graph.ledger \subseteq r.graph.ledger
    BY <2>1 DEF Entered
  <2>3. r.graph.ledger \cup ToSet(r.cache) = hm.graph.ledger \cup ToSet(hm.cache) \cup {b}
    BY <1>5 DEF Received
  <2>4. MinerOK(blocks, n, r.graph, r.cache) /\ Clear(blocks, r.graph, r.cache)
    BY <1>4, <1>5, <1>8 DEF Received
  <2> QED BY <2>2, <2>3, <2>4 DEF Known, Cached
<1>11. r.graph \in Graph /\ r.cache \in Seq(BlockIds)
  <2>1. 0..(n - 1) \subseteq BlockIds
    BY <1>4, TableFacts
  <2>2. r.graph \in Graph /\ r.cache \in Seq(0..(n - 1))
    BY <1>10 DEF MinerOK, GraphOK
  <2> HIDE DEF n
  <2> QED BY <2>1, <2>2, SeqMonotonic
<1>12. /\ miners'[x].graph = r.graph /\ miners'[x].cache = r.cache
       /\ \A m \in Miners \ {x} : miners'[m] = miners[m]
       /\ miners' \in [Miners -> [graph : Graph, cache : Seq(BlockIds)]]
  <2> DEFINE v == [graph |-> r.graph, cache |-> r.cache]
  <2>1. v \in [graph : Graph, cache : Seq(BlockIds)] /\ v.graph = r.graph /\ v.cache = r.cache
    BY <1>11
  <2> HIDE DEF v
  <2>2. miners' = [miners EXCEPT ![x] = v]
    BY <1>1 DEF v
  <2>3. miners'[x] = v
    BY <1>3, <1>4, <2>2
  <2> QED BY <1>3, <1>4, <2>1, <2>2, <2>3
<1>13. /\ Known(x)' = r.graph.ledger /\ Cached(x)' = ToSet(r.cache)
       /\ \A m \in Miners \ {x} : Known(m)' = Known(m) /\ Cached(m)' = Cached(m)
  BY <1>12 DEF Known, Cached
<1>14. Types'
  BY <1>1, <1>3, <1>12 DEF IInv, Types
<1>15. Blocks'
  BY <1>1, <1>9 DEF IInv, Blocks
<1>16. ASSUME NEW f PROVE /\ IsGenBlock(f) => IsGenBlock(f)'
                          /\ IsBroadcast(f) => IsBroadcast(f)'
                          /\ IsSendBlock(f) => IsSendBlock(f)'
  BY <1>1, <1>9 DEF IsGenBlock, IsBroadcast, IsSendBlock
<1>17. Events'
  <2>1. \A f \in queue' : (IsGenBlock(f) \/ IsBroadcast(f) \/ IsSendBlock(f))'
    BY <1>2, <1>16 DEF IInv, Events
  <2>2. \A f, h \in queue' : f.type = "GenBlock" /\ h.type = "GenBlock" => f = h
    BY <1>2 DEF IInv, Events
  <2> QED BY <2>1, <2>2 DEF Events
<1>18. ASSUME NEW m \in Miners PROVE Miner(m)'
  <2>1. CASE m = x
    BY <1>1, <1>9, <1>10, <1>12, <2>1 DEF Miner
  <2>2. CASE m # x
    BY <1>1, <1>9, <1>12, <2>2 DEF IInv, Miner
  <2> QED BY <2>1, <2>2
<1>19. ASSUME NEW a \in 0..(n - 1), NEW m \in Miners PROVE Placed(a, m)'
  <2>1. Placed(a, m)
    BY <1>1 DEF IInv
  <2>2. CASE a = b /\ m = x
    <3>1. InFlight(a, m)' = {}
      BY <1>2, <1>7, <2>2 DEF InFlight
    <3> QED BY <1>1, <1>3, <1>10, <1>13, <2>2, <3>1 DEF Placed
  <2>3. CASE ~ (a = b /\ m = x)
    <3>1. ~ About(e, a, m) /\ \A f \in {} : ~ About(f, a, m)
      BY <1>1, <2>3 DEF About
    <3>2. InFlight(a, m)' = InFlight(a, m)
      <4> DEFINE N == {}
      <4>1. queue' = (queue \ {e}) \cup N /\ \A f \in N : ~ About(f, a, m)
        BY <1>2
      <4> HIDE DEF N
      <4> QED BY <3>1, <4>1, InFlightStays
    <3>3. a \in (Known(m) \cup Cached(m))' <=> a \in Known(m) \cup Cached(m)
      <4>1. CASE m = x
        BY <1>10, <1>13, <2>3, <4>1
      <4>2. CASE m # x
        BY <1>13, <4>2
      <4> QED BY <4>1, <4>2
    <3>4. a \in Known(m) => a \in Known(m)'
      BY <1>10, <1>13
    <3> QED BY <1>1, <2>1, <3>2, <3>3, <3>4, PlacedStays
  <2> QED BY <2>2, <2>3
<1> QED BY <1>9, <1>14, <1>15, <1>17, <1>18, <1>19 DEF IInv

\* The last event, past the duration, ends the run.
LEMMA StopKeeps ==
    ASSUME IInv, NEW e \in queue, queue' = queue \ {e}, timestamp' = e.timestamp, running' = FALSE,
           UNCHANGED <<blocks, mined, miners>>
    PROVE  IInv'
<1>1. Size' = Size
  BY DEF Size
<1>2. e.timestamp \in Nat
  BY DEF IInv, Events, IsGenBlock, IsBroadcast, IsSendBlock
<1>3. Types' /\ Blocks'
  BY <1>1, <1>2 DEF IInv, Types, Blocks
<1>4. ASSUME NEW f PROVE /\ IsGenBlock(f) => IsGenBlock(f)'
                         /\ IsBroadcast(f) => IsBroadcast(f)'
                         /\ IsSendBlock(f) => IsSendBlock(f)'
  BY <1>1 DEF IsGenBlock, IsBroadcast, IsSendBlock
<1>5. Events'
  <2>1. \A f \in queue' : (IsGenBlock(f) \/ IsBroadcast(f) \/ IsSendBlock(f))'
    BY <1>4 DEF IInv, Events
  <2> QED BY <2>1 DEF IInv, Events
<1>6. \A m \in Miners : Miner(m)'
  BY <1>1 DEF IInv, Miner
<1> QED BY <1>3, <1>5, <1>6 DEF IInv

\* GenBlockEvent.Run: the block mined gets its edges and enters its miner's
\* graph, its broadcast is queued, and the next block is mined.
LEMMA GenBlockKeeps ==
    ASSUME IInv, NEW e \in Earliest(queue), Pop(e), RunGenBlock(e)
    PROVE  IInv'
<1>0. PICK n, t, m, r, g, c, F, h, C :
        /\ n = Size /\ t = e.timestamp /\ m = blocks[n].minerID /\ r = blocks[n].residual
        /\ g = miners[m].graph /\ c = miners[m].cache
        /\ F = FillNewBlock(blocks, g, n) /\ h = Insert(F, g, n) /\ C = blocks'
  OBVIOUS
<1> DEFINE k == n + 1
<1>1. /\ e.type = "GenBlock" /\ e \in queue /\ running /\ running' = running /\ timestamp' = t
      /\ t <= Duration /\ mined' = mined + 1
  BY <1>0 DEF Pop, RunGenBlock, Earliest
<1>2. IsGenBlock(e) /\ e.block = n /\ t \in Nat \ {0} /\ n < MaxBlock
  BY <1>0, <1>1, EventKinds, EventFields DEF IInv, Events, IsGenBlock
<1>3. /\ TableOK(blocks, n) /\ PastOK(blocks, n) /\ mined = k /\ n \in Nat /\ n >= 1 /\ mined \in Nat
      /\ \A b \in 1..(n - 1) : EdgesFrom(blocks, b, blocks[b].past)
      /\ blocks[0].minerID = NoMiner /\ m \in Miners /\ n <= MaxBlock /\ k <= MaxBlock
      /\ MaxBlock \in Nat /\ n \in BlockIds
  BY <1>0, <1>2, BlockAssumption DEF IInv, Blocks, Size, BlockIds
<1>4. Size' = k
  BY <1>0, <1>1, <1>3 DEF Size
<1>5. r \in 0..MaxResidual /\ MineBlock(blocks, n, m, r) = blocks
  <2>1. blocks \in [BlockIds -> Block]
    BY <1>0, <1>3 DEF TableOK
  <2>2. r \in 0..MaxResidual
    BY <1>0, <1>3, <2>1 DEF Block
  <2> QED BY <1>0, <1>3, <2>2, MineKeepsTable
<1>6. MinerOK(blocks, n, g, c) /\ Clear(blocks, g, c) /\ GraphOK(blocks, n, g) /\ c \in Seq(0..(n - 1))
  BY <1>0, <1>3 DEF IInv, Miner, MinerOK
<1>7. Genesis \in g.ledger
  BY <1>0, <1>1, <1>3, GenesisKnown DEF Known
<1>8. F = FillNewBlock(MineBlock(blocks, n, m, r), g, n)
  BY <1>0, <1>5
<1>9. PICK m2 \in Miners, r2 \in 0..MaxResidual, s \in NextStamps(t, k) :
        /\ C = MineBlock(F, k, m2, r2)
        /\ queue' = Enqueue(queue \ {e}, NetworkBroadcast(t, n) \cup {GenBlock(s, k)}, t)
  BY <1>0, <1>2, <1>3, ZenonT(60) DEF RunGenBlock, Mine
<1>10. miners' = [miners EXCEPT ![m] = GenerateBlock(F, miners[m], n)]
  BY <1>0, <1>2 DEF RunGenBlock
<1>11. /\ TableOK(F, k) /\ Agree(blocks, F, n)
       /\ TableOK(C, k) /\ Agree(F, C, k) /\ C[k].minerID = m2
       /\ C[n].minerID = m /\ \A b \in 0..(n - 1) : C[b].minerID = blocks[b].minerID
       /\ h \in Graph /\ h.ledger = g.ledger \cup {n}
  <2>1. F = FillNewBlock(blocks, g, n) /\ h = Insert(F, g, n) /\ m = blocks[n].minerID
    BY <1>0
  <2> QED BY <1>2, <1>3, <1>6, <1>7, <1>9, <2>1, GenerateThenMine
<1>12. /\ \A x, d : MinerOK(blocks, n, x, d) /\ Clear(blocks, x, d)
                      => MinerOK(C, k, x, d) /\ Clear(C, x, d)
       /\ MinerOK(C, k, h, c) /\ Clear(C, h, c)
  <2>1. F = FillNewBlock(blocks, g, n) /\ h = Insert(F, g, n) /\ m = blocks[n].minerID
    BY <1>0
  <2> QED BY <1>2, <1>3, <1>6, <1>7, <1>9, <2>1, GenerateThenMine
<1>13. /\ PastOK(F, k)
       /\ EdgesFrom(F, n, F[n].past)
       /\ \A b \in 1..(n - 1) : EdgesFrom(F, b, F[b].past)
  BY <1>3, <1>5, <1>6, <1>7, <1>8, OwnBlockPast
<1>14. /\ PastOK(C, k)
       /\ \A b \in 1..(k - 1) : EdgesFrom(C, b, C[b].past)
  <2>1. \A b \in 1..(k - 1) : b \in 1..(n - 1) \/ b = n
    BY <1>3
  <2> HIDE DEF k
  <2>2. \A b \in 1..(k - 1) : EdgesFrom(F, b, F[b].past)
    BY <1>13, <2>1
  <2> QED BY <1>11, <1>13, <2>2, PastStays
<1>15. Blocks'
  <2>1. 0 \in 0..(n - 1) /\ k \in 1..MaxBlock /\ k + 1 \in Nat /\ mined' = k + 1
    BY <1>0, <1>1, <1>3
  <2> HIDE DEF k
  <2>2. mined' \in Nat /\ Size' \in 1..MaxBlock /\ C[0].minerID = NoMiner /\ C[Size'].minerID \in Miners
    BY <1>0, <1>3, <1>4, <1>11, <2>1
  <2> QED BY <1>0, <1>4, <1>11, <1>14, <2>2 DEF Blocks
<1>16. /\ miners'[m].graph = h /\ miners'[m].cache = c
       /\ \A x \in Miners \ {m} : miners'[x] = miners[x]
       /\ miners' \in [Miners -> [graph : Graph, cache : Seq(BlockIds)]]
  <2> DEFINE v == GenerateBlock(F, miners[m], n)
  <2>1. miners \in [Miners -> [graph : Graph, cache : Seq(BlockIds)]] /\ miners[m] \in [graph : Graph, cache : Seq(BlockIds)]
    BY <1>0, <1>3 DEF IInv, Types
  <2>2. h \in Graph
    BY <1>0, <1>11 DEF GraphOK
  <2>3. v = [miners[m] EXCEPT !.graph = h]
    BY <1>0 DEF GenerateBlock
  <2>4. v \in [graph : Graph, cache : Seq(BlockIds)] /\ v.graph = h /\ v.cache = c
    <3> DEFINE w == miners[m]
    <3>1. w \in [graph : Graph, cache : Seq(BlockIds)]
      BY <1>0, <2>1
    <3> HIDE DEF w
    <3>2. /\ [w EXCEPT !.graph = h] \in [graph : Graph, cache : Seq(BlockIds)]
          /\ [w EXCEPT !.graph = h].graph = h /\ [w EXCEPT !.graph = h].cache = w.cache
      BY <1>0, <2>2, <3>1
    <3> QED BY <1>0, <2>3, <3>2 DEF w
  <2> HIDE DEF v
  <2>5. miners' = [miners EXCEPT ![m] = v]
    BY <1>0, <1>10 DEF v
  <2> QED BY <1>0, <1>3, <2>1, <2>4, <2>5
<1>17. /\ Known(m)' = Known(m) \cup {n} /\ Cached(m)' = Cached(m)
       /\ \A x \in Miners \ {m} : Known(x)' = Known(x) /\ Cached(x)' = Cached(x)
  BY <1>0, <1>11, <1>16 DEF Known, Cached
<1>18. Types'
  BY <1>0, <1>1, <1>2, <1>16 DEF IInv, Types
<1>19. ASSUME NEW x \in Miners PROVE Miner(x)'
  <2>1. MinerOK(blocks, n, miners[x].graph, miners[x].cache) /\ Clear(blocks, miners[x].graph, miners[x].cache)
    BY <1>0 DEF IInv, Miner
  <2> HIDE DEF k
  <2>2. MinerOK(C, k, miners'[x].graph, miners'[x].cache) /\ Clear(C, miners'[x].graph, miners'[x].cache)
    <3>1. CASE x = m
      BY <1>12, <1>16, <3>1
    <3>2. CASE x # m
      BY <1>12, <1>16, <2>1, <3>2
    <3> QED BY <3>1, <3>2
  <2> QED BY <1>0, <1>4, <2>2 DEF Miner
<1> DEFINE N == {Broadcast(t, n), GenBlock(s, k)}
<1>20. s \in Nat \ {0} /\ s >= t /\ (s <= Duration => k < MaxBlock)
  <2>1. k \in Nat /\ t \in Nat
    BY <1>2, <1>3
  <2> HIDE DEF k
  <2> QED BY <1>1, <1>9, <2>1, Stamps
<1>21. queue' = (queue \ {e}) \cup N
  <2>1. \A f \in N : f.timestamp >= t
    BY <1>2, <1>20, EventFields
  <2>2. N = NetworkBroadcast(t, n) \cup {GenBlock(s, k)}
    BY DEF NetworkBroadcast
  <2> HIDE DEF N
  <2> QED BY <1>9, <2>1, <2>2 DEF Enqueue
<1>22. \A f \in queue \ {e} : /\ IsBroadcast(f) \/ IsSendBlock(f)
                              /\ f.block \in 0..(n - 1) /\ f.type # "GenBlock"
  <2>1. \A f \in queue \ {e} : f.type # "GenBlock"
    BY <1>1 DEF IInv, Events
  <2>2. \A f \in queue \ {e} : IsBroadcast(f) \/ IsSendBlock(f)
    BY <2>1, EventKinds DEF IInv, Events
  <2> QED BY <1>0, <2>1, <2>2 DEF IsBroadcast, IsSendBlock
<1>23. ASSUME NEW f \in queue \ {e} PROVE IsBroadcast(f)' \/ IsSendBlock(f)'
  <2>1. f.block \in 0..(k - 1) /\ C[f.block].minerID = blocks[f.block].minerID
    <3>1. f.block \in 0..(n - 1)
      BY <1>0, <1>22
    <3>2. 0..(n - 1) \subseteq 0..(k - 1)
      BY <1>0, <1>3
    <3> QED BY <1>0, <1>11, <3>1, <3>2
  <2> HIDE DEF k
  <2>2. IsBroadcast(f) => IsBroadcast(f)'
    BY <1>0, <1>4, <2>1 DEF IsBroadcast
  <2>3. IsSendBlock(f) => IsSendBlock(f)'
    BY <1>0, <1>4, <2>1 DEF IsSendBlock
  <2> QED BY <1>0, <1>22, <2>2, <2>3
<1>24. IsBroadcast(Broadcast(t, n))' /\ IsGenBlock(GenBlock(s, k))'
  <2>1. n \in 0..(k - 1) /\ n # 0 /\ t \in Nat
    BY <1>0, <1>2, <1>3
  <2> HIDE DEF k
  <2>2. IsBroadcast(Broadcast(t, n))'
    <3> DEFINE f == Broadcast(t, n)
    <3>1. f.timestamp = t /\ f.block = n /\ f = Broadcast(t, n)
      BY <1>0, EventFields
    <3> HIDE DEF f
    <3>2. IsBroadcast(f)'
      BY <1>0, <1>4, <2>1, <3>1 DEF IsBroadcast
    <3> QED BY <1>0, <3>1, <3>2
  <2>3. IsGenBlock(GenBlock(s, k))'
    <3> DEFINE f == GenBlock(s, k)
    <3>1. f.timestamp = s /\ f.block = k /\ f = GenBlock(s, k)
      BY <1>0, EventFields
    <3> HIDE DEF f
    <3>2. IsGenBlock(f)'
      BY <1>0, <1>4, <1>20, <3>1 DEF IsGenBlock
    <3> QED BY <1>0, <3>1, <3>2
  <2> QED BY <1>0, <2>2, <2>3
<1>25. Events'
  <2>1. \A f \in queue' : (IsGenBlock(f) \/ IsBroadcast(f) \/ IsSendBlock(f))'
    BY <1>0, <1>21, <1>23, <1>24
  <2>2. \A f \in queue' : f.type = "GenBlock" => f = GenBlock(s, k)
    BY <1>0, <1>21, <1>22, EventFields
  <2> HIDE DEF N, k
  <2> QED BY <1>0, <2>1, <2>2 DEF Events
<1>26. ASSUME NEW b \in 0..(k - 1), NEW x \in Miners PROVE Placed(b, x)'
  <2>1. CASE b \in 0..(n - 1)
    <3>1. Placed(b, x)
      BY <1>0, <1>1, <2>1 DEF IInv
    <3>2. ~ About(e, b, x) /\ \A f \in N : ~ About(f, b, x)
      <4>1. b # n
        BY <1>0, <1>3, <2>1
      <4> QED BY <1>0, <1>1, <4>1, EventFields DEF About
    <3> HIDE DEF N
    <3>3. InFlight(b, x)' = InFlight(b, x)
      BY <1>0, <1>21, <3>2, InFlightStays
    <3>4. b # n
      BY <1>0, <1>3, <2>1
    <3>5. (b \in (Known(x) \cup Cached(x))' <=> b \in Known(x) \cup Cached(x)) /\ (b \in Known(x) => b \in Known(x)')
      BY <1>0, <1>17, <3>4
    <3>6. C[b].minerID = blocks[b].minerID
      BY <1>0, <1>11, <2>1
    <3> HIDE DEF k
    <3> QED BY <1>0, <3>1, <3>3, <3>5, <3>6, PlacedStays
  <2>2. CASE b = n
    <3>1. n \notin Known(x) \cup Cached(x)
      <4>1. MinerOK(blocks, n, miners[x].graph, miners[x].cache)
        BY <1>0 DEF IInv, Miner
      <4>2. Known(x) \subseteq 0..(n - 1) /\ Cached(x) \subseteq 0..(n - 1)
        <5>1. miners[x].cache \in Seq(0..(n - 1)) /\ Known(x) \subseteq 0..(n - 1)
          BY <1>0, <4>1 DEF MinerOK, GraphOK, Known
        <5>2. ToSet(miners[x].cache) \subseteq 0..(n - 1)
          BY <1>0, <5>1, ToSetIs
        <5> QED BY <1>0, <5>1, <5>2 DEF Cached
      <4> QED BY <1>0, <1>3, <4>2
    <3>2. InFlight(n, x)' = {Broadcast(t, n)}
      <4>1. \A f \in queue \ {e} : f.block # n
        BY <1>0, <1>3, <1>22
      <4>2. \A f : f \in InFlight(n, x)' <=> f \in queue' /\ f.block = n
                      /\ (f.type = "Broadcast" \/ (f.type = "SendBlock" /\ f.receiver = x))
        BY <1>0 DEF InFlight
      <4>3. /\ Broadcast(t, n).type = "Broadcast" /\ Broadcast(t, n).block = n
            /\ GenBlock(s, k).type = "GenBlock"
        BY <1>0, EventFields
      <4> HIDE DEF k
      <4> QED BY <1>0, <1>21, <4>1, <4>2, <4>3
    <3>3. Broadcast(t, n) \in queue'
      BY <1>0, <1>21
    <3>4. CASE x = m
      <4>1. n \in Known(x)'
        BY <1>0, <1>17, <3>4
      <4>2. C[n].minerID = x
        BY <1>0, <1>11, <3>4
      <4> HIDE DEF k
      <4> QED BY <1>0, <2>2, <4>1, <4>2 DEF Placed
    <3>5. CASE x # m
      <4>1. n \notin (Known(x) \cup Cached(x))'
        BY <1>0, <1>17, <3>1, <3>5
      <4>2. C[n].minerID # x
        BY <1>0, <1>11, <3>5
      <4> HIDE DEF k
      <4> QED BY <1>0, <2>2, <3>2, <3>3, <4>1, <4>2 DEF Placed
    <3> QED BY <1>0, <3>4, <3>5
  <2>3. b \in 0..(n - 1) \/ b = n
    BY <1>0, <1>3
  <2> QED BY <1>0, <2>1, <2>2, <2>3
<1> HIDE DEF k
<1> QED BY <1>0, <1>4, <1>15, <1>18, <1>19, <1>25, <1>26 DEF IInv


\* The conjunction is inductive.
THEOREM Inductive == Spec => []IInv
<1>1. Init => IInv
  BY Initially
<1>2. IInv /\ [Next]_vars => IInv'
  <2> SUFFICES ASSUME IInv, [Next]_vars PROVE IInv'
    OBVIOUS
  <2>1. ASSUME NEW e \in queue, Pop(e), RunGenBlock(e) PROVE IInv'
    <3>1. e \in Earliest(queue)
      BY <2>1 DEF Pop
    <3> QED BY <2>1, <3>1, GenBlockKeeps
  <2>2. ASSUME NEW e \in queue, Pop(e), RunSendBlock(e) PROVE IInv'
    BY <2>2, SendBlockKeeps
  <2>3. ASSUME NEW e \in queue, Pop(e), RunBroadcastEvent(e) PROVE IInv'
    BY <2>3, BroadcastKeeps
  <2>4. CASE Stop /\ UNCHANGED miners
    <3>1. PICK e \in Earliest(queue) : timestamp' = e.timestamp /\ queue' = queue \ {e}
      BY <2>4 DEF Stop
    <3>2. e \in queue /\ running' = FALSE /\ UNCHANGED <<blocks, mined, miners>>
      BY <2>4 DEF Stop, Earliest
    <3> QED BY <3>1, <3>2, StopKeeps
  <2>5. CASE UNCHANGED vars
    <3>1. /\ timestamp' = timestamp /\ queue' = queue /\ running' = running
          /\ blocks' = blocks /\ mined' = mined /\ miners' = miners
      BY <2>5 DEF vars, oracleVars
    <3>2. Size' = Size /\ \A m : Known(m)' = Known(m) /\ Cached(m)' = Cached(m)
      BY <3>1 DEF Size, Known, Cached
    <3>3. /\ Types' <=> Types
          /\ Blocks' <=> Blocks
          /\ \A m : Miner(m)' <=> Miner(m)
      BY <3>1, <3>2 DEF Types, Blocks, Miner
    <3>4. \A e : /\ IsGenBlock(e)' <=> IsGenBlock(e)
                 /\ IsBroadcast(e)' <=> IsBroadcast(e)
                 /\ IsSendBlock(e)' <=> IsSendBlock(e)
      BY <3>1, <3>2 DEF IsGenBlock, IsBroadcast, IsSendBlock
    <3>5. Events' <=> Events
      BY <3>1, <3>4 DEF Events
    <3>6. \A b, m : InFlight(b, m)' = InFlight(b, m)
      BY <3>1 DEF InFlight
    <3>7. \A b, m : Placed(b, m)' <=> Placed(b, m)
      BY <3>1, <3>2, <3>6 DEF Placed
    <3> QED BY <3>1, <3>2, <3>3, <3>5, <3>7 DEF IInv
  <2> QED BY <2>1, <2>2, <2>3, <2>4, <2>5 DEF Next, Step, Terminated
<1> QED BY <1>1, <1>2, PTL DEF Spec

-----------------------------------------------------------------------------
(***************************************************************************)
(* What it implies.                                                        *)
(***************************************************************************)
\* Whoever generates a block has a pivot tip to make its parent: the events
\* that carry genesis come before the first block does.
THEOREM GenesisIsFirst == Spec => []GenesisFirst
<1>1. ASSUME IInv PROVE GenesisFirst
  <2> SUFFICES ASSUME NEW e \in Earliest(queue), e.type = "GenBlock", running
               PROVE  miners[blocks[e.block].minerID].graph.pivotTip # None
    BY DEF GenesisFirst
  <2>1. IsGenBlock(e)
    BY <1>1, EventKinds DEF IInv, Events, Earliest
  <2>2. e.block = Size
    BY <2>1, EventFields DEF IsGenBlock
  <2>3. PICK m \in Miners : m = blocks[e.block].minerID
    BY <1>1, <2>2 DEF IInv, Blocks
  <2>4. Genesis \in miners[m].graph.ledger
    BY <1>1, GenesisKnown DEF Known
  <2>5. GraphOK(blocks, Size, miners[m].graph)
    BY <1>1 DEF IInv, Miner, MinerOK
  <2>6. miners[m].graph.pivotTip \in 0..(Size - 1)
    BY <2>4, <2>5, OwnEdges
  <2> QED BY <2>3, <2>6
<1> QED BY <1>1, Inductive, PTL

\* What waits in a cache waits for a block that is on its way.
LEMMA WaitsForOne ==
    ASSUME IInv, running, NEW m \in Miners, NEW b \in Cached(m)
    PROVE  b \in 0..(Size - 1) /\ \E a \in blocks[b].past \ Known(m) : InFlight(a, m) # {}
<1>0. PICK n, g, c : n = Size /\ g = miners[m].graph /\ c = miners[m].cache
  OBVIOUS
<1>1. /\ TableOK(blocks, n) /\ PastOK(blocks, n) /\ MinerOK(blocks, n, g, c) /\ Clear(blocks, g, c)
      /\ Known(m) = g.ledger /\ Cached(m) = ToSet(c)
  BY <1>0 DEF IInv, Blocks, Miner, Known, Cached
<1>2. c \in Seq(0..(n - 1)) /\ g.ledger \subseteq 0..(n - 1)
  BY <1>1 DEF MinerOK, GraphOK
<1>3. ToSet(c) = {c[i] : i \in 1..Len(c)} /\ ToSet(c) \subseteq 0..(n - 1)
  BY <1>2, ToSetIs
<1>4. ASSUME NEW a \in ToSet(c) PROVE ~ (Parents(blocks, a) \subseteq g.ledger)
  <2>1. PICK i \in 1..Len(c) : c[i] = a
    BY <1>3, <1>4
  <2>2. InsertResult(blocks, g, a) = "Fail"
    BY <1>1, <2>1 DEF Clear, Drained
  <2> QED BY <2>2 DEF InsertResult, SeenAllAncestors
<1>5. /\ n \in Nat /\ b \in 0..(n - 1)
      /\ \A a \in 0..(n - 1) : /\ blocks[a].past \subseteq 0..(a - 1)
                               /\ Parents(blocks, a) \subseteq blocks[a].past
      /\ \A a \in blocks[b].past : blocks[a].past \subseteq blocks[b].past
  <2>1. n \in Nat /\ b \in 0..(n - 1)
    BY <1>1, <1>3, TableFacts
  <2> QED BY <1>1, <2>1, PastFacts
<1> DEFINE S == blocks[b].past \ g.ledger
<1>6. S \in SUBSET Nat /\ S # {} /\ \A a \in S : a \in 0..(n - 1) /\ a \in blocks[b].past
  <2>1. ~ (Parents(blocks, b) \subseteq g.ledger)
    BY <1>1, <1>4
  <2>2. blocks[b].past \subseteq 0..(b - 1) /\ Parents(blocks, b) \subseteq blocks[b].past
    BY <1>5
  <2> QED BY <1>5, <2>1, <2>2
<1>7. PICK a \in S : \A x \in S : a <= x
  <2> HIDE DEF S
  <2> QED BY <1>6, MinExists
<1>8. a \in 0..(n - 1) /\ a \in blocks[b].past /\ a \notin g.ledger
  BY <1>6
<1>9. Parents(blocks, a) \subseteq g.ledger
  <2> SUFFICES ASSUME NEW x \in Parents(blocks, a), x \notin g.ledger PROVE FALSE
    OBVIOUS
  <2>1. x \in 0..(a - 1) /\ x \in blocks[b].past
    BY <1>5, <1>8
  <2>2. a <= x
    BY <1>7, <2>1
  <2> QED BY <1>8, <2>1, <2>2
<1>10. a \notin Known(m) \cup Cached(m)
  BY <1>1, <1>4, <1>8, <1>9
<1>11. Placed(a, m)
  BY <1>0, <1>8 DEF IInv
<1>12. InFlight(a, m) # {}
  BY <1>10, <1>11 DEF Placed
<1> QED BY <1>0, <1>1, <1>5, <1>8, <1>12

\* Every block is, for every miner, in one place: the events that carry it,
\* the graph and the cache neither lose it nor hold it twice.
THEOREM NoBlockGetsLost == Spec => []NoBlockLost
<1>1. ASSUME IInv PROVE NoBlockLost
  <2> SUFFICES ASSUME running, NEW b \in Generated, NEW m \in Miners
               PROVE  LET known  == miners[m].graph.ledger
                          cached == {i \in DOMAIN miners[m].cache : miners[m].cache[i] = b}
                      IN  \/ /\ b \in known /\ cached = {}
                             /\ blocks[b].minerID # m => InFlight(b, m) = {}
                          \/ b \notin known /\ cached = {} /\ Cardinality(InFlight(b, m)) = 1
                          \/ /\ b \notin known /\ Cardinality(cached) = 1 /\ InFlight(b, m) = {}
                             /\ \E a \in blocks[b].past \ known : InFlight(a, m) # {}
    BY DEF NoBlockLost
  <2> DEFINE known  == miners[m].graph.ledger
             c      == miners[m].cache
             cached == {i \in DOMAIN c : c[i] = b}
  <2>1. b \in 0..(Size - 1)
    BY <1>1, LinkedIs DEF Generated, IInv, Blocks
  <2>2. Placed(b, m) /\ Known(m) = known /\ Cached(m) = ToSet(c)
    BY <1>1, <2>1 DEF IInv, Known, Cached
  <2>3. IsInjective(c) /\ ToSet(c) \cap known = {} /\ c \in Seq(0..(Size - 1))
    BY <1>1 DEF IInv, Miner, MinerOK, Clear
  <2>4. b \notin Cached(m) => cached = {}
    BY <2>2 DEF ToSet
  <2>5. b \in Cached(m) => Cardinality(cached) = 1
    <3> SUFFICES ASSUME b \in Cached(m) PROVE Cardinality(cached) = 1
      OBVIOUS
    <3>1. PICK i \in DOMAIN c : c[i] = b
      BY <2>2 DEF ToSet
    <3>2. cached = {i}
      BY <2>3, <3>1 DEF IsInjective
    <3> QED BY <3>2, FS_Singleton
  <2> HIDE DEF cached, c, known
  <2>6. CASE b \in Known(m)
    BY <2>2, <2>3, <2>4, <2>6 DEF Placed, cached, known, c
  <2>7. CASE b \in Cached(m) /\ b \notin Known(m)
    <3>1. InFlight(b, m) = {}
      BY <2>2, <2>7 DEF Placed
    <3>2. \E a \in blocks[b].past \ Known(m) : InFlight(a, m) # {}
      BY <1>1, <2>7, WaitsForOne
    <3>3. Cardinality(cached) = 1
      BY <2>5, <2>7
    <3> QED BY <2>2, <2>7, <3>1, <3>2, <3>3 DEF cached, known, c
  <2>8. CASE b \notin Known(m) \cup Cached(m)
    <3>1. PICK e : InFlight(b, m) = {e}
      BY <2>2, <2>8 DEF Placed
    <3>2. Cardinality(InFlight(b, m)) = 1
      BY <3>1, FS_Singleton
    <3> QED BY <2>2, <2>4, <2>8, <3>2 DEF cached, known, c
  <2> QED BY <2>6, <2>7, <2>8
<1> QED BY <1>1, Inductive, PTL

\* The edges that fillNewBlock gives a block are those the rule gives to its
\* past, and stay so while the table grows.
THEOREM EdgesComeFromPast == Spec => []EdgesFollowPast
<1>1. ASSUME IInv PROVE EdgesFollowPast
  <2>1. TableOK(blocks, Size) /\ \A b \in 1..(Size - 1) : EdgesFrom(blocks, b, blocks[b].past)
    BY <1>1 DEF IInv, Blocks
  <2>2. Generated \ {0} = 1..(Size - 1)
    <3>1. Generated = 0..(Size - 1) /\ Size \in Nat
      BY <2>1, LinkedIs, TableFacts DEF Generated
    <3> QED BY <3>1
  <2> QED BY <2>1, <2>2 DEF EdgesFollowPast, EdgesFrom
<1> QED BY <1>1, Inductive, PTL

\* A graph is a function of its blocks, down to the stored weights: insert and
\* the cache make nothing of the order the network brought them in.
THEOREM GraphFollowsLedger == Spec => []SameBlocksSameGraph
<1>1. ASSUME IInv PROVE SameBlocksSameGraph
  <2> SUFFICES ASSUME NEW m \in Miners, NEW n \in Miners,
                      miners[m].graph.ledger = miners[n].graph.ledger
               PROVE  miners[m].graph = miners[n].graph
    BY DEF SameBlocksSameGraph
  <2>1. /\ TableOK(blocks, Size)
        /\ GraphOK(blocks, Size, miners[m].graph) /\ GraphOK(blocks, Size, miners[n].graph)
    BY <1>1 DEF IInv, Blocks, Miner, MinerOK
  <2> QED BY <2>1, SameLedgerSameGraph
<1> QED BY <1>1, Inductive, PTL
=============================================================================
