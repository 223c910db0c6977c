-------------------------- MODULE PeerNetworkProofs --------------------------
(***************************************************************************)
(* The invariants of PeerNetwork, for every topology Setup can draw, every *)
(* number of blocks and miners, and all the times.                         *)
(***************************************************************************)
EXTENDS PeerNetwork, GraphProofs

USE DEF Genesis, None

\* The number of blocks with edges: the last block mined has none yet.
Size == mined - 1

Known(m)  == miners[m].graph.ledger
Cached(m) == ToSet(miners[m].cache)

Types ==
    /\ timestamp \in Nat /\ running \in BOOLEAN
    /\ miners \in [Miners -> [graph : Graph, cache : Seq(BlockIds)]]
    /\ attackers \in {{}, {0}}
    /\ peer \in [Miners -> Seq(Miners)]
    /\ sent \in [Miners -> SUBSET (0..(Size - 1))]
    /\ netTime \in [Miners -> Nat]

\* The table below the block that is mined, whose miner is drawn already.
Blocks ==
    /\ mined \in Nat /\ Size \in 1..MaxBlock
    /\ TableOK(blocks, Size)
    /\ blocks[Genesis].minerID = NoMiner
    /\ blocks[Size].minerID \in Miners

Miner(m) == /\ MinerOK(blocks, Size, miners[m].graph, miners[m].cache)
            /\ Clear(blocks, miners[m].graph, miners[m].cache)

\* What may be in the queue.  Only the miner of a block offers it with
\* priority.
IsGenBlock(e)  == /\ e.type = "GenBlock"
                  /\ e = GenBlock(e.timestamp, Size) /\ e.timestamp \in Nat \ {0}
                  /\ e.timestamp <= Duration => Size < MaxBlock
IsBroadcast(e) == e = Broadcast(0, Genesis)
IsSendBlock(e) == /\ e.type = "SendBlock"
                  /\ e.block \in 0..(Size - 1) /\ e.receiver \in Miners
                  /\ e = SendBlock(e.timestamp, e.block, e.receiver) /\ e.timestamp \in Nat
IsPeerSend(e)  == /\ e.type = "PeerSend"
                  /\ e.block \in 0..(Size - 1) /\ e.sender \in Miners /\ e.first \in BOOLEAN
                  /\ e = PeerSend(e.timestamp, e.block, e.sender, e.first) /\ e.timestamp \in Nat
                  /\ e.first => blocks[e.block].minerID = e.sender

Events ==
    /\ \A e \in queue : IsGenBlock(e) \/ IsBroadcast(e) \/ IsSendBlock(e) \/ IsPeerSend(e)
    /\ \A e, f \in queue : e.type = "GenBlock" /\ f.type = "GenBlock" => e = f

Ahead == \A e \in queue : timestamp <= e.timestamp

\* Genesis comes before any block is generated.
GenesisComes(m) ==
    Genesis \in Known(m) \/ Broadcast(0, Genesis) \in queue \/ SendBlock(0, Genesis, m) \in queue

\* What the mark says of a block that is not genesis.
Marked(b, m) ==
    /\ blocks[b].minerID = m => b \in Known(m)
    /\ IF b \in sent[m]
       THEN \/ b \in Has(m) /\ Coming(b, m) = {}
            \/ /\ b \notin Has(m) \/ blocks[b].minerID = m
               /\ \E e \in queue : Coming(b, m) = {e}
       ELSE /\ Coming(b, m) = {}
            /\ b \in Has(m) => blocks[b].minerID = m

Offered(b, m) ==
    /\ b \notin Known(m) => Offers(b, m) = {}
    /\ Offers(b, m) = {} \/ \E e \in queue : Offers(b, m) = {e}
    /\ b \in Known(m) /\ Wanting(m, b) # {} => Offers(b, m) # {}

\* The blocks of m whose transfer with priority is not to come any more.
Used(m) == {b \in 0..(Size - 1) : blocks[b].minerID = m /\ \A e \in Offers(b, m) : ~ e.first}

Reserved(m) == netTime[m] <= timestamp + MaxBacklog + TransTime * (1 + Cardinality(Used(m)))

IInv == /\ Types /\ Blocks /\ Events
        /\ \A m \in Miners : Miner(m)
        /\ running => /\ Ahead
                      /\ \A m \in Miners : GenesisComes(m) /\ Reserved(m)
                      /\ \A b \in 0..(Size - 1) : \A m \in Miners : Offered(b, m)
                      /\ \A b \in 1..(Size - 1) : \A m \in Miners : Marked(b, m)

-----------------------------------------------------------------------------
(***************************************************************************)
(* Setup.                                                                  *)
(***************************************************************************)
\* What Setup draws are lists of miners.
LEMMA SetupTyped == Setup \subseteq [Miners -> Seq(Miners)]
<1> DEFINE Lists == [Miners -> Seq(Miners)]
           none == [m \in Miners |-> <<>>]
           V == Nat \X SUBSET Lists
           Turn(n, S) == UNION {Connections(l, n) : l \in S}
           step == [v \in V |-> <<v[1] + 1, Turn(v[1], v[2])>>]
           s == <<0, {none}>>
           Is(f) == f = [n \in Nat |-> IF n = 0 THEN {none} ELSE Turn(n - 1, f[n - 1])]
           links == CHOOSE f : Is(f)
<1>1. Setup = links[Cardinality(Miners)]
  BY DEF Setup
<1>2. s \in V /\ {none} \subseteq Lists
  <2>1. <<>> \in Seq(Miners)
    OBVIOUS
  <2>2. none \in Lists
    BY <2>1
  <2> HIDE DEF none, Lists
  <2> QED BY <2>2
<1>3. ASSUME NEW n \in Nat, NEW l \in Lists PROVE Connections(l, n) \subseteq Lists
  <2> SUFFICES ASSUME NEW x \in Connections(l, n) PROVE x \in Lists
    OBVIOUS
  <2>0. PICK new \in SUBSET Miners :
          \E list \in SetToSeqs(ToSet(l[n]) \cup new) : x = Connect(l, n, list)
    <3>1. CASE NumPeers <= Len(l[n])
      <4>1. PICK list \in SetToSeqs(ToSet(l[n])) : x = Connect(l, n, list)
        BY <3>1 DEF Connections
      <4>2. {} \in SUBSET Miners /\ ToSet(l[n]) = ToSet(l[n]) \cup {}
        OBVIOUS
      <4> QED BY <4>1, <4>2
    <3>2. CASE ~ (NumPeers <= Len(l[n]))
      BY <3>2 DEF Connections, Drawn, kSubset
    <3> QED BY <3>1, <3>2
  <2>1. PICK list \in SetToSeqs(ToSet(l[n]) \cup new) : x = Connect(l, n, list)
    BY <2>0
  <2>2. CASE n \in Miners
    <3>1. l[n] \in Seq(Miners)
      BY <2>2
    <3>2. ToSet(l[n]) \subseteq Miners
      BY <3>1, ToSetIs
    <3> DEFINE S == ToSet(l[n]) \cup new
    <3>3. S \subseteq Miners /\ list \in SetToSeqs(S)
      BY <2>1, <3>2
    <3> HIDE DEF S
    <3>4. Cardinality(S) \in Nat
      BY <3>3, PeerAssumption, FS_Subset, FS_CardinalityType
    <3>5. list \in [1..Cardinality(S) -> S]
      BY <3>3 DEF SetToSeqs
    <3>6. list \in Seq(Miners)
      BY <3>3, <3>4, <3>5
    <3>7. \A m \in Miners : l[m] \in Seq(Miners) /\ Append(l[m], n) \in Seq(Miners)
      BY <2>2
    <3> QED BY <2>1, <3>6, <3>7 DEF Connect
  <2>3. CASE n \notin Miners
    <3>1. \A m \in Miners : m # n /\ ~ (m > n)
      <4>1. Cardinality(Miners) \in Nat
        BY PeerAssumption, FS_CardinalityType
      <4> QED BY <2>3, <4>1, PeerAssumption, SMTT(30)
    <3>2. Connect(l, n, list) = l
      BY <3>1 DEF Connect
    <3> QED BY <2>1, <3>2
  <2> QED BY <2>2, <2>3
<1> HIDE DEF Lists
<1>4. step \in [V -> V]
  <2> SUFFICES ASSUME NEW n \in Nat, NEW S \in SUBSET Lists PROVE Turn(n, S) \in SUBSET Lists
    <3> HIDE DEF Turn
    <3> QED OBVIOUS
  <2> QED BY <1>3
<1>5. PICK f : Iterates(f, V, s, step)
  <2> HIDE DEF V, s, step
  <2> QED BY <1>2, <1>4, IterationExists
<1>6. \A n \in Nat : f[n] \in V /\ f[n + 1] = <<f[n][1] + 1, Turn(f[n][1], f[n][2])>>
  <2> HIDE DEF V, Turn
  <2> QED BY <1>5 DEF Iterates
<1>7. \A n \in Nat : f[n][1] = n
  <2> DEFINE P == {n \in Nat : f[n][1] = n}
  <2>1. 0 \in P
    BY <1>5 DEF Iterates
  <2>2. ASSUME NEW n \in P PROVE n + 1 \in P
    <3> HIDE DEF Turn, V
    <3> QED BY <1>6
  <2> HIDE DEF P
  <2>3. P = Nat
    BY <2>1, <2>2, NatSubset DEF P
  <2> QED BY <2>3 DEF P
<1>8. Is(links)
  <2> DEFINE h == [n \in Nat |-> f[n][2]]
  <2>1. ASSUME NEW n \in Nat PROVE h[n] = IF n = 0 THEN {none} ELSE Turn(n - 1, h[n - 1])
    <3> HIDE DEF Turn, V, none
    <3>1. CASE n = 0
      BY <1>5, <3>1 DEF Iterates
    <3>2. CASE n # 0
      <4>1. n - 1 \in Nat /\ n = n - 1 + 1
        BY <3>2
      <4> QED BY <1>6, <1>7, <3>2, <4>1
    <3> QED BY <3>1, <3>2
  <2>2. Is(h)
    <3> HIDE DEF Turn, none
    <3>1. h = [n \in Nat |-> h[n]]
      OBVIOUS
    <3> HIDE DEF h
    <3> QED BY <2>1, <3>1
  <2> HIDE DEF Is, h
  <2> QED BY <2>2
<1>9. \A n \in Nat : links[n] = IF n = 0 THEN {none} ELSE Turn(n - 1, links[n - 1])
  <2> HIDE DEF links, Turn, none
  <2> QED BY <1>8
<1> HIDE DEF links, Turn, none
<1>10. \A n \in Nat : links[n] \subseteq Lists
  <2> DEFINE P == {n \in Nat : links[n] \subseteq Lists}
  <2>1. 0 \in P
    BY <1>2, <1>9
  <2>2. ASSUME NEW n \in P PROVE n + 1 \in P
    <3>1. n \in Nat /\ n + 1 \in Nat /\ n + 1 # 0 /\ n + 1 - 1 = n
      OBVIOUS
    <3>2. links[n + 1] = Turn(n, links[n])
      BY <1>9, <3>1
    <3>3. Turn(n, links[n]) \subseteq Lists
      BY <1>3 DEF Turn
    <3> QED BY <3>2, <3>3
  <2> HIDE DEF P
  <2>3. P = Nat
    BY <2>1, <2>2, NatSubset DEF P
  <2> QED BY <2>3 DEF P
<1>11. Cardinality(Miners) \in Nat
  BY PeerAssumption, FS_CardinalityType
<1> QED BY <1>1, <1>10, <1>11 DEF Lists

-----------------------------------------------------------------------------
(***************************************************************************)
(* Events.                                                                 *)
(***************************************************************************)
\* The fields of the four kinds of event.
LEMMA EventFields ==
    ASSUME NEW t, NEW b, NEW m, NEW first
    PROVE  /\ GenBlock(t, b).type = "GenBlock" /\ GenBlock(t, b).timestamp = t /\ GenBlock(t, b).block = b
           /\ Broadcast(t, b).type = "Broadcast" /\ Broadcast(t, b).timestamp = t
           /\ Broadcast(t, b).block = b
           /\ SendBlock(t, b, m).type = "SendBlock" /\ SendBlock(t, b, m).timestamp = t
           /\ SendBlock(t, b, m).block = b /\ SendBlock(t, b, m).receiver = m
           /\ PeerSend(t, b, m, first).type = "PeerSend" /\ PeerSend(t, b, m, first).timestamp = t
           /\ PeerSend(t, b, m, first).block = b /\ PeerSend(t, b, m, first).sender = m
           /\ PeerSend(t, b, m, first).first = first
BY DEF GenBlock, Broadcast, SendBlock, PeerSend

\* The type of an event tells its kind, and its time is a number.
LEMMA EventKinds ==
    ASSUME NEW e
    PROVE  /\ IsGenBlock(e) => e.type = "GenBlock"
           /\ IsBroadcast(e) => e.type = "Broadcast"
           /\ IsSendBlock(e) => e.type = "SendBlock"
           /\ IsPeerSend(e) => e.type = "PeerSend"
           /\ IsGenBlock(e) \/ IsBroadcast(e) \/ IsSendBlock(e) \/ IsPeerSend(e) => e.timestamp \in Nat
<1>1. IsBroadcast(e) => e.type = "Broadcast" /\ e.timestamp \in Nat
  BY EventFields DEF IsBroadcast
<1> QED BY <1>1 DEF IsGenBlock, IsSendBlock, IsPeerSend

\* The stamps mineNextBlock gives lie ahead, and the last one past the end.
LEMMA Stamps ==
    ASSUME NEW t \in Nat, t <= Duration, NEW k \in Nat, NEW s \in NextStamps(t, k)
    PROVE  s \in Nat \ {0} /\ s >= t /\ (s <= Duration => k < MaxBlock)
BY OracleAssumption, BlockAssumption DEF NextStamps

IsComing(e, b, m) == e.type = "SendBlock" /\ e.block = b /\ e.receiver = m
IsOffer(e, b, m)  == e.type = "PeerSend" /\ e.block = b /\ e.sender = m

\* Event e makes way for those of N.
Moves(e, N) == queue' = (queue \ {e}) \cup N

\* The events about a block and a miner stay when others come and go.
LEMMA ComingStays ==
    ASSUME NEW e, NEW N, Moves(e, N), NEW b, NEW m,
           ~ IsComing(e, b, m), \A f \in N : ~ IsComing(f, b, m)
    PROVE  Coming(b, m)' = Coming(b, m)
BY DEF Coming, IsComing, Moves

\* The same for the offers.
LEMMA OffersStay ==
    ASSUME NEW e, NEW N, Moves(e, N), NEW b, NEW m,
           ~ IsOffer(e, b, m), \A f \in N : ~ IsOffer(f, b, m)
    PROVE  Offers(b, m)' = Offers(b, m)
BY DEF Offers, IsOffer, Moves

\* If one of the events that come is about them, it takes the place of those
\* there were.
LEMMA ComingIs ==
    ASSUME NEW e, NEW N, Moves(e, N), NEW b, NEW m, Coming(b, m) \subseteq {e},
           NEW f \in N, IsComing(f, b, m), \A x \in N : IsComing(x, b, m) => x = f
    PROVE  Coming(b, m)' = {f} /\ f \in queue'
<1>1. \A x : x \in Coming(b, m)' <=> x \in queue' /\ IsComing(x, b, m)
  BY DEF Coming, IsComing
<1>2. \A x \in queue \ {e} : ~ IsComing(x, b, m)
  BY DEF Coming, IsComing
<1>3. Coming(b, m)' \subseteq queue'
  BY DEF Coming
<1> QED BY <1>1, <1>2, <1>3 DEF Moves

\* If none is, there are none any more.
LEMMA ComingGone ==
    ASSUME NEW e, NEW N, Moves(e, N), NEW b, NEW m, Coming(b, m) \subseteq {e},
           \A f \in N : ~ IsComing(f, b, m)
    PROVE  Coming(b, m)' = {}
BY DEF Coming, IsComing, Moves

\* The same for the offers.
LEMMA OffersGone ==
    ASSUME NEW e, NEW N, Moves(e, N), NEW b, NEW m, Offers(b, m) \subseteq {e},
           \A f \in N : ~ IsOffer(f, b, m)
    PROVE  Offers(b, m)' = {}
BY DEF Offers, IsOffer, Moves

\* The offers like the blocks on their way.
LEMMA OffersAre ==
    ASSUME NEW e, NEW N, Moves(e, N), NEW b, NEW m, Offers(b, m) \subseteq {e},
           NEW f \in N, IsOffer(f, b, m), \A x \in N : IsOffer(x, b, m) => x = f
    PROVE  Offers(b, m)' = {f} /\ f \in queue'
<1>1. \A x : x \in Offers(b, m)' <=> x \in queue' /\ IsOffer(x, b, m)
  BY DEF Offers, IsOffer
<1>2. \A x \in queue \ {e} : ~ IsOffer(x, b, m)
  BY DEF Offers, IsOffer
<1>3. Offers(b, m)' \subseteq queue'
  BY DEF Offers
<1> QED BY <1>1, <1>2, <1>3 DEF Moves

-----------------------------------------------------------------------------
(***************************************************************************)
(* What a step that has nothing to do with a block and a miner keeps.      *)
(***************************************************************************)
\* The mark says the same as before.
LEMMA MarkedStays ==
    ASSUME NEW b, NEW m, Marked(b, m), Coming(b, m)' = Coming(b, m),
           b \in sent'[m] <=> b \in sent[m], b \in Has(m)' <=> b \in Has(m),
           b \in Known(m) => b \in Known(m)', blocks'[b].minerID = blocks[b].minerID
    PROVE  Marked(b, m)'
<1>1. ASSUME NEW e \in queue, Coming(b, m) = {e} PROVE e \in queue'
  <2>1. e \in Coming(b, m)' /\ Coming(b, m)' \subseteq queue'
    BY <1>1 DEF Coming
  <2> QED BY <2>1
<1> QED BY <1>1 DEF Marked

\* A block is offered as before; fewer peers may want it.
LEMMA OfferedStays ==
    ASSUME NEW b, NEW m, Offered(b, m), Offers(b, m)' = Offers(b, m),
           b \in Known(m)' <=> b \in Known(m), Wanting(m, b)' \subseteq Wanting(m, b)
    PROVE  Offered(b, m)'
<1>1. ASSUME NEW e \in queue, Offers(b, m) = {e} PROVE e \in queue'
  <2>1. e \in Offers(b, m)' /\ Offers(b, m)' \subseteq queue'
    BY <1>1 DEF Offers
  <2> QED BY <2>1
<1> QED BY <1>1 DEF Offered

\* More marks leave fewer peers to want a block.
LEMMA WantingShrinks ==
    ASSUME peer \in [Miners -> Seq(Miners)], peer' = peer, NEW m \in Miners, NEW b,
           \A p \in Miners : b \in sent[p] => b \in sent'[p]
    PROVE  Wanting(m, b)' \subseteq Wanting(m, b)
BY DEF Wanting

\* Genesis is where it was.
LEMMA GenesisStays ==
    ASSUME NEW m, GenesisComes(m), Known(m) \subseteq Known(m)',
           NEW e, queue \ {e} \subseteq queue', e # Broadcast(0, 0), e # SendBlock(0, 0, m)
    PROVE  GenesisComes(m)'
BY DEF GenesisComes

\* Only what a miner generates adds to the priority it has left.
LEMMA UsedGrows ==
    ASSUME NEW m, NEW N, queue' \subseteq queue \cup N, Size \in Nat, Size' \in Nat, Size <= Size',
           \A f \in N : IsOffer(f, f.block, m) => ~ f.first \/ f.block \notin 0..(Size - 1),
           \A b \in 0..(Size - 1) : blocks'[b].minerID = blocks[b].minerID
    PROVE  Used(m) \subseteq Used(m)'
<1> SUFFICES ASSUME NEW b \in Used(m) PROVE b \in Used(m)'
  OBVIOUS
<1>1. b \in 0..(Size - 1) /\ blocks[b].minerID = m /\ \A e \in Offers(b, m) : ~ e.first
  BY DEF Used
<1>2. b \in 0..(Size' - 1)
  BY <1>1
<1>3. ASSUME NEW e \in Offers(b, m)' PROVE ~ e.first
  <2>1. e \in queue \cup N /\ IsOffer(e, b, m) /\ e.block = b
    BY <1>3 DEF Offers, IsOffer
  <2>2. e \in queue => e \in Offers(b, m)
    BY <2>1 DEF Offers, IsOffer
  <2> QED BY <1>1, <2>1, <2>2
<1>4. \A x : x \in Used(m)' <=> x \in 0..(Size' - 1) /\ blocks'[x].minerID = m /\ \A e \in Offers(x, m)' : ~ e.first
  BY DEF Used
<1> QED BY <1>1, <1>2, <1>3, <1>4

\* The blocks whose priority is used up can be counted.
LEMMA UsedIsFinite ==
    ASSUME NEW m, Size \in Nat, Size' \in Nat
    PROVE  /\ IsFiniteSet(Used(m)) /\ Cardinality(Used(m)) \in Nat
           /\ IsFiniteSet(Used(m)') /\ Cardinality(Used(m)') \in Nat
<1>1. IsFiniteSet(0..(Size - 1)) /\ IsFiniteSet(0..(Size' - 1))
  <2>1. Size - 1 \in Int /\ Size' - 1 \in Int /\ 0 \in Int
    OBVIOUS
  <2> QED BY <2>1, FS_Interval
<1>2. Used(m) \subseteq 0..(Size - 1) /\ Used(m)' \subseteq 0..(Size' - 1)
  BY DEF Used
<1> QED BY <1>1, <1>2, FS_Subset, FS_CardinalityType

-----------------------------------------------------------------------------
(***************************************************************************)
(* The steps.                                                              *)
(***************************************************************************)
\* At the start genesis is about to be sent to everyone.
LEMMA Initially == Init => IInv
<1> SUFFICES ASSUME Init PROVE IInv
  OBVIOUS
<1>1. PICK m \in Miners, r \in 0..MaxResidual, s \in NextStamps(0, 1) :
        blocks = MineBlock(GenesisTable, 1, m, r) /\ queue = {GenBlock(s, 1), Broadcast(0, 0)}
  BY DEF Init, OracleInit, Mine
<1>2. /\ timestamp = 0 /\ running = TRUE /\ mined = 2 /\ Size = 1
      /\ miners = [x \in Miners |-> NewHonestMiner]
      /\ attackers \in {{}, {0}} /\ peer \in Setup
      /\ sent = [x \in Miners |-> {}] /\ netTime = [x \in Miners |-> 0]
  BY DEF Init, OracleInit, Size
<1>3. 1 <= MaxBlock /\ MaxBlock \in Nat
  BY BlockAssumption, OracleAssumption
<1>4. TableOK(blocks, 1) /\ Agree(GenesisTable, blocks, 1) /\ blocks[1].minerID = m
  BY <1>1, <1>3, GenesisTableOK, MineKeepsTable
<1>5. blocks[0] = GenesisTable[0] /\ GenesisTable[0].minerID = NoMiner
  <2>1. 0 \in BlockIds /\ 0 \in 0..(1 - 1)
    BY <1>3 DEF BlockIds
  <2> QED BY <1>4, <2>1 DEF Agree, GenesisTable, BlankBlock
<1>6. Blocks
  BY <1>2, <1>3, <1>4, <1>5 DEF Blocks
<1>7. \A x \in Miners : miners[x].graph = NewLocalGraph /\ miners[x].cache = <<>>
  BY <1>2 DEF NewHonestMiner
<1>8. Types
  <2>1. NewLocalGraph \in Graph
    BY EmptyGraphOK DEF GraphOK
  <2>2. peer \in [Miners -> Seq(Miners)]
    BY <1>2, SetupTyped
  <2> QED BY <1>2, <2>1, <2>2 DEF Types, NewHonestMiner
<1>9. Events /\ Ahead
  <2>1. IsGenBlock(GenBlock(s, 1)) /\ s >= 0
    <3>1. s \in Nat \ {0} /\ (s <= Duration => 1 < MaxBlock)
      BY Stamps, OracleAssumption
    <3> QED BY <1>2, <3>1, EventFields DEF IsGenBlock
  <2>2. IsBroadcast(Broadcast(0, 0))
    BY DEF IsBroadcast
  <2>3. /\ GenBlock(s, 1).type = "GenBlock" /\ Broadcast(0, 0).type # "GenBlock"
        /\ GenBlock(s, 1).timestamp = s /\ Broadcast(0, 0).timestamp = 0
    BY EventFields
  <2> QED BY <1>1, <1>2, <2>1, <2>2, <2>3 DEF Events, Ahead
<1>10. ASSUME NEW x \in Miners PROVE Miner(x)
  <2>1. GraphOK(blocks, Size, NewLocalGraph)
    BY EmptyGraphOK
  <2>2. Len(<<>>) = 0 /\ DOMAIN <<>> = {} /\ <<>> \in Seq(0..(Size - 1))
    OBVIOUS
  <2>3. Clear(blocks, NewLocalGraph, <<>>)
    BY <2>2 DEF Clear, Drained, IsInjective, ToSet
  <2> QED BY <1>7, <2>1, <2>2, <2>3 DEF Miner, MinerOK
<1>11. ASSUME NEW x \in Miners PROVE GenesisComes(x) /\ Reserved(x) /\ Offered(0, x)
  <2>1. GenesisComes(x)
    BY <1>1 DEF GenesisComes
  <2>2. Offered(0, x)
    <3>1. Known(x) = {}
      BY <1>7 DEF Known, NewLocalGraph
    <3>2. Offers(0, x) = {}
      BY <1>1, EventFields DEF Offers
    <3> QED BY <3>1, <3>2 DEF Offered
  <2>3. Reserved(x)
    <3>1. Cardinality(Used(x)) \in Nat
      <4>1. Used(x) \subseteq {0} /\ IsFiniteSet({0})
        BY <1>2, FS_Singleton, SMTT(60) DEF Used
      <4> QED BY <4>1, FS_Subset, FS_CardinalityType
    <3> DEFINE k == 1 + Cardinality(Used(x))
    <3>2. k \in Nat /\ TransTime \in Nat /\ MaxBacklog \in Nat
      BY <3>1, PeerAssumption
    <3>3. TransTime * k \in Nat
      BY <3>2
    <3> HIDE DEF k
    <3>4. 0 <= 0 + MaxBacklog + TransTime * k
      BY <3>2, <3>3
    <3> QED BY <1>2, <3>4 DEF Reserved, k
  <2> QED BY <2>1, <2>2, <2>3
<1>12. (\A b \in 0..(Size - 1) : b = 0) /\ (\A b \in 1..(Size - 1) : FALSE)
  BY <1>2
<1> QED BY <1>6, <1>8, <1>9, <1>10, <1>11, <1>12 DEF IInv

\* A reservation is within a bound that has grown.
LEMMA LinkTimeGrows ==
    ASSUME NEW n \in Nat, NEW t \in Nat, NEW u \in Nat, t <= u, NEW c \in Nat, NEW d \in Nat, c <= d,
           NEW x \in Nat, NEW y \in Nat, n <= t + y + x * (1 + c)
    PROVE  n <= u + y + x * (1 + d)
<1>1. PICK k \in Nat : d = c + k
  <2>1. d - c \in Nat /\ d = c + (d - c)
    OBVIOUS
  <2> QED BY <2>1
<1>2. x * (1 + d) = x * (1 + c) + x * k
  BY <1>1
<1>3. x * k \in Nat /\ x * (1 + c) \in Nat
  <2>1. \A i, j \in Nat : i * j \in Nat
    OBVIOUS
  <2> QED BY <2>1
<1> DEFINE p == x * (1 + c)
           q == x * k
<1>4. n <= t + y + p => n <= u + y + (p + q)
  <2> HIDE DEF p, q
  <2>1. p \in Nat /\ q \in Nat
    BY <1>3 DEF p, q
  <2> QED BY <2>1
<1> QED BY <1>2, <1>4

\* The reservation of a link that is not used: time passes, and its miner may
\* use up more of its priority.
LEMMA ReservedStays ==
    ASSUME NEW m \in Miners, Reserved(m), netTime'[m] = netTime[m], netTime[m] \in Nat,
           timestamp \in Nat, timestamp' \in Nat, timestamp <= timestamp',
           Size \in Nat, Size' \in Nat, Used(m) \subseteq Used(m)'
    PROVE  Reserved(m)'
<1>1. /\ Cardinality(Used(m)) \in Nat /\ IsFiniteSet(Used(m)')
      /\ Cardinality(Used(m)') \in Nat
  BY UsedIsFinite
<1>2. Cardinality(Used(m)) <= Cardinality(Used(m)')
  BY <1>1, FS_Subset
<1>3. TransTime \in Nat /\ MaxBacklog \in Nat
  BY PeerAssumption
<1> DEFINE c == Cardinality(Used(m))
           d == Cardinality(Used(m)')
<1>4. netTime[m] <= timestamp + MaxBacklog + TransTime * (1 + c)
  BY DEF Reserved
<1>5. netTime[m] <= timestamp' + MaxBacklog + TransTime * (1 + d)
  <2> HIDE DEF c, d
  <2> QED BY <1>1, <1>2, <1>3, <1>4, LinkTimeGrows DEF c, d
<1> QED BY <1>5 DEF Reserved

\* A step that leaves the blocks alone: the table and the kinds of events.
LEMMA QueueKeeps ==
    ASSUME IInv, running, NEW e \in Earliest(queue), NEW N, queue' = (queue \ {e}) \cup N,
           blocks' = blocks, mined' = mined, timestamp' = e.timestamp,
           \A f \in N : IsBroadcast(f) \/ IsSendBlock(f) \/ IsPeerSend(f),
           \A f \in N : f.timestamp >= e.timestamp
    PROVE  /\ Size' = Size /\ Blocks' /\ Events' /\ Ahead'
           /\ timestamp \in Nat /\ timestamp' \in Nat /\ timestamp <= timestamp' /\ Size \in Nat
<1>1. Size' = Size /\ e \in queue /\ \A f \in queue : e.timestamp <= f.timestamp
  BY DEF Size, Earliest
<1>2. Blocks' /\ Size \in Nat
  BY <1>1 DEF IInv, Blocks
<1>3. ASSUME NEW f PROVE /\ IsGenBlock(f) => IsGenBlock(f)'
                         /\ IsBroadcast(f) => IsBroadcast(f)'
                         /\ IsSendBlock(f) => IsSendBlock(f)'
                         /\ IsPeerSend(f) => IsPeerSend(f)'
  BY <1>1 DEF IsGenBlock, IsBroadcast, IsSendBlock, IsPeerSend
<1>4. Events'
  <2>1. \A f \in queue' : (IsGenBlock(f) \/ IsBroadcast(f) \/ IsSendBlock(f) \/ IsPeerSend(f))'
    BY <1>3 DEF IInv, Events
  <2>2. \A f \in N : f.type # "GenBlock"
    BY EventKinds
  <2>3. \A f, h \in queue' : f.type = "GenBlock" /\ h.type = "GenBlock" => f = h
    BY <2>2 DEF IInv, Events
  <2> QED BY <2>1, <2>3 DEF Events
<1>5. e.timestamp \in Nat /\ timestamp \in Nat /\ timestamp <= e.timestamp
  BY <1>1, EventKinds DEF IInv, Events, Types, Ahead
<1>6. \A f \in queue' : f.timestamp \in Nat
  BY EventKinds DEF IInv, Events
<1>7. Ahead'
  <2>1. ASSUME NEW f \in queue' PROVE e.timestamp <= f.timestamp
    BY <1>1, <1>5, <1>6
  <2> QED BY <2>1 DEF Ahead
<1> QED BY <1>1, <1>2, <1>4, <1>5, <1>7


-----------------------------------------------------------------------------
(***************************************************************************)
(* GenBlockEvent.                                                          *)
(***************************************************************************)
\* A block is generated after genesis has come to everyone.
LEMMA GenesisKnown ==
    ASSUME IInv, running, NEW e \in Earliest(queue), e.type = "GenBlock", NEW m \in Miners
    PROVE  Genesis \in Known(m)
<1>1. e \in queue /\ IsGenBlock(e)
  BY EventKinds DEF IInv, Events, Earliest
<1>2. ~ (e.timestamp <= 0)
  BY <1>1 DEF IsGenBlock
<1>3. Broadcast(0, 0) \notin queue /\ SendBlock(0, 0, m) \notin queue
  BY <1>2, EventFields DEF Earliest
<1> QED BY <1>3 DEF IInv, GenesisComes

\* Nothing is about a block that is not generated yet.
LEMMA NothingYet ==
    ASSUME IInv, running
    PROVE  /\ \A f \in queue : f.type # "GenBlock" => f.block \in 0..(Size - 1)
           /\ \A m : Coming(Size, m) = {} /\ Offers(Size, m) = {}
           /\ \A m \in Miners : Size \notin Has(m)
<1>1. Size \in Nat /\ Size >= 1
  BY DEF IInv, Blocks
<1>2. ASSUME NEW f \in queue, f.type # "GenBlock" PROVE f.block \in 0..(Size - 1)
  <2>1. IsBroadcast(f) \/ IsSendBlock(f) \/ IsPeerSend(f)
    BY <1>2, EventKinds DEF IInv, Events
  <2>2. IsBroadcast(f) => f.block = 0
    BY EventFields DEF IsBroadcast
  <2> QED BY <1>1, <2>1, <2>2 DEF IsSendBlock, IsPeerSend
<1>3. Size \notin 0..(Size - 1)
  BY <1>1
<1>4. \A m : Coming(Size, m) = {} /\ Offers(Size, m) = {}
  BY <1>2, <1>3 DEF Coming, Offers
<1>5. ASSUME NEW m \in Miners PROVE Size \notin Has(m)
  <2>1. MinerOK(blocks, Size, miners[m].graph, miners[m].cache)
    BY DEF IInv, Miner
  <2>2. miners[m].cache \in Seq(0..(Size - 1)) /\ miners[m].graph.ledger \subseteq 0..(Size - 1)
    BY <2>1 DEF MinerOK, GraphOK
  <2>3. ToSet(miners[m].cache) \subseteq 0..(Size - 1)
    BY <2>2, ToSetIs
  <2> QED BY <1>3, <2>2, <2>3 DEF Has
<1> QED BY <1>2, <1>4, <1>5

\* The express events of a block go to the receivers it is marked for, one
\* to each.
LEMMA ExpressIsExact ==
    ASSUME attackers \in {{}, {0}}, NEW t, NEW m, NEW b
    PROVE  /\ \A f \in ExpressEvents(t, m, b) :
                /\ \E x \in Expressed(m), d \in {AttackerIn, AttackerOut} : f = SendBlock(t + d, b, x)
                /\ f.type = "SendBlock" /\ f.block = b /\ f.receiver \in Expressed(m)
           /\ \A x \in Expressed(m) : \E f \in ExpressEvents(t, m, b) :
                IsComing(f, b, x) /\ \A h \in ExpressEvents(t, m, b) : IsComing(h, b, x) => h = f
<1>1. CASE m \in attackers
  <2>1. attackers = {m}
    BY <1>1
  <2>2. \A f : f \in ExpressEvents(t, m, b) <=>
          f = SendBlock(t + AttackerIn, b, m) \/ \E n \in Miners \ {m} : f = SendBlock(t + AttackerOut, b, n)
    BY <2>1 DEF ExpressEvents
  <2>3. Expressed(m) = {m} \cup (Miners \ {m})
    BY <2>1 DEF Expressed
  <2>4. ASSUME NEW x \in Expressed(m)
        PROVE  \E f \in ExpressEvents(t, m, b) :
                 IsComing(f, b, x) /\ \A h \in ExpressEvents(t, m, b) : IsComing(h, b, x) => h = f
    <3>1. CASE x = m
      <4>1. ASSUME NEW h \in ExpressEvents(t, m, b), IsComing(h, b, x)
            PROVE  h = SendBlock(t + AttackerIn, b, m)
        <5>1. ASSUME NEW n \in Miners \ {m}, h = SendBlock(t + AttackerOut, b, n) PROVE FALSE
          <6>1. h.receiver = n
            BY <5>1, EventFields
          <6> QED BY <3>1, <4>1, <6>1 DEF IsComing
        <5> QED BY <2>2, <5>1
      <4>2. IsComing(SendBlock(t + AttackerIn, b, m), b, x)
        BY <3>1, EventFields DEF IsComing
      <4> QED BY <2>2, <4>1, <4>2
    <3>2. CASE x # m
      <4>1. ASSUME NEW h \in ExpressEvents(t, m, b), IsComing(h, b, x)
            PROVE  h = SendBlock(t + AttackerOut, b, x)
        <5>1. h # SendBlock(t + AttackerIn, b, m)
          <6>1. SendBlock(t + AttackerIn, b, m).receiver = m
            BY EventFields
          <6> QED BY <3>2, <4>1, <6>1 DEF IsComing
        <5>2. PICK n \in Miners \ {m} : h = SendBlock(t + AttackerOut, b, n)
          BY <2>2, <5>1
        <5>3. h.receiver = n
          BY <5>2, EventFields
        <5> QED BY <4>1, <5>2, <5>3 DEF IsComing
      <4>2. IsComing(SendBlock(t + AttackerOut, b, x), b, x)
        BY EventFields DEF IsComing
      <4> QED BY <2>2, <2>3, <3>2, <4>1, <4>2
    <3> QED BY <3>1, <3>2
  <2>5. ASSUME NEW f \in ExpressEvents(t, m, b)
        PROVE  \E x \in Expressed(m), d \in {AttackerIn, AttackerOut} : f = SendBlock(t + d, b, x)
    BY <2>2, <2>3
  <2>6. ASSUME NEW f \in ExpressEvents(t, m, b)
        PROVE  f.type = "SendBlock" /\ f.block = b /\ f.receiver \in Expressed(m)
    BY <2>5, EventFields
  <2> QED BY <2>4, <2>5, <2>6
<1>2. CASE m \notin attackers
  <2>1. \A f : f \in ExpressEvents(t, m, b) <=> \E a \in attackers : f = SendBlock(t + AttackerIn, b, a)
    BY <1>2 DEF ExpressEvents
  <2>2. Expressed(m) = attackers
    BY <1>2 DEF Expressed
  <2>3. ASSUME NEW x \in Expressed(m)
        PROVE  \E f \in ExpressEvents(t, m, b) :
                 IsComing(f, b, x) /\ \A h \in ExpressEvents(t, m, b) : IsComing(h, b, x) => h = f
    <3>1. \A h \in ExpressEvents(t, m, b) : IsComing(h, b, x) => h = SendBlock(t + AttackerIn, b, x)
      BY <2>1, EventFields DEF IsComing
    <3>2. IsComing(SendBlock(t + AttackerIn, b, x), b, x)
      BY EventFields DEF IsComing
    <3> QED BY <2>1, <2>2, <3>1, <3>2
  <2> QED BY <2>1, <2>2, <2>3, EventFields
<1> QED BY <1>1, <1>2


\* The miner of the next block generates it, everybody express is told, and it
\* is offered to the peers with priority.
LEMMA GenBlockKeeps ==
    ASSUME IInv, NEW e \in Earliest(queue), Pop(e), RunGenBlock(e), UNCHANGED config
    PROVE  IInv'
<1>1. PICK n, k, t, m, g, c, F, h, C :
        /\ n = Size /\ k = n + 1 /\ t = e.timestamp /\ m = blocks[n].minerID
        /\ g = miners[m].graph /\ c = miners[m].cache
        /\ F = FillNewBlock(blocks, g, n) /\ h = Insert(F, g, n) /\ C = blocks'
  OBVIOUS
<1>2. /\ e.type = "GenBlock" /\ e \in queue /\ running /\ running' = running /\ timestamp' = t
      /\ t <= Duration /\ mined' = mined + 1
  BY <1>1 DEF Pop, RunGenBlock, Earliest
<1>3. IsGenBlock(e) /\ e.block = n /\ t \in Nat \ {0} /\ n < MaxBlock
  BY <1>1, <1>2, EventKinds, EventFields DEF IInv, Events, IsGenBlock
<1>4. /\ TableOK(blocks, n) /\ mined = k /\ n \in Nat /\ n >= 1 /\ mined \in Nat /\ k \in Nat
      /\ blocks[0].minerID = NoMiner /\ m \in Miners /\ n <= MaxBlock /\ k <= MaxBlock
      /\ MaxBlock \in Nat /\ n \in BlockIds
  BY <1>1, <1>3, BlockAssumption DEF IInv, Blocks, Size, BlockIds
<1>5. Size' = k
  BY <1>1, <1>2, <1>4 DEF Size
<1>6. MinerOK(blocks, n, g, c) /\ Clear(blocks, g, c) /\ GraphOK(blocks, n, g) /\ c \in Seq(0..(n - 1))
  BY <1>1, <1>4 DEF IInv, Miner, MinerOK
<1>7. Genesis \in g.ledger
  BY <1>1, <1>2, <1>4, GenesisKnown DEF Known
<1>8. PICK m2 \in Miners, r2 \in 0..MaxResidual, s \in NextStamps(t, k) :
        /\ C = MineBlock(F, k, m2, r2)
        /\ queue' = Enqueue(queue \ {e}, NetworkBroadcast(t, m, n) \cup {GenBlock(s, k)}, t)
  <2>1. e.block = n /\ mined = k /\ m = blocks[n].minerID /\ F = FillNewBlock(blocks, miners[m].graph, n)
        /\ t = e.timestamp /\ C = blocks'
    BY <1>1, <1>3, <1>4
  <2> QED BY <2>1, ZenonT(60) DEF RunGenBlock, Mine
<1>9. miners' = [miners EXCEPT ![m] = GenerateBlock(F, miners[m], n)] /\ sent' = BroadcastSent(sent, m, n)
      /\ netTime' = netTime
  BY <1>1, <1>3 DEF RunGenBlock
<1>10. /\ TableOK(C, k) /\ C[k].minerID = m2
       /\ C[n].minerID = m /\ \A b \in 0..(n - 1) : C[b].minerID = blocks[b].minerID
       /\ h \in Graph /\ h.ledger = g.ledger \cup {n}
  <2>1. F = FillNewBlock(blocks, g, n) /\ h = Insert(F, g, n) /\ blocks[n].minerID \in Miners
    BY <1>1, <1>4
  <2>2. C = MineBlock(F, n + 1, m2, r2) /\ k = n + 1 /\ m = blocks[n].minerID
    BY <1>1, <1>8
  <2> QED BY <1>3, <1>4, <1>6, <1>7, <2>1, <2>2, GenerateThenMine
<1>11. /\ \A x, d : MinerOK(blocks, n, x, d) /\ Clear(blocks, x, d)
                      => MinerOK(C, k, x, d) /\ Clear(C, x, d)
       /\ MinerOK(C, k, h, c) /\ Clear(C, h, c)
  <2>1. F = FillNewBlock(blocks, g, n) /\ h = Insert(F, g, n) /\ blocks[n].minerID \in Miners
    BY <1>1, <1>4
  <2>2. C = MineBlock(F, n + 1, m2, r2) /\ k = n + 1 /\ m = blocks[n].minerID
    BY <1>1, <1>8
  <2> QED BY <1>3, <1>4, <1>6, <1>7, <2>1, <2>2, GenerateThenMine
<1>12. 0..(k - 1) = (0..(n - 1)) \cup {n} /\ n \notin 0..(n - 1) /\ 1..(k - 1) = (1..(n - 1)) \cup {n}
  BY <1>1, <1>4
<1>13. Blocks'
  <2>1. 0 \in 0..(n - 1) /\ k \in 1..MaxBlock /\ k + 1 \in Nat /\ mined' = k + 1
    BY <1>1, <1>2, <1>4
  <2>2. mined' \in Nat /\ Size' \in 1..MaxBlock /\ C[0].minerID = NoMiner /\ C[Size'].minerID \in Miners
    BY <1>4, <1>5, <1>10, <2>1
  <2> QED BY <1>1, <1>5, <1>10, <2>2 DEF Blocks
<1>14. /\ miners'[m].graph = h /\ miners'[m].cache = c
       /\ \A x \in Miners \ {m} : miners'[x] = miners[x]
       /\ miners' \in [Miners -> [graph : Graph, cache : Seq(BlockIds)]]
  <2>1. PICK w, v : w = miners[m] /\ v = GenerateBlock(F, w, n)
    OBVIOUS
  <2>2. miners \in [Miners -> [graph : Graph, cache : Seq(BlockIds)]] /\ w \in [graph : Graph, cache : Seq(BlockIds)]
    BY <1>4, <2>1 DEF IInv, Types
  <2>3. v = [w EXCEPT !.graph = h] /\ w.graph = g /\ w.cache = c
    BY <1>1, <2>1 DEF GenerateBlock
  <2>4. v \in [graph : Graph, cache : Seq(BlockIds)] /\ v.graph = h /\ v.cache = c
    BY <1>10, <2>2, <2>3
  <2>5. miners' = [miners EXCEPT ![m] = v]
    BY <1>9, <2>1
  <2> QED BY <1>4, <2>2, <2>4, <2>5
<1>15. /\ Known(m)' = Known(m) \cup {n} /\ Has(m)' = Has(m) \cup {n}
       /\ \A x \in Miners \ {m} : Known(x)' = Known(x) /\ Has(x)' = Has(x)
  <2>1. /\ miners[m].graph = g /\ miners[m].cache = c
        /\ miners'[m].graph.ledger = g.ledger \cup {n} /\ miners'[m].cache = c
        /\ \A x \in Miners \ {m} : miners'[x] = miners[x]
    <3>1. miners[m].graph = g /\ miners[m].cache = c
      BY <1>1
    <3> QED BY <1>10, <1>14, <3>1
  <2> QED BY <2>1 DEF Known, Has
<1>16. /\ sent' \in [Miners -> SUBSET (0..(k - 1))]
       /\ \A x \in Miners : sent'[x] = IF x \in Expressed(m) THEN sent[x] \cup {n} ELSE sent[x]
  <2>1. sent \in [Miners -> SUBSET (0..(n - 1))]
    BY <1>1 DEF IInv, Types
  <2>2. \A x \in Miners : sent'[x] = IF x \in Expressed(m) THEN sent[x] \cup {n} ELSE sent[x]
    BY <1>9 DEF BroadcastSent
  <2>3. sent' = [x \in Miners |-> sent'[x]]
    BY <1>9 DEF BroadcastSent
  <2>4. \A x \in Miners : sent'[x] \subseteq 0..(k - 1)
    BY <1>12, <2>1, <2>2
  <2> QED BY <2>2, <2>3, <2>4
<1>17. attackers' = attackers /\ peer' = peer
  BY DEF config
<1>18. Types'
  BY <1>2, <1>3, <1>5, <1>9, <1>14, <1>16, <1>17 DEF IInv, Types
<1>19. ASSUME NEW x \in Miners PROVE Miner(x)'
  <2>1. MinerOK(blocks, n, miners[x].graph, miners[x].cache) /\ Clear(blocks, miners[x].graph, miners[x].cache)
    BY <1>1 DEF IInv, Miner
  <2>2. MinerOK(C, k, miners'[x].graph, miners'[x].cache) /\ Clear(C, miners'[x].graph, miners'[x].cache)
    <3>1. CASE x = m
      BY <1>11, <1>14, <3>1
    <3>2. CASE x # m
      BY <1>11, <1>14, <2>1, <3>2
    <3> QED BY <3>1, <3>2
  <2> QED BY <1>1, <1>5, <2>2 DEF Miner
<1>20. PICK X, o, w, N : /\ X = ExpressEvents(t, m, n) /\ o = PeerSend(t, n, m, TRUE)
                        /\ w = GenBlock(s, k) /\ N = X \cup {o, w}
  OBVIOUS
<1>21. /\ o.type = "PeerSend" /\ o.timestamp = t /\ o.block = n /\ o.sender = m /\ o.first = TRUE
       /\ w.type = "GenBlock" /\ w.timestamp = s /\ w.block = k
  BY <1>20 DEF PeerSend, GenBlock
<1>22. s \in Nat \ {0} /\ s >= t /\ (s <= Duration => k < MaxBlock)
  BY <1>2, <1>3, <1>4, <1>8, Stamps
<1>23. attackers \in {{}, {0}} /\ m \in Miners /\ 0 \in Miners /\ AttackerIn \in Nat /\ AttackerOut \in Nat
  BY <1>4, PeerAssumption DEF IInv, Types
<1>24. \A f \in X :
          /\ f.timestamp \in Nat /\ f.timestamp >= t /\ f.receiver \in Miners
          /\ f = SendBlock(f.timestamp, n, f.receiver) /\ f.type = "SendBlock" /\ f.block = n
  <2> SUFFICES ASSUME NEW f \in X
               PROVE  /\ f.timestamp \in Nat /\ f.timestamp >= t /\ f.receiver \in Miners
                      /\ f = SendBlock(f.timestamp, n, f.receiver) /\ f.type = "SendBlock" /\ f.block = n
    OBVIOUS
  <2>1. PICK x \in Expressed(m), d \in {AttackerIn, AttackerOut} : f = SendBlock(t + d, n, x)
    BY <1>20, <1>23, ExpressIsExact
  <2>2. Expressed(m) \subseteq Miners
    BY <1>23 DEF Expressed
  <2>3. t + d \in Nat /\ t + d >= t
    BY <1>3, <1>23
  <2> QED BY <2>1, <2>2, <2>3, EventFields
<1>25. \A f : f \in N <=> f \in X \/ f = o \/ f = w
  BY <1>20
<1>26. Moves(e, N) /\ queue' = (queue \ {e}) \cup N
  <2>1. \A f \in N : f.timestamp >= t
    <3>1. t >= t
      BY <1>3
    <3> QED BY <1>22, <1>24, <1>21, <1>25, <3>1
  <2>2. N = NetworkBroadcast(t, m, n) \cup {GenBlock(s, k)}
    BY <1>20 DEF NetworkBroadcast
  <2> QED BY <1>8, <2>1, <2>2 DEF Enqueue, Moves
<1>27. \A f \in queue \ {e} : /\ IsBroadcast(f) \/ IsSendBlock(f) \/ IsPeerSend(f)
                              /\ f.block \in 0..(n - 1) /\ f.type # "GenBlock"
  <2>1. \A f \in queue \ {e} : f.type # "GenBlock"
    BY <1>2 DEF IInv, Events
  <2>2. \A f \in queue \ {e} : IsBroadcast(f) \/ IsSendBlock(f) \/ IsPeerSend(f)
    BY <2>1, EventKinds DEF IInv, Events
  <2>3. \A f \in queue \ {e} : f.block \in 0..(n - 1)
    BY <1>1, <1>2, <2>1, NothingYet
  <2> QED BY <2>1, <2>2, <2>3
<1>28. ASSUME NEW f \in queue \ {e} PROVE (IsBroadcast(f) \/ IsSendBlock(f) \/ IsPeerSend(f))'
  <2>1. f.block \in 0..(k - 1) /\ C[f.block].minerID = blocks[f.block].minerID
    BY <1>10, <1>12, <1>27
  <2>2. IsBroadcast(f) => IsBroadcast(f)'
    BY DEF IsBroadcast
  <2>3. IsSendBlock(f) => IsSendBlock(f)'
    BY <1>5, <2>1 DEF IsSendBlock
  <2>4. IsPeerSend(f) => IsPeerSend(f)'
    BY <1>1, <1>5, <2>1 DEF IsPeerSend
  <2> QED BY <1>27, <2>2, <2>3, <2>4
<1>29. ASSUME NEW f \in N PROVE (IsGenBlock(f) \/ IsSendBlock(f) \/ IsPeerSend(f))' /\ (f.type = "GenBlock" => f = GenBlock(s, k))
  <2>1. n \in 0..(k - 1)
    BY <1>12
  <2>2. CASE f = w
    <3>1. f.type = "GenBlock" /\ f.timestamp = s /\ f = GenBlock(s, k)
      BY <1>20, <1>21, <2>2
    <3>2. IsGenBlock(f)'
      BY <1>5, <1>22, <3>1 DEF IsGenBlock
    <3> QED BY <3>1, <3>2
  <2>3. CASE f = o
    <3>1. /\ f.type = "PeerSend" /\ f.timestamp = t /\ f.block = n /\ f.sender = m /\ f.first = TRUE
          /\ f = PeerSend(t, n, m, TRUE)
      BY <1>20, <1>21, <2>3
    <3>2. IsPeerSend(f)'
      BY <1>1, <1>3, <1>4, <1>5, <1>10, <2>1, <3>1 DEF IsPeerSend
    <3> QED BY <3>1, <3>2
  <2>4. CASE f \in X
    <3>1. IsSendBlock(f)'
      BY <1>5, <1>24, <2>1, <2>4 DEF IsSendBlock
    <3> QED BY <1>24, <2>4, <3>1
  <2> QED BY <1>20, <2>2, <2>3, <2>4
<1>30. Events'
  <2>1. \A f \in queue' : (IsGenBlock(f) \/ IsBroadcast(f) \/ IsSendBlock(f) \/ IsPeerSend(f))'
    BY <1>26, <1>28, <1>29
  <2>2. \A f \in queue' : f.type = "GenBlock" => f = GenBlock(s, k)
    BY <1>26, <1>27, <1>29
  <2> QED BY <2>1, <2>2 DEF Events
<1>31. Ahead'
  <2>1. \A f \in queue : t <= f.timestamp
    BY <1>1 DEF Earliest
  <2>2. \A f \in N : t <= f.timestamp
    <3>1. t <= t /\ t <= s
      BY <1>3, <1>22
    <3>2. \A f \in X : t <= f.timestamp
      BY <1>3, <1>24
    <3> QED BY <1>21, <1>25, <3>1, <3>2
  <2> QED BY <1>2, <1>26, <2>1, <2>2 DEF Ahead
<1>32. \A f \in N : /\ \A b, x : IsComing(f, b, x) => b = n
                    /\ \A b, x : IsOffer(f, b, x) => b = n /\ x = m /\ f = o
  BY <1>20, <1>24, <1>21, ZenonT(30) DEF IsComing, IsOffer
<1>33. \A b, x : ~ IsComing(e, b, x) /\ ~ IsOffer(e, b, x)
  BY <1>2 DEF IsComing, IsOffer
<1>34. ASSUME NEW b, b # n, NEW x PROVE Coming(b, x)' = Coming(b, x) /\ Offers(b, x)' = Offers(b, x)
  <2>1. Coming(b, x)' = Coming(b, x)
    <3>1. ~ IsComing(e, b, x) /\ \A f \in N : ~ IsComing(f, b, x)
      BY <1>32, <1>33, <1>34
    <3> QED BY <1>26, <3>1, ComingStays
  <2>2. Offers(b, x)' = Offers(b, x)
    <3>1. ~ IsOffer(e, b, x) /\ \A f \in N : ~ IsOffer(f, b, x)
      BY <1>32, <1>33, <1>34
    <3> QED BY <1>26, <3>1, OffersStay
  <2> QED BY <2>1, <2>2
<1>35. \A x : Coming(n, x) = {} /\ Offers(n, x) = {}
  BY <1>1, <1>2, NothingYet
<1>36. \A x \in Miners : n \notin Has(x) /\ n \notin Known(x) /\ n \notin sent[x]
  BY <1>1, <1>2, <1>12, NothingYet DEF Has, Known, IInv, Types
<1>37. ASSUME NEW x \in Miners PROVE GenesisComes(x)'
  <2>1. Genesis \in Known(x)
    BY <1>2, GenesisKnown
  <2> QED BY <1>15, <2>1 DEF GenesisComes
<1>38. ASSUME NEW x \in Miners PROVE Reserved(x)'
  <2>1. Reserved(x) /\ netTime[x] \in Nat /\ timestamp \in Nat /\ timestamp <= t
    BY <1>2, <1>1 DEF IInv, Types, Ahead, Earliest
  <2>2. Used(x) \subseteq Used(x)'
    <3>1. queue' \subseteq queue \cup N
      BY <1>26
    <3>2. \A f \in N : IsOffer(f, f.block, x) => ~ f.first \/ f.block \notin 0..(Size - 1)
      BY <1>1, <1>12, <1>32
    <3>3. \A b \in 0..(Size - 1) : blocks'[b].minerID = blocks[b].minerID
      BY <1>1, <1>10
    <3>4. Size \in Nat /\ Size' \in Nat /\ Size <= Size'
      BY <1>1, <1>4, <1>5
    <3> QED BY <3>1, <3>2, <3>3, <3>4, UsedGrows
  <2>3. netTime'[x] = netTime[x] /\ timestamp' \in Nat /\ timestamp <= timestamp'
    BY <1>2, <1>3, <1>9, <2>1
  <2> QED BY <1>1, <1>4, <1>5, <2>1, <2>2, <2>3, ReservedStays
<1>39. ASSUME NEW b \in 0..(k - 1), NEW x \in Miners PROVE Offered(b, x)'
  <2>1. CASE b \in 0..(n - 1)
    <3>1. Offered(b, x) /\ b # n
      BY <1>1, <1>2, <1>12, <2>1 DEF IInv
    <3>2. Offers(b, x)' = Offers(b, x) /\ (b \in Known(x)' <=> b \in Known(x))
      BY <1>15, <1>34, <3>1
    <3>3. Wanting(x, b)' \subseteq Wanting(x, b)
      <4>1. peer \in [Miners -> Seq(Miners)] /\ peer' = peer
        BY <1>17 DEF IInv, Types
      <4>2. \A p \in Miners : b \in sent[p] => b \in sent'[p]
        BY <1>16
      <4> QED BY <4>1, <4>2, WantingShrinks
    <3> QED BY <3>1, <3>2, <3>3, OfferedStays
  <2>2. CASE b = n /\ x = m
    <3>1. IsOffer(o, n, m) /\ o \in N
      BY <1>20, <1>21 DEF IsOffer
    <3>2. Offers(n, m)' = {o} /\ o \in queue'
      <4>1. Offers(n, m) \subseteq {e}
        BY <1>35
      <4>2. \A y \in N : IsOffer(y, n, m) => y = o
        BY <1>32
      <4> QED BY <1>26, <3>1, <4>1, <4>2, OffersAre
    <3> QED BY <1>15, <2>2, <3>2 DEF Offered
  <2>3. CASE b = n /\ x # m
    <3>1. Offers(n, x)' = Offers(n, x)
      <4>1. ~ IsOffer(e, n, x) /\ \A f \in N : ~ IsOffer(f, n, x)
        BY <1>32, <1>33, <2>3
      <4> QED BY <1>26, <4>1, OffersStay
    <3> QED BY <1>15, <1>35, <1>36, <2>3, <3>1 DEF Offered
  <2> QED BY <1>12, <2>1, <2>2, <2>3
<1>40. ASSUME NEW b \in 1..(k - 1), NEW x \in Miners PROVE Marked(b, x)'
  <2>1. CASE b \in 1..(n - 1)
    <3>1. Marked(b, x) /\ b # n /\ b \in 0..(n - 1)
      BY <1>1, <1>2, <1>4, <2>1 DEF IInv
    <3>2. Coming(b, x)' = Coming(b, x) /\ blocks'[b].minerID = blocks[b].minerID
      BY <1>1, <1>10, <1>34, <3>1
    <3>3. (b \in sent'[x] <=> b \in sent[x]) /\ (b \in Has(x)' <=> b \in Has(x))
          /\ (b \in Known(x) => b \in Known(x)')
      BY <1>15, <1>16, <3>1
    <3> QED BY <3>1, <3>2, <3>3, MarkedStays
  <2>2. CASE b = n /\ x \in Expressed(m)
    <3>1. PICK f \in X : IsComing(f, n, x) /\ \A y \in X : IsComing(y, n, x) => y = f
      BY <1>20, <1>23, <2>2, ExpressIsExact
    <3>2. \A y \in N : IsComing(y, n, x) => y = f
      BY <1>20, <1>21, <3>1 DEF IsComing
    <3>3. f \in N /\ Coming(n, x) \subseteq {e}
      BY <1>20, <1>35
    <3>4. Coming(n, x)' = {f} /\ f \in queue'
      BY <1>26, <3>1, <3>2, <3>3, ComingIs
    <3>5. n \in sent'[x]
      BY <1>16, <2>2
    <3>6. (n \notin Has(x)' \/ x = m) /\ (x = m => n \in Known(x)')
      BY <1>15, <1>36
    <3> QED BY <1>1, <1>10, <2>2, <3>4, <3>5, <3>6 DEF Marked
  <2>3. CASE b = n /\ x \notin Expressed(m)
    <3>1. \A y \in N : ~ IsComing(y, n, x)
      <4>1. \A y \in X : y.receiver # x
        BY <1>20, <1>23, <2>3, ExpressIsExact
      <4> QED BY <1>20, <1>21, <4>1 DEF IsComing
    <3>2. Coming(n, x)' = {}
      <4>1. Coming(n, x)' = Coming(n, x)
        <5>1. ~ IsComing(e, n, x)
          BY <1>33
        <5> QED BY <1>26, <3>1, <5>1, ComingStays
      <4> QED BY <1>35, <4>1
    <3>3. n \notin sent'[x]
      BY <1>16, <1>36, <2>3
    <3>4. (n \in Has(x)' => x = m) /\ (x = m => n \in Known(x)')
      BY <1>15, <1>36
    <3> QED BY <1>1, <1>10, <2>3, <3>2, <3>3, <3>4 DEF Marked
  <2> QED BY <1>12, <2>1, <2>2, <2>3
<1> QED BY <1>5, <1>13, <1>18, <1>19, <1>30, <1>31, <1>37, <1>38, <1>39, <1>40 DEF IInv


-----------------------------------------------------------------------------
(***************************************************************************)
(* SendBlockEvent and BroadcastEvent.                                      *)
(***************************************************************************)
\* Genesis waits for nothing.
LEMMA GenesisNotCached ==
    ASSUME NEW B, NEW n, TableOK(B, n), NEW g, NEW c \in Seq(0..(n - 1)), Clear(B, g, c)
    PROVE  Genesis \notin ToSet(c)
<1> SUFFICES ASSUME Genesis \in ToSet(c) PROVE FALSE
  OBVIOUS
<1>1. PICK i \in 1..Len(c) : c[i] = 0
  BY ToSetIs
<1>2. InsertResult(B, g, 0) = "Fail"
  BY <1>1 DEF Clear, Drained
<1>3. Parents(B, 0) = {}
  BY TableFacts DEF Parents, IsGenesis
<1> QED BY <1>2, <1>3 DEF InsertResult, SeenAllAncestors

\* What is on its way to a miner is not in its cache.
LEMMA ComesOnce ==
    ASSUME IInv, running, NEW e \in queue, e.type = "SendBlock"
    PROVE  /\ IsSendBlock(e) /\ e.block \in 0..(Size - 1) /\ e.receiver \in Miners /\ e.timestamp \in Nat
           /\ e.block \notin ToSet(miners[e.receiver].cache)
           /\ e.block # 0 =>
                /\ Coming(e.block, e.receiver) = {e} /\ e.block \in sent[e.receiver]
                /\ blocks[e.block].minerID = e.receiver => e.block \in Known(e.receiver)
<1>1. IsSendBlock(e)
  BY EventKinds DEF IInv, Events
<1>2. PICK b, x, c : b = e.block /\ x = e.receiver /\ c = miners[x].cache
  OBVIOUS
<1>3. b \in 0..(Size - 1) /\ x \in Miners /\ e.timestamp \in Nat
  BY <1>1, <1>2 DEF IsSendBlock
<1>4. c \in Seq(0..(Size - 1)) /\ Clear(blocks, miners[x].graph, c) /\ TableOK(blocks, Size) /\ Size \in Nat
  BY <1>2, <1>3 DEF IInv, Miner, MinerOK, Blocks
<1>5. CASE b = 0
  BY <1>1, <1>2, <1>3, <1>4, <1>5, GenesisNotCached
<1>6. CASE b # 0
  <2>1. Marked(b, x) /\ e \in Coming(b, x)
    <3>1. b \in 1..(Size - 1)
      BY <1>3, <1>4, <1>6
    <3> QED BY <1>2, <1>3, <3>1 DEF IInv, Coming
  <2>2. /\ b \in sent[x] /\ Coming(b, x) = {e} /\ (b \notin Has(x) \/ blocks[b].minerID = x)
        /\ blocks[b].minerID = x => b \in Known(x)
    BY <2>1 DEF Marked
  <2>3. b \in ToSet(c) => b \in Has(x) /\ b \notin Known(x)
    BY <1>2, <1>4 DEF Clear, Has, Known
  <2> QED BY <1>1, <1>2, <1>3, <2>2, <2>3
<1> QED BY <1>5, <1>6

\* A block comes: it and what waited for it may enter the graph, and what
\* enters is offered to the peers.
LEMMA SendBlockKeeps ==
    ASSUME IInv, NEW e \in Earliest(queue), Pop(e), RunSendBlock(e), UNCHANGED config
    PROVE  IInv'
<1>1. PICK b, x, n, t, hm, r : /\ b = e.block /\ x = e.receiver /\ n = Size /\ t = e.timestamp
                               /\ hm = miners[x] /\ r = ReceiveBlock(blocks, hm, b)
  OBVIOUS
<1>2. PICK N : N = {PeerSend(t, a, x, FALSE) : a \in ToSet(r.relays)}
  OBVIOUS
<1>3. /\ e.type = "SendBlock" /\ blocks' = blocks /\ mined' = mined /\ sent' = sent /\ netTime' = netTime
      /\ running /\ running' = running /\ timestamp' = t /\ e \in queue
      /\ attackers' = attackers /\ peer' = peer
      /\ miners' = [miners EXCEPT ![x] = [graph |-> r.graph, cache |-> r.cache]]
      /\ queue' = Enqueue(queue \ {e}, UNION {NetworkRelay(t, x, a) : a \in ToSet(r.relays)}, t)
  BY <1>1 DEF Pop, RunSendBlock, config, netVars, Earliest
<1>4. /\ IsSendBlock(e) /\ b \in 0..(n - 1) /\ x \in Miners /\ t \in Nat /\ b \notin ToSet(hm.cache)
      /\ b # 0 => /\ Coming(b, x) = {e} /\ b \in sent[x]
                  /\ blocks[b].minerID = x => b \in Known(x)
  BY <1>1, <1>3, ComesOnce
<1>5. /\ TableOK(blocks, n) /\ MinerOK(blocks, n, hm.graph, hm.cache)
      /\ Clear(blocks, hm.graph, hm.cache) /\ n \in Nat
      /\ miners \in [Miners -> [graph : Graph, cache : Seq(BlockIds)]]
  BY <1>1, <1>4, TableFacts DEF IInv, Types, Blocks, Miner
<1>6. Received(blocks, n, hm.graph, hm.cache, b, r)
  BY <1>1, <1>4, <1>5, ReceiveBlockOK
<1>7. Size' = n
  BY <1>1, <1>3 DEF Size
<1>8. /\ MinerOK(blocks, n, r.graph, r.cache) /\ r.relays \in Seq(0..(n - 1))
      /\ r.graph.ledger \cup ToSet(r.cache) = Known(x) \cup ToSet(hm.cache) \cup {b}
      /\ r.graph.ledger = Known(x) \cup ToSet(r.relays) /\ Known(x) \cap ToSet(r.relays) = {}
      /\ Clear(blocks, r.graph, r.cache)
  <2>1. Entered(blocks, hm.graph.ledger, r.relays, r.graph.ledger)
    BY <1>6 DEF Received
  <2>2. r.graph.ledger = Known(x) \cup ToSet(r.relays) /\ Known(x) \cap ToSet(r.relays) = {}
    BY <1>1, <2>1 DEF Entered, Known
  <2>3. r.graph.ledger \cup ToSet(r.cache) = Known(x) \cup ToSet(hm.cache) \cup {b}
    BY <1>1, <1>6 DEF Received, Known
  <2>4. MinerOK(blocks, n, r.graph, r.cache) /\ r.relays \in Seq(0..(n - 1))
    BY <1>6 DEF Received
  <2>5. Clear(blocks, r.graph, r.cache)
    BY <1>4, <1>5, <1>6 DEF Received
  <2> QED BY <2>2, <2>3, <2>4, <2>5
<1>9. \A a : a \in ToSet(r.relays) => a \in 0..(n - 1)
  BY <1>8, ToSetIs
<1>10. r.graph \in Graph /\ r.cache \in Seq(BlockIds)
  <2>1. 0..(n - 1) \subseteq BlockIds
    BY <1>5, TableFacts
  <2>2. r.graph \in Graph /\ r.cache \in Seq(0..(n - 1))
    BY <1>8 DEF MinerOK, GraphOK
  <2> QED BY <2>1, <2>2, SeqMonotonic
<1>11. /\ miners'[x].graph = r.graph /\ miners'[x].cache = r.cache
       /\ \A m \in Miners \ {x} : miners'[m] = miners[m]
       /\ miners' \in [Miners -> [graph : Graph, cache : Seq(BlockIds)]]
  <2>1. PICK v : v = [graph |-> r.graph, cache |-> r.cache]
    OBVIOUS
  <2>2. v \in [graph : Graph, cache : Seq(BlockIds)] /\ v.graph = r.graph /\ v.cache = r.cache
    BY <1>10, <2>1
  <2>3. miners' = [miners EXCEPT ![x] = v]
    BY <1>3, <2>1
  <2>4. miners'[x] = v
    BY <1>4, <1>5, <2>3
  <2> QED BY <1>4, <1>5, <2>2, <2>3, <2>4
<1>12. /\ Known(x)' = Known(x) \cup ToSet(r.relays) /\ Has(x)' = Has(x) \cup {b}
       /\ \A m \in Miners \ {x} : Known(m)' = Known(m) /\ Has(m)' = Has(m)
  BY <1>1, <1>8, <1>11 DEF Known, Has
<1>13. \A m \in Miners : Known(m) \subseteq Known(m)'
  BY <1>12
<1>14. Types'
  BY <1>1, <1>3, <1>4, <1>7, <1>11 DEF IInv, Types
<1>15. \A f \in N : /\ f.type = "PeerSend" /\ f.timestamp = t /\ f.sender = x /\ f.first = FALSE
                    /\ f.block \in ToSet(r.relays) /\ f = PeerSend(t, f.block, x, FALSE)
  <2>1. ASSUME NEW a, NEW f, f = PeerSend(t, a, x, FALSE)
        PROVE  /\ f.type = "PeerSend" /\ f.timestamp = t /\ f.sender = x /\ f.first = FALSE
               /\ f.block = a
    BY <2>1 DEF PeerSend
  <2> SUFFICES ASSUME NEW f \in N
               PROVE  /\ f.type = "PeerSend" /\ f.timestamp = t /\ f.sender = x /\ f.first = FALSE
                      /\ f.block \in ToSet(r.relays) /\ f = PeerSend(t, f.block, x, FALSE)
    OBVIOUS
  <2>2. PICK a \in ToSet(r.relays) : f = PeerSend(t, a, x, FALSE)
    BY <1>2
  <2> QED BY <2>1, <2>2
<1>16. Moves(e, N) /\ queue' = (queue \ {e}) \cup N
  <2>1. UNION {NetworkRelay(t, x, a) : a \in ToSet(r.relays)} = N
    BY <1>2 DEF NetworkRelay
  <2>2. \A f \in N : f.timestamp >= t
    <3>1. t >= t
      BY <1>4
    <3> QED BY <1>15, <3>1
  <2> QED BY <1>3, <2>1, <2>2 DEF Enqueue, Moves
<1>17. \A f \in N : IsPeerSend(f) /\ f.timestamp >= e.timestamp
  <2> SUFFICES ASSUME NEW f \in N PROVE IsPeerSend(f) /\ f.timestamp >= e.timestamp
    OBVIOUS
  <2>1. /\ f.type = "PeerSend" /\ f.timestamp = t /\ f.sender = x /\ f.first = FALSE
        /\ f.block \in 0..(Size - 1) /\ f = PeerSend(t, f.block, x, FALSE)
    BY <1>1, <1>9, <1>15
  <2>2. t \in Nat /\ x \in Miners /\ t = e.timestamp /\ t >= t
    BY <1>1, <1>4
  <2>3. IsPeerSend(f)
    BY <2>1, <2>2 DEF IsPeerSend
  <2> QED BY <2>1, <2>2, <2>3
<1>18. /\ Blocks' /\ Events' /\ Ahead'
       /\ timestamp \in Nat /\ timestamp' \in Nat /\ timestamp <= timestamp'
  BY <1>1, <1>3, <1>16, <1>17, QueueKeeps
<1>19. ASSUME NEW m \in Miners PROVE Miner(m)'
  <2>1. CASE m = x
    BY <1>3, <1>7, <1>8, <1>11, <2>1 DEF Miner
  <2>2. CASE m # x
    BY <1>1, <1>3, <1>7, <1>11, <2>2 DEF IInv, Miner
  <2> QED BY <2>1, <2>2
<1>20. ASSUME NEW m \in Miners PROVE GenesisComes(m)'
  <2>1. GenesisComes(m)
    BY <1>3 DEF IInv
  <2>2. e # Broadcast(0, 0)
    BY <1>3, EventFields
  <2>3. CASE e # SendBlock(0, 0, m)
    <3>1. Known(m) \subseteq Known(m)' /\ queue \ {e} \subseteq queue'
      BY <1>13, <1>16
    <3> QED BY <2>1, <2>2, <2>3, <3>1, GenesisStays
  <2>4. CASE e = SendBlock(0, 0, m)
    <3>1. b = 0 /\ m = x
      BY <1>1, <2>4, EventFields
    <3>2. 0 \notin ToSet(r.cache)
      <4>1. r.cache \in Seq(0..(n - 1))
        BY <1>8 DEF MinerOK
      <4> QED BY <1>5, <1>8, <4>1, GenesisNotCached
    <3>3. 0 \in Known(x)'
      BY <1>8, <1>12, <3>1, <3>2
    <3> QED BY <3>1, <3>3 DEF GenesisComes
  <2> QED BY <2>3, <2>4
<1>21. ASSUME NEW m \in Miners PROVE Reserved(m)'
  <2>1. Reserved(m) /\ netTime[m] \in Nat /\ netTime'[m] = netTime[m] /\ Size \in Nat /\ Size' \in Nat
    BY <1>1, <1>3, <1>5, <1>7 DEF IInv, Types
  <2>2. Used(m) \subseteq Used(m)'
    <3>1. queue' \subseteq queue \cup N
      BY <1>16
    <3>2. \A f \in N : IsOffer(f, f.block, m) => ~ f.first \/ f.block \notin 0..(Size - 1)
      BY <1>15
    <3>3. Size <= Size' /\ \A a \in 0..(Size - 1) : blocks'[a].minerID = blocks[a].minerID
      BY <1>1, <1>3, <1>5, <1>7
    <3> QED BY <2>1, <3>1, <3>2, <3>3, UsedGrows
  <2> QED BY <1>18, <2>1, <2>2, ReservedStays
<1>22. ASSUME NEW a \in 0..(n - 1), NEW m \in Miners PROVE Offered(a, m)'
  <2>1. Offered(a, m)
    BY <1>1, <1>3 DEF IInv
  <2>2. ~ IsOffer(e, a, m)
    BY <1>3 DEF IsOffer
  <2>3. CASE m = x /\ a \in ToSet(r.relays)
    <3>1. PICK o : o = PeerSend(t, a, x, FALSE)
      OBVIOUS
    <3>2. o \in N
      BY <1>2, <2>3, <3>1
    <3>3. IsOffer(o, a, m)
      BY <2>3, <3>1 DEF IsOffer, PeerSend
    <3>4. \A f \in N : IsOffer(f, a, m) => f = o
      BY <1>15, <3>1 DEF IsOffer
    <3>5. Offers(a, m) \subseteq {e}
      BY <1>8, <2>1, <2>3 DEF Offered
    <3>6. Offers(a, m)' = {o} /\ o \in queue'
      BY <1>16, <3>2, <3>3, <3>4, <3>5, OffersAre
    <3>7. a \in Known(m)'
      BY <1>12, <2>3
    <3> QED BY <3>6, <3>7 DEF Offered
  <2>4. CASE ~ (m = x /\ a \in ToSet(r.relays))
    <3>1. \A f \in N : ~ IsOffer(f, a, m)
      BY <1>15, <2>4 DEF IsOffer
    <3>2. Offers(a, m)' = Offers(a, m)
      BY <1>16, <2>2, <3>1, OffersStay
    <3>3. a \in Known(m)' <=> a \in Known(m)
      BY <1>12, <2>4
    <3>4. Wanting(m, a)' \subseteq Wanting(m, a)
      <4>1. peer \in [Miners -> Seq(Miners)]
        BY DEF IInv, Types
      <4> QED BY <1>3, <4>1, WantingShrinks
    <3> QED BY <2>1, <3>2, <3>3, <3>4, OfferedStays
  <2> QED BY <2>3, <2>4
<1>23. ASSUME NEW a \in 1..(n - 1), NEW m \in Miners PROVE Marked(a, m)'
  <2>1. Marked(a, m)
    BY <1>1, <1>3 DEF IInv
  <2>2. \A f \in N : ~ IsComing(f, a, m)
    BY <1>15 DEF IsComing
  <2>3. CASE a = b /\ m = x
    <3>1. Coming(b, x) = {e} /\ b \in sent[x] /\ (blocks[b].minerID = x => b \in Known(x))
      BY <1>4, <1>5, <2>3
    <3>2. Coming(b, x) \subseteq {e}
      BY <3>1
    <3>3. Coming(b, x)' = {}
      BY <1>16, <2>2, <2>3, <3>2, ComingGone
    <3>4. b \in Has(x)' /\ (blocks[b].minerID = x => b \in Known(x)')
      BY <1>12, <3>1
    <3> QED BY <1>3, <2>3, <3>1, <3>3, <3>4 DEF Marked
  <2>4. CASE ~ (a = b /\ m = x)
    <3>1. ~ IsComing(e, a, m)
      BY <1>1, <2>4 DEF IsComing
    <3>2. Coming(a, m)' = Coming(a, m)
      BY <1>16, <2>2, <3>1, ComingStays
    <3>3. (a \in Has(m)' <=> a \in Has(m)) /\ (a \in Known(m) => a \in Known(m)')
      BY <1>12, <2>4
    <3> QED BY <1>3, <2>1, <3>2, <3>3, MarkedStays
  <2> QED BY <2>3, <2>4
<1> QED BY <1>7, <1>14, <1>18, <1>19, <1>20, <1>21, <1>22, <1>23 DEF IInv


\* A step that leaves blocks and miners alone.
LEMMA MinersKeep ==
    ASSUME IInv, blocks' = blocks, mined' = mined, miners' = miners
    PROVE  \A m \in Miners : Miner(m)' /\ Known(m)' = Known(m) /\ Has(m)' = Has(m)
<1>1. Size' = Size
  BY DEF Size
<1>2. \A m : Miner(m)' <=> Miner(m)
  BY <1>1 DEF Miner
<1>3. \A m : Known(m)' = Known(m) /\ Has(m)' = Has(m)
  BY DEF Known, Has
<1> QED BY <1>2, <1>3 DEF IInv

\* Genesis is sent to everyone.
LEMMA BroadcastKeeps ==
    ASSUME IInv, NEW e \in Earliest(queue), Pop(e), RunBroadcastEvent(e), UNCHANGED config
    PROVE  IInv'
<1>1. PICK N : N = {SendBlock(0, 0, m) : m \in Miners}
  OBVIOUS
<1>2. /\ e.type = "Broadcast" /\ e \in queue /\ running /\ running' = running
      /\ timestamp' = e.timestamp /\ blocks' = blocks /\ mined' = mined /\ miners' = miners
      /\ sent' = sent /\ netTime' = netTime /\ attackers' = attackers /\ peer' = peer
      /\ queue' = Enqueue(queue \ {e}, {SendBlock(e.timestamp, e.block, m) : m \in Miners}, e.timestamp)
  BY DEF Pop, RunBroadcastEvent, config, netVars, Earliest
<1>3. e = Broadcast(0, 0) /\ e.timestamp = 0 /\ e.block = 0
  <2>1. IsBroadcast(e)
    BY <1>2, EventKinds DEF IInv, Events
  <2> QED BY <2>1, EventFields DEF IsBroadcast
<1>4. \A f \in N : f.type = "SendBlock" /\ f.timestamp = 0 /\ f.block = 0 /\ f.receiver \in Miners
                   /\ f = SendBlock(0, 0, f.receiver)
  <2>1. ASSUME NEW m, NEW f, f = SendBlock(0, 0, m)
        PROVE  f.type = "SendBlock" /\ f.timestamp = 0 /\ f.block = 0 /\ f.receiver = m
    BY <2>1 DEF SendBlock
  <2> SUFFICES ASSUME NEW f \in N
               PROVE  /\ f.type = "SendBlock" /\ f.timestamp = 0 /\ f.block = 0 /\ f.receiver \in Miners
                      /\ f = SendBlock(0, 0, f.receiver)
    OBVIOUS
  <2>2. PICK m \in Miners : f = SendBlock(0, 0, m)
    BY <1>1
  <2> QED BY <2>1, <2>2
<1>5. Moves(e, N) /\ queue' = (queue \ {e}) \cup N
  <2>1. \A f \in N : f.timestamp >= 0
    BY <1>4
  <2>2. queue' = Enqueue(queue \ {e}, N, 0)
    BY <1>1, <1>2, <1>3
  <2> QED BY <2>1, <2>2 DEF Enqueue, Moves
<1>6. Size \in Nat /\ Size >= 1 /\ Size' = Size
  BY <1>2 DEF IInv, Blocks, Size
<1>7. \A f \in N : IsSendBlock(f) /\ f.timestamp >= e.timestamp
  <2>1. 0 \in 0..(Size - 1)
    BY <1>6
  <2>2. \A f \in N : f.timestamp >= e.timestamp
    BY <1>3, <1>4
  <2> QED BY <1>4, <2>1, <2>2 DEF IsSendBlock
<1>8. /\ Blocks' /\ Events' /\ Ahead'
      /\ timestamp \in Nat /\ timestamp' \in Nat /\ timestamp <= timestamp'
  BY <1>2, <1>5, <1>7, QueueKeeps
<1>9. Types'
  BY <1>2, <1>6, <1>8 DEF IInv, Types
<1>10. \A m \in Miners : Miner(m)' /\ Known(m)' = Known(m) /\ Has(m)' = Has(m)
  BY <1>2, MinersKeep
<1>11. ASSUME NEW m \in Miners PROVE GenesisComes(m)' /\ Reserved(m)'
  <2>1. SendBlock(0, 0, m) \in queue'
    BY <1>1, <1>5
  <2>2. Reserved(m) /\ netTime[m] \in Nat
    BY <1>2 DEF IInv, Types
  <2>3. Used(m) \subseteq Used(m)'
    <3>1. queue' \subseteq queue \cup N
      BY <1>5
    <3>2. \A f \in N : IsOffer(f, f.block, m) => ~ f.first \/ f.block \notin 0..(Size - 1)
      BY <1>4 DEF IsOffer
    <3>3. Size <= Size' /\ \A a \in 0..(Size - 1) : blocks'[a].minerID = blocks[a].minerID
      BY <1>2, <1>6
    <3> QED BY <1>6, <3>1, <3>2, <3>3, UsedGrows
  <2>4. Reserved(m)'
    BY <1>2, <1>6, <1>8, <2>2, <2>3, ReservedStays
  <2> QED BY <2>1, <2>4 DEF GenesisComes
<1>12. ASSUME NEW a \in 0..(Size - 1), NEW m \in Miners PROVE Offered(a, m)'
  <2>1. Offered(a, m) /\ peer \in [Miners -> Seq(Miners)]
    BY <1>2 DEF IInv, Types
  <2>2. ~ IsOffer(e, a, m) /\ \A f \in N : ~ IsOffer(f, a, m)
    BY <1>2, <1>4 DEF IsOffer
  <2>3. Offers(a, m)' = Offers(a, m)
    BY <1>5, <2>2, OffersStay
  <2>4. Wanting(m, a)' \subseteq Wanting(m, a)
    BY <1>2, <2>1, WantingShrinks
  <2> QED BY <1>10, <2>1, <2>3, <2>4, OfferedStays
<1>13. ASSUME NEW a \in 1..(Size - 1), NEW m \in Miners PROVE Marked(a, m)'
  <2>1. Marked(a, m) /\ a # 0
    BY <1>2, <1>6 DEF IInv
  <2>2. ~ IsComing(e, a, m) /\ \A f \in N : ~ IsComing(f, a, m)
    BY <1>2, <1>4, <2>1 DEF IsComing
  <2>3. Coming(a, m)' = Coming(a, m)
    BY <1>5, <2>2, ComingStays
  <2> QED BY <1>2, <1>10, <2>1, <2>3, MarkedStays
<1> QED BY <1>6, <1>8, <1>9, <1>10, <1>11, <1>12, <1>13 DEF IInv

-----------------------------------------------------------------------------
(***************************************************************************)
(* PeerSendEvent.                                                          *)
(***************************************************************************)
\* What an offer says, and that its block and its sender have no other.
LEMMA OfferIsOne ==
    ASSUME IInv, running, NEW e \in queue, e.type = "PeerSend"
    PROVE  /\ IsPeerSend(e) /\ e.block \in 0..(Size - 1) /\ e.sender \in Miners
           /\ e.first \in BOOLEAN /\ e.timestamp \in Nat
           /\ e.first => blocks[e.block].minerID = e.sender
           /\ e \in Offers(e.block, e.sender) /\ Offers(e.block, e.sender) \subseteq {e}
           /\ e.block \in Known(e.sender)
<1>1. IsPeerSend(e)
  BY EventKinds DEF IInv, Events
<1>2. e.block \in 0..(Size - 1) /\ e.sender \in Miners
  BY <1>1 DEF IsPeerSend
<1>3. e \in Offers(e.block, e.sender) /\ Offered(e.block, e.sender)
  BY <1>2 DEF Offers, IInv
<1>4. Offers(e.block, e.sender) \subseteq {e} /\ e.block \in Known(e.sender)
  BY <1>3 DEF Offered
<1> QED BY <1>1, <1>2, <1>3, <1>4 DEF IsPeerSend

\* What the three cases have in common: all that is left to show for each is
\* what it makes of the offer, of the marks and of the link.
LEMMA PeerSendKeeps ==
    ASSUME IInv, NEW e \in Earliest(queue), Pop(e), e.type = "PeerSend", UNCHANGED config,
           blocks' = blocks, mined' = mined, miners' = miners,
           NEW N, Moves(e, N),
           \A f \in N : (IsSendBlock(f) \/ IsPeerSend(f)) /\ f.timestamp >= e.timestamp,
           \A f \in N : f.type = "PeerSend" => f.block = e.block /\ f.sender = e.sender /\ ~ f.first,
           sent' \in [Miners -> SUBSET (0..(Size - 1))], \A p \in Miners : sent[p] \subseteq sent'[p],
           netTime' \in [Miners -> Nat],
           \A m \in Miners \ {e.sender} : netTime'[m] = netTime[m],
           Reserved(e.sender)', Offered(e.block, e.sender)',
           \A a \in 1..(Size - 1) : \A m \in Miners : Marked(a, m)'
    PROVE  IInv'
<1>1. /\ e \in queue /\ running /\ running' = running /\ timestamp' = e.timestamp
      /\ attackers' = attackers /\ peer' = peer /\ queue' = (queue \ {e}) \cup N
  BY DEF Pop, config, Earliest, Moves
<1>2. Size \in Nat /\ Size >= 1 /\ Size' = Size
  BY DEF IInv, Blocks, Size
<1>3. /\ Blocks' /\ Events' /\ Ahead'
      /\ timestamp \in Nat /\ timestamp' \in Nat /\ timestamp <= timestamp'
  BY <1>1, QueueKeeps
<1>4. Types'
  BY <1>1, <1>2, <1>3 DEF IInv, Types
<1>5. \A m \in Miners : Miner(m)' /\ Known(m)' = Known(m) /\ Has(m)' = Has(m)
  BY MinersKeep
<1>6. ASSUME NEW m \in Miners PROVE GenesisComes(m)'
  <2>1. GenesisComes(m)
    BY <1>1 DEF IInv
  <2>2. e # Broadcast(0, 0) /\ e # SendBlock(0, 0, m)
    BY EventFields
  <2>3. Known(m) \subseteq Known(m)' /\ queue \ {e} \subseteq queue'
    BY <1>1, <1>5
  <2> QED BY <2>1, <2>2, <2>3, GenesisStays
<1>7. ASSUME NEW m \in Miners PROVE Reserved(m)'
  <2>1. CASE m = e.sender
    BY <2>1
  <2>2. CASE m # e.sender
    <3>1. Reserved(m) /\ netTime[m] \in Nat /\ netTime'[m] = netTime[m]
      BY <1>1, <2>2 DEF IInv, Types
    <3>2. Used(m) \subseteq Used(m)'
      <4>1. queue' \subseteq queue \cup N
        BY <1>1
      <4>2. \A f \in N : IsOffer(f, f.block, m) => ~ f.first \/ f.block \notin 0..(Size - 1)
        BY DEF IsOffer
      <4>3. Size <= Size' /\ \A a \in 0..(Size - 1) : blocks'[a].minerID = blocks[a].minerID
        BY <1>2
      <4> QED BY <1>2, <4>1, <4>2, <4>3, UsedGrows
    <3> QED BY <1>2, <1>3, <3>1, <3>2, ReservedStays
  <2> QED BY <2>1, <2>2
<1>8. ASSUME NEW a \in 0..(Size - 1), NEW m \in Miners PROVE Offered(a, m)'
  <2>1. CASE a = e.block /\ m = e.sender
    BY <2>1
  <2>2. CASE ~ (a = e.block /\ m = e.sender)
    <3>1. Offered(a, m) /\ peer \in [Miners -> Seq(Miners)]
      BY <1>1 DEF IInv, Types
    <3>2. ~ IsOffer(e, a, m) /\ \A f \in N : ~ IsOffer(f, a, m)
      BY <2>2 DEF IsOffer
    <3>3. Offers(a, m)' = Offers(a, m)
      BY <3>2, OffersStay
    <3>4. Wanting(m, a)' \subseteq Wanting(m, a)
      <4>1. \A p \in Miners : a \in sent[p] => a \in sent'[p]
        OBVIOUS
      <4> QED BY <1>1, <3>1, <4>1, WantingShrinks
    <3> QED BY <1>5, <3>1, <3>3, <3>4, OfferedStays
  <2> QED BY <2>1, <2>2
<1> QED BY <1>2, <1>3, <1>4, <1>5, <1>6, <1>7, <1>8 DEF IInv


\* The marks when nothing is sent.
LEMMA MarksStay ==
    ASSUME IInv, running, NEW e, e.type = "PeerSend", blocks' = blocks, miners' = miners, sent' = sent,
           NEW N, Moves(e, N), \A f \in N : f.type = "PeerSend"
    PROVE  \A a \in 1..(Size - 1) : \A m \in Miners : Marked(a, m)'
<1> SUFFICES ASSUME NEW a \in 1..(Size - 1), NEW m \in Miners PROVE Marked(a, m)'
  OBVIOUS
<1>1. ~ IsComing(e, a, m) /\ \A f \in N : ~ IsComing(f, a, m)
  BY DEF IsComing
<1>2. Coming(a, m)' = Coming(a, m)
  BY <1>1, ComingStays
<1>3. Marked(a, m) /\ Known(m)' = Known(m) /\ Has(m)' = Has(m)
  BY DEF IInv, Known, Has
<1> QED BY <1>2, <1>3, MarkedStays

\* All peers have the block: it is offered no more.
LEMMA AllHaveKeeps ==
    ASSUME IInv, NEW e \in Earliest(queue), Pop(e), RunPeerSend(e), AllHave(e), UNCHANGED config
    PROVE  IInv'
<1>1. PICK N : N = {}
  OBVIOUS
<1>2. /\ e.type = "PeerSend" /\ e \in queue /\ running /\ timestamp' = e.timestamp
      /\ blocks' = blocks /\ mined' = mined /\ miners' = miners
      /\ sent' = sent /\ netTime' = netTime /\ peer' = peer
      /\ queue' = queue \ {e} /\ Wanting(e.sender, e.block) = {}
  BY DEF Pop, RunPeerSend, AllHave, netVars, config, Earliest
<1>3. Moves(e, N) /\ queue' = (queue \ {e}) \cup N /\ \A f \in N : FALSE
  BY <1>1, <1>2 DEF Moves
<1>4. /\ e.block \in 0..(Size - 1) /\ e.sender \in Miners
      /\ Offers(e.block, e.sender) \subseteq {e} /\ e.block \in Known(e.sender)
  BY <1>2, OfferIsOne
<1>5. Offers(e.block, e.sender)' = {}
  BY <1>3, <1>4, OffersGone
<1>6. Offered(e.block, e.sender)'
  <2>1. Wanting(e.sender, e.block)' = {}
    BY <1>2 DEF Wanting
  <2> QED BY <1>5, <2>1 DEF Offered
<1>7. Reserved(e.sender)'
  <2>1. Reserved(e.sender) /\ netTime[e.sender] \in Nat /\ timestamp \in Nat /\ e.timestamp \in Nat
        /\ timestamp <= e.timestamp /\ Size \in Nat /\ Size' = Size
    BY <1>2, <1>4, OfferIsOne DEF IInv, Types, Ahead, Blocks, Size
  <2>2. Used(e.sender) \subseteq Used(e.sender)'
    <3>1. queue' \subseteq queue \cup N
      BY <1>3
    <3>2. \A f \in N : IsOffer(f, f.block, e.sender) => ~ f.first \/ f.block \notin 0..(Size - 1)
      BY <1>3
    <3>3. Size <= Size' /\ \A a \in 0..(Size - 1) : blocks'[a].minerID = blocks[a].minerID
      BY <1>2, <2>1
    <3> QED BY <2>1, <3>1, <3>2, <3>3, UsedGrows
  <2> QED BY <1>2, <1>4, <2>1, <2>2, ReservedStays
<1>8. \A a \in 1..(Size - 1) : \A m \in Miners : Marked(a, m)'
  BY <1>2, <1>3, MarksStay
<1>9. /\ sent' \in [Miners -> SUBSET (0..(Size - 1))] /\ \A p \in Miners : sent[p] \subseteq sent'[p]
      /\ netTime' \in [Miners -> Nat] /\ \A m \in Miners \ {e.sender} : netTime'[m] = netTime[m]
  BY <1>2 DEF IInv, Types
<1> QED BY <1>2, <1>3, <1>6, <1>7, <1>8, <1>9, PeerSendKeeps

\* The link is busy: the block will be offered again, without priority.
LEMMA PutOffKeeps ==
    ASSUME IInv, NEW e \in Earliest(queue), Pop(e), RunPeerSend(e), PutOff(e), UNCHANGED config
    PROVE  IInv'
<1>1. PICK t, b, s, o, N : /\ t = e.timestamp /\ b = e.block /\ s = e.sender
                           /\ o = PeerSend(t + RetryTime, b, s, FALSE) /\ N = {o}
  OBVIOUS
<1>2. /\ e.type = "PeerSend" /\ e \in queue /\ running /\ timestamp' = t
      /\ blocks' = blocks /\ mined' = mined /\ miners' = miners
      /\ sent' = sent /\ netTime' = netTime /\ peer' = peer
      /\ queue' = Enqueue(queue \ {e}, Retry(e), t)
  BY <1>1 DEF Pop, RunPeerSend, PutOff, netVars, config, Earliest
<1>3. /\ b \in 0..(Size - 1) /\ s \in Miners /\ t \in Nat
      /\ Offers(b, s) \subseteq {e} /\ b \in Known(s) /\ RetryTime \in Nat
  BY <1>1, <1>2, OfferIsOne, PeerAssumption
<1>4. /\ o.type = "PeerSend" /\ o.timestamp = t + RetryTime /\ o.block = b /\ o.sender = s
      /\ o.first = FALSE
  BY <1>1 DEF PeerSend
<1>5. Moves(e, N) /\ queue' = (queue \ {e}) \cup N /\ o \in N /\ \A f \in N : f = o
  <2>1. t + RetryTime >= t /\ Retry(e) = N
    BY <1>1, <1>3 DEF Retry
  <2> QED BY <1>1, <1>2, <1>4, <2>1 DEF Moves, Enqueue
<1>6. IsPeerSend(o) /\ o.timestamp >= t
  <2>1. t + RetryTime >= t /\ t + RetryTime \in Nat
    BY <1>3
  <2>2. o = PeerSend(o.timestamp, o.block, o.sender, o.first)
    BY <1>1, <1>4
  <2> QED BY <1>3, <1>4, <2>1, <2>2 DEF IsPeerSend
<1>7. Offers(b, s)' = {o} /\ o \in queue'
  <2>1. IsOffer(o, b, s)
    BY <1>4 DEF IsOffer
  <2> QED BY <1>3, <1>5, <2>1, OffersAre
<1>8. Offered(b, s)'
  <2>1. Known(s)' = Known(s)
    BY <1>2 DEF Known
  <2> QED BY <1>3, <1>7, <2>1 DEF Offered
<1>9. Reserved(s)'
  <2>1. /\ Reserved(s) /\ netTime[s] \in Nat /\ timestamp \in Nat
        /\ timestamp <= t /\ Size \in Nat /\ Size' = Size
    BY <1>1, <1>2, <1>3 DEF IInv, Types, Ahead, Blocks, Size
  <2>2. Used(s) \subseteq Used(s)'
    <3>1. queue' \subseteq queue \cup N
      BY <1>5
    <3>2. \A f \in N : IsOffer(f, f.block, s) => ~ f.first \/ f.block \notin 0..(Size - 1)
      BY <1>4, <1>5
    <3>3. Size <= Size' /\ \A a \in 0..(Size - 1) : blocks'[a].minerID = blocks[a].minerID
      BY <1>2, <2>1
    <3> QED BY <2>1, <3>1, <3>2, <3>3, UsedGrows
  <2> QED BY <1>2, <1>3, <2>1, <2>2, ReservedStays
<1>10. \A a \in 1..(Size - 1) : \A m \in Miners : Marked(a, m)'
  BY <1>2, <1>4, <1>5, MarksStay
<1>11. /\ sent' \in [Miners -> SUBSET (0..(Size - 1))] /\ \A p \in Miners : sent[p] \subseteq sent'[p]
       /\ netTime' \in [Miners -> Nat] /\ \A m \in Miners \ {s} : netTime'[m] = netTime[m]
  BY <1>2 DEF IInv, Types
<1>12. \A f \in N : /\ (IsSendBlock(f) \/ IsPeerSend(f)) /\ f.timestamp >= e.timestamp
                    /\ f.block = e.block /\ f.sender = e.sender /\ ~ f.first
  BY <1>1, <1>4, <1>5, <1>6
<1>13. Offered(e.block, e.sender)' /\ Reserved(e.sender)'
  BY <1>1, <1>8, <1>9
<1>14. \A m \in Miners \ {e.sender} : netTime'[m] = netTime[m]
  BY <1>2
<1> QED BY <1>2, <1>5, <1>10, <1>11, <1>12, <1>13, <1>14, PeerSendKeeps


\* A reservation that ends within the backlog may be followed by one transfer.
LEMMA WithinBacklog ==
    ASSUME NEW n \in Nat, NEW t \in Nat, NEW c \in Nat, NEW x \in Nat, NEW y \in Nat, n <= t + y
    PROVE  (IF n <= t THEN t ELSE n) + x <= t + y + x * (1 + c)
<1>1. x * (1 + c) = x + x * c
  OBVIOUS
<1>2. x * c \in Nat
  <2>1. \A i, j \in Nat : i * j \in Nat
    OBVIOUS
  <2> QED BY <2>1
<1> DEFINE p == x * c
<1>3. (IF n <= t THEN t ELSE n) + x <= t + y + (x + p)
  <2>1. p \in Nat
    BY <1>2
  <2> HIDE DEF p
  <2> QED BY <2>1
<1> QED BY <1>1, <1>3

\* One that does not is followed by the transfer of an own block.
LEMMA BeyondBacklog ==
    ASSUME NEW n \in Nat, NEW u \in Nat, NEW t \in Nat, u <= t, NEW c \in Nat, NEW d \in Nat, c + 1 <= d,
           NEW x \in Nat, NEW y \in Nat, n > t + y, n <= u + y + x * (1 + c)
    PROVE  (IF n <= t THEN t ELSE n) + x <= t + y + x * (1 + d)
<1>1. n + x <= u + y + x * (1 + (c + 1))
  <2>1. x * (1 + (c + 1)) = x * (1 + c) + x
    OBVIOUS
  <2>2. x * (1 + c) \in Nat
    <3>1. \A i, j \in Nat : i * j \in Nat
      OBVIOUS
    <3> QED BY <3>1
  <2> DEFINE p == x * (1 + c)
  <2>3. n <= u + y + p => n + x <= u + y + (p + x)
    <3>1. p \in Nat
      BY <2>2
    <3> HIDE DEF p
    <3> QED BY <3>1
  <2> QED BY <2>1, <2>3
<1>2. n + x <= t + y + x * (1 + d)
  <2>1. n + x \in Nat /\ c + 1 \in Nat
    OBVIOUS
  <2> QED BY <1>1, <2>1, LinkTimeGrows
<1>3. ~ (n <= t)
  OBVIOUS
<1> QED BY <1>2, <1>3

\* The block goes to the first peer that lacks it, and will be offered to the
\* next.
LEMMA TransferKeeps ==
    ASSUME IInv, NEW e \in Earliest(queue), Pop(e), RunPeerSend(e), Transfer(e), UNCHANGED config
    PROVE  IInv'
<1>1. PICK n, t, b, s, p, end : /\ n = Size /\ t = e.timestamp /\ b = e.block /\ s = e.sender
                                /\ p = peer[s][Min(Wanting(s, b))] /\ end = TransferEnd(s, t)
  OBVIOUS
<1>2. /\ e.type = "PeerSend" /\ e \in queue /\ running /\ timestamp' = t
      /\ blocks' = blocks /\ mined' = mined /\ miners' = miners /\ peer' = peer
      /\ Wanting(s, b) # {} /\ ~ Busy(e)
      /\ netTime' = [netTime EXCEPT ![s] = end] /\ sent' = MarkSent(p, b)
  BY <1>1 DEF Pop, RunPeerSend, Transfer, config, Earliest
<1>3. PICK jitter \in 0..MaxJitter :
        queue' = Enqueue(queue \ {e}, {SendBlock(end + Latency + jitter, b, p),
                                       PeerSend(end + Latency, b, s, FALSE)}, t)
  BY <1>1 DEF Transfer
<1>4. PICK i, o, N : /\ i = SendBlock(end + Latency + jitter, b, p)
                     /\ o = PeerSend(end + Latency, b, s, FALSE) /\ N = {i, o}
  OBVIOUS
<1>5. /\ b \in 0..(n - 1) /\ s \in Miners /\ t \in Nat /\ e.first \in BOOLEAN
      /\ e.first => blocks[b].minerID = s
      /\ e \in Offers(b, s) /\ Offers(b, s) \subseteq {e} /\ b \in Known(s)
  BY <1>1, <1>2, OfferIsOne
<1>6. /\ TransTime \in Nat /\ Latency \in Nat /\ MaxJitter \in Nat /\ MaxBacklog \in Nat /\ jitter \in Nat
  BY PeerAssumption
<1>7. /\ n \in Nat /\ n >= 1 /\ Size' = n
      /\ netTime \in [Miners -> Nat] /\ sent \in [Miners -> SUBSET (0..(n - 1))]
      /\ peer \in [Miners -> Seq(Miners)] /\ timestamp \in Nat /\ timestamp <= t
  <2>1. n \in Nat /\ n >= 1 /\ timestamp \in Nat /\ timestamp <= t
    BY <1>1, <1>2 DEF IInv, Types, Ahead, Blocks
  <2>2. Size' = n
    BY <1>1, <1>2 DEF Size
  <2> QED BY <1>1, <2>1, <2>2 DEF IInv, Types
<1>8. p \in Miners /\ b \notin sent[p]
  <2>1. Wanting(s, b) \in SUBSET Nat /\ Wanting(s, b) \subseteq DOMAIN peer[s]
    BY <1>5, <1>7 DEF Wanting
  <2>2. PICK j \in Wanting(s, b) : \A k \in Wanting(s, b) : j <= k
    BY <1>2, <2>1, MinExists
  <2>3. Min(Wanting(s, b)) = j
    <3>1. \A k \in Wanting(s, b) : (\A l \in Wanting(s, b) : k <= l) => k = j
      BY <2>1, <2>2
    <3> QED BY <2>2, <3>1 DEF Min
  <2>4. peer[s][j] \in Miners /\ b \notin sent[peer[s][j]]
    BY <1>5, <1>7, <2>1 DEF Wanting
  <2> QED BY <1>1, <2>3, <2>4
<1>9. end \in Nat /\ end >= t /\ end = (IF netTime[s] <= t THEN t ELSE netTime[s]) + TransTime
  <2>1. netTime[s] \in Nat
    BY <1>5, <1>7
  <2>2. end = (IF netTime[s] <= t THEN t ELSE netTime[s]) + TransTime
    BY <1>1 DEF TransferEnd
  <2> QED BY <1>5, <1>6, <2>1, <2>2
<1>10. /\ netTime' \in [Miners -> Nat] /\ netTime'[s] = end
       /\ \A m \in Miners \ {s} : netTime'[m] = netTime[m]
  BY <1>2, <1>5, <1>7, <1>9
<1>11. /\ sent' \in [Miners -> SUBSET (0..(n - 1))] /\ sent'[p] = sent[p] \cup {b}
       /\ \A m \in Miners \ {p} : sent'[m] = sent[m]
  BY <1>2, <1>5, <1>7, <1>8 DEF MarkSent
<1>12. /\ i.type = "SendBlock" /\ i.timestamp = end + Latency + jitter /\ i.block = b /\ i.receiver = p
       /\ o.type = "PeerSend" /\ o.timestamp = end + Latency /\ o.block = b /\ o.sender = s
       /\ o.first = FALSE
  BY <1>4 DEF SendBlock, PeerSend
<1>13. i.timestamp \in Nat /\ i.timestamp >= t /\ o.timestamp \in Nat /\ o.timestamp >= t
  <2>1. end + Latency + jitter \in Nat /\ end + Latency + jitter >= t /\ end + Latency \in Nat /\ end + Latency >= t
    BY <1>5, <1>6, <1>9
  <2> QED BY <1>12, <2>1
<1>14. /\ Moves(e, N) /\ queue' = (queue \ {e}) \cup N /\ i \in N /\ o \in N
       /\ \A f \in N : f = i \/ f = o
  BY <1>3, <1>4, <1>13 DEF Moves, Enqueue
<1>15. IsSendBlock(i) /\ IsPeerSend(o)
  <2>1. i = SendBlock(i.timestamp, i.block, i.receiver)
    BY <1>4, <1>12
  <2>2. o = PeerSend(o.timestamp, o.block, o.sender, o.first)
    BY <1>4, <1>12
  <2>3. IsSendBlock(i)
    BY <1>1, <1>5, <1>8, <1>12, <1>13, <2>1 DEF IsSendBlock
  <2> QED BY <1>1, <1>5, <1>12, <1>13, <2>2, <2>3 DEF IsPeerSend
<1>16. Offers(b, s)' = {o} /\ o \in queue'
  <2>1. IsOffer(o, b, s) /\ \A f \in N : IsOffer(f, b, s) => f = o
    BY <1>12, <1>14 DEF IsOffer
  <2> QED BY <1>5, <1>14, <2>1, OffersAre
<1>17. Offered(b, s)'
  <2>1. Known(s)' = Known(s)
    BY <1>2 DEF Known
  <2> QED BY <1>5, <1>16, <2>1 DEF Offered
<1>18. Used(s) \subseteq Used(s)'
  <2>1. queue' \subseteq queue \cup N
    BY <1>14
  <2>2. \A f \in N : IsOffer(f, f.block, s) => ~ f.first \/ f.block \notin 0..(Size - 1)
    BY <1>12, <1>14 DEF IsOffer
  <2>3. Size \in Nat /\ Size' \in Nat /\ Size <= Size' /\ \A a \in 0..(Size - 1) : blocks'[a].minerID = blocks[a].minerID
    BY <1>1, <1>2, <1>7
  <2> QED BY <2>1, <2>2, <2>3, UsedGrows
<1>19. /\ IsFiniteSet(Used(s)) /\ Cardinality(Used(s)) \in Nat
       /\ IsFiniteSet(Used(s)') /\ Cardinality(Used(s)') \in Nat
  BY <1>1, <1>7, UsedIsFinite
<1>20. Reserved(s)'
  <2>1. netTime[s] \in Nat /\ netTime[s] <= timestamp + MaxBacklog + TransTime * (1 + Cardinality(Used(s)))
    BY <1>2, <1>5, <1>7 DEF IInv, Reserved
  <2>2. PICK c, d : c = Cardinality(Used(s)) /\ d = Cardinality(Used(s)')
    OBVIOUS
  <2>3. c \in Nat /\ d \in Nat /\ netTime[s] <= timestamp + MaxBacklog + TransTime * (1 + c)
    BY <1>19, <2>1, <2>2
  <2>4. netTime[s] - t > MaxBacklog => e.first
    BY <1>1, <1>2 DEF Busy
  <2>5. end <= t + MaxBacklog + TransTime * (1 + d)
    <3>1. CASE netTime[s] <= t + MaxBacklog
      BY <1>5, <1>6, <1>9, <2>1, <2>3, <3>1, WithinBacklog
    <3>2. CASE netTime[s] > t + MaxBacklog
      <4>1. e.first
        BY <1>5, <1>6, <2>1, <2>4, <3>2
      <4>2. b \notin Used(s)
        BY <1>5, <4>1 DEF Used
      <4>3. b \in Used(s)'
        <5>1. \A f \in Offers(b, s)' : ~ f.first
          BY <1>12, <1>16
        <5>2. b \in 0..(Size' - 1) /\ blocks'[b].minerID = s
          BY <1>2, <1>5, <1>7, <4>1
        <5>3. \A x : x \in Used(s)' <=> x \in 0..(Size' - 1) /\ blocks'[x].minerID = s /\ \A f \in Offers(x, s)' : ~ f.first
          BY DEF Used
        <5> QED BY <5>1, <5>2, <5>3
      <4>4. c + 1 <= d
        <5>1. IsFiniteSet(Used(s) \cup {b}) /\ Cardinality(Used(s) \cup {b}) = c + 1
          BY <1>19, <2>2, <4>2, FS_AddElement
        <5>2. Used(s) \cup {b} \subseteq Used(s)'
          BY <1>18, <4>3
        <5> QED BY <1>19, <2>2, <5>1, <5>2, FS_Subset
      <4> QED BY <1>5, <1>6, <1>7, <1>9, <2>1, <2>3, <3>2, <4>4, BeyondBacklog
    <3> QED BY <1>5, <1>6, <2>1, <3>1, <3>2
  <2> QED BY <1>2, <1>10, <2>2, <2>5 DEF Reserved
<1>21. ASSUME NEW a \in 1..(n - 1), NEW m \in Miners PROVE Marked(a, m)'
  <2>1. Marked(a, m)
    BY <1>1, <1>2 DEF IInv
  <2>2. Known(m)' = Known(m) /\ Has(m)' = Has(m)
    BY <1>2 DEF Known, Has
  <2>3. ~ IsComing(e, a, m)
    BY <1>2 DEF IsComing
  <2>4. CASE a = b /\ m = p
    <3>1. Coming(b, p) = {} /\ (b \in Has(p) => blocks[b].minerID = p) /\ (blocks[b].minerID = p => b \in Known(p))
      BY <1>8, <2>1, <2>4 DEF Marked
    <3>2. IsComing(i, b, p) /\ \A f \in N : IsComing(f, b, p) => f = i
      BY <1>12, <1>14 DEF IsComing
    <3>3. Coming(b, p) \subseteq {e}
      BY <3>1
    <3>4. Coming(b, p)' = {i} /\ i \in queue'
      BY <1>14, <3>2, <3>3, ComingIs
    <3>5. b \in sent'[p]
      BY <1>11
    <3> QED BY <1>2, <2>2, <2>4, <3>1, <3>4, <3>5 DEF Marked
  <2>5. CASE ~ (a = b /\ m = p)
    <3>1. \A f \in N : ~ IsComing(f, a, m)
      BY <1>12, <1>14, <2>5 DEF IsComing
    <3>2. Coming(a, m)' = Coming(a, m)
      BY <1>14, <2>3, <3>1, ComingStays
    <3>3. a \in sent'[m] <=> a \in sent[m]
      BY <1>11, <2>5
    <3> QED BY <1>2, <2>1, <2>2, <3>2, <3>3, MarkedStays
  <2> QED BY <2>4, <2>5
<1>22. \A f \in N : /\ IsSendBlock(f) \/ IsPeerSend(f)
                    /\ f.timestamp >= e.timestamp
                    /\ f.type = "PeerSend" => f.block = e.block /\ f.sender = e.sender /\ ~ f.first
  BY <1>1, <1>12, <1>13, <1>14, <1>15
<1>23. Offered(e.block, e.sender)' /\ Reserved(e.sender)'
  BY <1>1, <1>17, <1>20
<1>24. /\ \A m \in Miners \ {e.sender} : netTime'[m] = netTime[m]
       /\ \A m \in Miners : sent[m] \subseteq sent'[m]
  BY <1>1, <1>10, <1>11
<1>25. /\ sent' \in [Miners -> SUBSET (0..(Size - 1))]
       /\ \A a \in 1..(Size - 1) : \A m \in Miners : Marked(a, m)'
  BY <1>1, <1>11, <1>21
<1> QED BY <1>2, <1>10, <1>14, <1>22, <1>23, <1>24, <1>25, PeerSendKeeps


-----------------------------------------------------------------------------
(***************************************************************************)
(* The invariant.                                                          *)
(***************************************************************************)
\* The last event, past the duration, ends the run.
LEMMA StopKeeps ==
    ASSUME IInv, NEW e \in queue, timestamp' = e.timestamp, queue' = queue \ {e}, running' = FALSE,
           blocks' = blocks, mined' = mined, miners' = miners, attackers' = attackers, peer' = peer,
           sent' = sent, netTime' = netTime
    PROVE  IInv'
<1>1. Size' = Size
  BY DEF Size
<1>2. e.timestamp \in Nat
  BY EventKinds DEF IInv, Events
<1>3. Types' /\ Blocks'
  BY <1>1, <1>2 DEF IInv, Types, Blocks
<1>4. ASSUME NEW f PROVE /\ IsGenBlock(f) => IsGenBlock(f)'
                         /\ IsBroadcast(f) => IsBroadcast(f)'
                         /\ IsSendBlock(f) => IsSendBlock(f)'
                         /\ IsPeerSend(f) => IsPeerSend(f)'
  BY <1>1 DEF IsGenBlock, IsBroadcast, IsSendBlock, IsPeerSend
<1>5. Events'
  <2>1. \A f \in queue' : (IsGenBlock(f) \/ IsBroadcast(f) \/ IsSendBlock(f) \/ IsPeerSend(f))'
    BY <1>4 DEF IInv, Events
  <2>2. \A f, h \in queue' : f.type = "GenBlock" /\ h.type = "GenBlock" => f = h
    BY DEF IInv, Events
  <2> QED BY <2>1, <2>2 DEF Events
<1>6. \A m \in Miners : Miner(m)'
  BY MinersKeep
<1> QED BY <1>3, <1>5, <1>6 DEF IInv

\* The conjunction is inductive.
THEOREM Inductive == Spec => []IInv
<1>1. Init => IInv
  BY Initially
<1>2. IInv /\ [Next]_vars => IInv'
  <2> SUFFICES ASSUME IInv, [Next]_vars PROVE IInv'
    OBVIOUS
  <2>1. ASSUME NEW e \in queue, Pop(e), RunGenBlock(e), UNCHANGED config PROVE IInv'
    <3>1. e \in Earliest(queue)
      BY <2>1 DEF Pop
    <3> QED BY <2>1, <3>1, GenBlockKeeps
  <2>2. ASSUME NEW e \in queue, Pop(e), RunSendBlock(e), UNCHANGED config PROVE IInv'
    <3>1. e \in Earliest(queue)
      BY <2>2 DEF Pop
    <3> QED BY <2>2, <3>1, SendBlockKeeps
  <2>3. ASSUME NEW e \in queue, Pop(e), RunBroadcastEvent(e), UNCHANGED config PROVE IInv'
    <3>1. e \in Earliest(queue)
      BY <2>3 DEF Pop
    <3> QED BY <2>3, <3>1, BroadcastKeeps
  <2>4. ASSUME NEW e \in queue, Pop(e), RunPeerSend(e), UNCHANGED config PROVE IInv'
    <3>1. e \in Earliest(queue)
      BY <2>4 DEF Pop
    <3>2. CASE AllHave(e)
      BY <2>4, <3>1, <3>2, AllHaveKeeps
    <3>3. CASE PutOff(e)
      BY <2>4, <3>1, <3>3, PutOffKeeps
    <3>4. CASE Transfer(e)
      BY <2>4, <3>1, <3>4, TransferKeeps
    <3> QED BY <2>4, <3>2, <3>3, <3>4 DEF RunPeerSend
  <2>5. CASE Stop /\ UNCHANGED <<miners, config, netVars>>
    <3>1. PICK e \in Earliest(queue) : timestamp' = e.timestamp /\ queue' = queue \ {e}
      BY <2>5 DEF Stop
    <3>2. /\ e \in queue /\ running' = FALSE /\ UNCHANGED <<blocks, mined, miners>>
          /\ attackers' = attackers /\ peer' = peer /\ sent' = sent /\ netTime' = netTime
      BY <2>5 DEF Stop, Earliest, config, netVars
    <3> QED BY <3>1, <3>2, StopKeeps
  <2>6. CASE UNCHANGED vars
    <3>1. /\ timestamp' = timestamp /\ queue' = queue /\ running' = running
          /\ blocks' = blocks /\ mined' = mined /\ miners' = miners
          /\ attackers' = attackers /\ peer' = peer /\ sent' = sent /\ netTime' = netTime
      BY <2>6 DEF vars, oracleVars, config, netVars
    <3>2. Size' = Size
      BY <3>1 DEF Size
    <3>3. \A m : Known(m)' = Known(m) /\ Has(m)' = Has(m)
      BY <3>1 DEF Known, Has
    <3>4. /\ Types' <=> Types
          /\ Blocks' <=> Blocks
          /\ \A m : Miner(m)' <=> Miner(m)
      BY <3>1, <3>2 DEF Types, Blocks, Miner
    <3>5. \A e : /\ IsGenBlock(e)' <=> IsGenBlock(e)
                 /\ IsBroadcast(e)' <=> IsBroadcast(e)
                 /\ IsSendBlock(e)' <=> IsSendBlock(e)
                 /\ IsPeerSend(e)' <=> IsPeerSend(e)
      BY <3>1, <3>2 DEF IsGenBlock, IsBroadcast, IsSendBlock, IsPeerSend
    <3>6. Events' <=> Events
      BY <3>1, <3>5 DEF Events
    <3>7. \A b, m : Coming(b, m)' = Coming(b, m) /\ Offers(b, m)' = Offers(b, m) /\ Wanting(m, b)' = Wanting(m, b)
      BY <3>1 DEF Coming, Offers, Wanting
    <3>8. \A m : GenesisComes(m)' <=> GenesisComes(m)
      BY <3>1, <3>3 DEF GenesisComes
    <3>9. \A b, m : Marked(b, m)' <=> Marked(b, m)
      BY <3>1, <3>3, <3>7 DEF Marked
    <3>10. \A b, m : Offered(b, m)' <=> Offered(b, m)
      BY <3>1, <3>3, <3>7 DEF Offered
    <3>11. \A m : Used(m)' = Used(m)
      BY <3>1, <3>2, <3>7 DEF Used
    <3>12. \A m : Reserved(m)' <=> Reserved(m)
      BY <3>1, <3>11 DEF Reserved
    <3>13. Ahead' <=> Ahead
      BY <3>1 DEF Ahead
    <3> QED BY <3>1, <3>2, <3>4, <3>6, <3>8, <3>9, <3>10, <3>12, <3>13 DEF IInv
  <2> QED BY <2>1, <2>2, <2>3, <2>4, <2>5, <2>6 DEF Next, Step, Terminated
<1> QED BY <1>1, <1>2, PTL DEF Spec

-----------------------------------------------------------------------------
(***************************************************************************)
(* What it implies.                                                        *)
(***************************************************************************)
\* A block is marked as sent to a miner exactly if it is on its way there,
\* once, or has come: no miner is sent it twice and none is marked in vain.
THEOREM SentIsExact == Spec => []SentExact
<1>1. ASSUME IInv PROVE SentExact
  <2> SUFFICES ASSUME running, NEW b \in Generated \ {0}, NEW m \in Miners
               PROVE  LET copies == Cardinality(Coming(b, m)) + (IF b \in Has(m) THEN 1 ELSE 0)
                      IN  IF b \in sent[m] THEN copies = 1 \/ (blocks[b].minerID = m /\ copies = 2)
                          ELSE copies = (IF blocks[b].minerID = m THEN 1 ELSE 0)
    BY DEF SentExact
  <2>1. b \in 1..(Size - 1)
    <3>1. Generated = 0..(Size - 1) /\ Size \in Nat
      BY <1>1, LinkedIs, TableFacts DEF Generated, IInv, Blocks
    <3> QED BY <3>1
  <2>2. Marked(b, m)
    BY <1>1, <2>1 DEF IInv
  <2>3. Known(m) \subseteq Has(m)
    BY DEF Known, Has
  <2>4. Cardinality({}) = 0 /\ \A e : Cardinality({e}) = 1
    BY FS_EmptySet, FS_Singleton
  <2>5. CASE b \in sent[m]
    <3>1. CASE b \in Has(m) /\ Coming(b, m) = {}
      BY <2>4, <2>5, <3>1
    <3>2. CASE (b \notin Has(m) \/ blocks[b].minerID = m) /\ \E e \in queue : Coming(b, m) = {e}
      <4>1. Cardinality(Coming(b, m)) = 1
        BY <2>4, <3>2
      <4> QED BY <2>5, <3>2, <4>1
    <3> QED BY <2>2, <2>5, <3>1, <3>2 DEF Marked
  <2>6. CASE b \notin sent[m]
    BY <2>2, <2>3, <2>4, <2>6 DEF Marked
  <2> QED BY <2>5, <2>6
<1> QED BY <1>1, Inductive, PTL

\* As long as a peer lacks a block, a miner that has it in its graph has one
\* event pending that will offer it, however often the link was busy.
THEOREM IsStillOffered == Spec => []StillOffered
<1>1. ASSUME IInv PROVE StillOffered
  <2> SUFFICES ASSUME running, NEW m \in Miners, NEW b \in miners[m].graph.ledger
               PROVE  /\ Cardinality(Offers(b, m)) <= 1
                      /\ Wanting(m, b) # {} => Offers(b, m) # {}
    BY DEF StillOffered
  <2>1. GraphOK(blocks, Size, miners[m].graph)
    BY <1>1 DEF IInv, Miner, MinerOK
  <2>2. b \in 0..(Size - 1) /\ b \in Known(m)
    BY <2>1 DEF GraphOK, Known
  <2>3. Offered(b, m)
    BY <1>1, <2>2 DEF IInv
  <2>4. Cardinality({}) = 0 /\ \A e : Cardinality({e}) = 1
    BY FS_EmptySet, FS_Singleton
  <2>5. Cardinality(Offers(b, m)) <= 1
    <3>1. Cardinality(Offers(b, m)) = 0 \/ Cardinality(Offers(b, m)) = 1
      BY <2>3, <2>4 DEF Offered
    <3> QED BY <3>1
  <2> QED BY <2>2, <2>3, <2>5 DEF Offered
<1> QED BY <1>1, Inductive, PTL

\* The link of a miner is reserved at most one transfer beyond the backlog,
\* and one more for each block it generated.
THEOREM BacklogIsBounded == Spec => []BacklogBounded
<1>1. ASSUME IInv PROVE BacklogBounded
  <2> SUFFICES ASSUME running, NEW m \in Miners
               PROVE  LET own == {b \in Generated : blocks[b].minerID = m}
                      IN  netTime[m] <= timestamp + MaxBacklog + TransTime * (1 + Cardinality(own))
    BY DEF BacklogBounded
  <2> DEFINE own == {b \in Generated : blocks[b].minerID = m}
  <2>1. Generated = 0..(Size - 1) /\ Size \in Nat
    BY <1>1, LinkedIs, TableFacts DEF Generated, IInv, Blocks
  <2>2. IsFiniteSet(0..(Size - 1))
    <3>1. Size - 1 \in Int
      BY <2>1
    <3> QED BY <3>1, FS_Interval
  <2>3. Used(m) \subseteq own /\ own \subseteq 0..(Size - 1)
    BY <2>1 DEF Used
  <2> HIDE DEF own
  <2>4. PICK c, d : c = Cardinality(Used(m)) /\ d = Cardinality(own)
    OBVIOUS
  <2>5. c \in Nat /\ d \in Nat /\ c <= d
    <3>1. IsFiniteSet(own)
      BY <2>2, <2>3, FS_Subset
    <3> QED BY <2>3, <2>4, <3>1, FS_Subset, FS_CardinalityType
  <2>6. /\ netTime[m] \in Nat /\ timestamp \in Nat /\ MaxBacklog \in Nat /\ TransTime \in Nat
        /\ timestamp <= timestamp
        /\ netTime[m] <= timestamp + MaxBacklog + TransTime * (1 + c)
    BY <1>1, <2>4, PeerAssumption DEF IInv, Types, Reserved
  <2>7. netTime[m] <= timestamp + MaxBacklog + TransTime * (1 + d)
    BY <2>5, <2>6, LinkTimeGrows
  <2> QED BY <2>4, <2>7 DEF own
<1> QED BY <1>1, Inductive, PTL
=============================================================================
