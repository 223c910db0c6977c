----------------------------- MODULE PeerNetwork -----------------------------
(***************************************************************************)
(* PeerNetwork (net_peer.go) with the oracle and its miners.  A miner that *)
(* has a block in its graph sends it to its peers one after the other, to  *)
(* each unless it has been sent to that peer already.  Each transfer takes *)
(* TransTime of the sender's link; a block of others is put off while the  *)
(* link is reserved for more than MaxBacklog ahead.                        *)
(*                                                                         *)
(* Miners are numbers, as in the code: Setup compares them.  Times are in  *)
(* slots, and exact.                                                       *)
(***************************************************************************)
EXTENDS HonestMiner, Oracle

CONSTANTS NumPeers,    \* peers_
          TransTime,   \* blockSize * 8 / bandwidth
          Latency,     \* globalLatency
          MaxJitter,   \* the greatest value of rand.Intn(1000)
          MaxBacklog,  \* 5 seconds
          RetryTime,   \* 0.1 seconds
          AttackerIn, AttackerOut

ASSUME PeerAssumption ==
    /\ IsFiniteSet(Miners) /\ Miners = 0..(Cardinality(Miners) - 1) /\ 0 \in Miners
    /\ {NumPeers, MaxJitter, MaxBacklog, AttackerIn, AttackerOut} \subseteq Nat
    /\ {TransTime, Latency, RetryTime} \subseteq Nat \ {0}

VARIABLES miners,    \* o.miners: the graph and the cache of each
          attackers, \* pn.attacker
          peer,      \* pn.peer
          sent,      \* pn.sent: the blocks that were sent to each miner
          netTime    \* pn.NET_TIME: when the link of each miner is free

config == <<attackers, peer>>
netVars == <<sent, netTime>>
vars == <<oracleVars, miners, config, netVars>>

PeerSend(t, b, s, first) ==
    [type |-> "PeerSend", timestamp |-> t, block |-> b, sender |-> s, first |-> first]

-----------------------------------------------------------------------------
(***************************************************************************)
(* Setup: one miner after the other draws peers, itself perhaps, until it  *)
(* has NumPeers, and puts them in any order; those with a greater number   *)
(* get it as a peer in turn.                                               *)
(***************************************************************************)
Drawn(links, i) == kSubset(NumPeers - Len(links[i]), Miners \ ToSet(links[i]))

Connect(links, i, list) ==
    [m \in Miners |-> IF m = i THEN list
                      ELSE IF m > i /\ m \in ToSet(list) THEN Append(links[m], i)
                      ELSE links[m]]

Connections(links, i) ==
    IF NumPeers <= Len(links[i])
    THEN {Connect(links, i, list) : list \in SetToSeqs(ToSet(links[i]))}
    ELSE UNION {{Connect(links, i, list) : list \in SetToSeqs(ToSet(links[i]) \cup new)} :
                   new \in Drawn(links, i)}

Setup == LET links[n \in Nat] ==
                 IF n = 0 THEN {[m \in Miners |-> <<>>]}
                 ELSE UNION {Connections(l, n - 1) : l \in links[n - 1]}
         IN  links[Cardinality(Miners)]

-----------------------------------------------------------------------------
\* expressBroadcast and expressRelay: the receivers, and the delay of each.
Expressed(m) == attackers \cup (IF m \in attackers THEN Miners \ {m} ELSE {})

ExpressEvents(t, m, b) ==
    {SendBlock(t + AttackerIn, b, a) : a \in attackers}
        \cup (IF m \in attackers THEN {SendBlock(t + AttackerOut, b, n) : n \in Miners \ {m}}
              ELSE {})

\* What Broadcast leaves in sent.  A mutant: the express events are forgotten.
BroadcastSentNot(S, m, b) == S

BroadcastSent(S, m, b) ==
    [n \in Miners |-> S[n] \cup (IF n \in Expressed(m) THEN {b} ELSE {})]

NetworkBroadcast(t, m, b) == ExpressEvents(t, m, b) \cup {PeerSend(t, b, m, TRUE)}
NetworkRelay(t, m, b) == {PeerSend(t, b, m, FALSE)}

\* The peers block b was not sent to, by their positions.
Wanting(s, b) == {i \in DOMAIN peer[s] : b \notin sent[peer[s][i]]}

\* The link of the sender of e is reserved for too long to add a block.  A
\* mutant: every offer has priority.
BusyNever(e) == FALSE

Busy(e) == netTime[e.sender] - e.timestamp > MaxBacklog /\ ~e.first

\* When the next transfer from s ends.
TransferEnd(s, t) == (IF netTime[s] <= t THEN t ELSE netTime[s]) + TransTime

\* What the event leaves behind when the link is busy: another try.  A
\* mutant: none.
RetryNever(e) == {}

Retry(e) == {PeerSend(e.timestamp + RetryTime, e.block, e.sender, FALSE)}

\* A transfer to p is marked when it starts.
MarkSent(p, b) == [sent EXCEPT ![p] = @ \cup {b}]

-----------------------------------------------------------------------------
\* NewPeerNetwork and Setup; Oracle.prepare.
Init == /\ OracleInit
        /\ miners = [m \in Miners |-> NewHonestMiner]
        /\ attackers \in {{}, {0}}
        /\ peer \in Setup
        /\ sent = [m \in Miners |-> {}]
        /\ netTime = [m \in Miners |-> 0]

\* GenBlockEvent.Run with Broadcast.
RunGenBlock(e) ==
    /\ e.type = "GenBlock"
    /\ LET m      == blocks[e.block].minerID
           filled == FillNewBlock(blocks, miners[m].graph, e.block)
       IN  /\ miners' = [miners EXCEPT ![m] = GenerateBlock(filled, @, e.block)]
           /\ sent' = BroadcastSent(sent, m, e.block)
           /\ \E n \in Miners, r \in 0..MaxResidual, stamp \in NextStamps(e.timestamp, mined) :
                LET next == Mine(filled, e.timestamp, mined, n, r, stamp)
                IN  /\ blocks' = next.blocks
                    /\ queue' = Enqueue(queue \ {e},
                                        NetworkBroadcast(e.timestamp, m, e.block) \cup {next.event},
                                        e.timestamp)
    /\ mined' = mined + 1
    /\ UNCHANGED netTime

\* SendBlockEvent.Run with Relay of every block that enters the graph.
RunSendBlock(e) ==
    /\ e.type = "SendBlock"
    /\ LET m == e.receiver
           r == ReceiveBlock(blocks, miners[m], e.block)
       IN  /\ miners' = [miners EXCEPT ![m] = [graph |-> r.graph, cache |-> r.cache]]
           /\ queue' = Enqueue(queue \ {e},
                               UNION {NetworkRelay(e.timestamp, m, b) : b \in ToSet(r.relays)},
                               e.timestamp)
    /\ UNCHANGED <<blocks, mined, netVars>>

\* BroadcastEvent.Run for genesis: the oracle sends it to everybody at once.
RunBroadcastEvent(e) ==
    /\ e.type = "Broadcast"
    /\ queue' = Enqueue(queue \ {e}, {SendBlock(e.timestamp, e.block, m) : m \in Miners},
                        e.timestamp)
    /\ UNCHANGED <<blocks, mined, miners, netVars>>

\* PeerSendEvent.Run: sendBlockToBestPeer, in its three cases.
AllHave(e) ==
    /\ Wanting(e.sender, e.block) = {}
    /\ queue' = queue \ {e}
    /\ UNCHANGED netVars

PutOff(e) ==
    /\ Wanting(e.sender, e.block) # {}
    /\ Busy(e)
    /\ queue' = Enqueue(queue \ {e}, Retry(e), e.timestamp)
    /\ UNCHANGED netVars

Transfer(e) ==
    /\ Wanting(e.sender, e.block) # {}
    /\ ~Busy(e)
    /\ LET p   == peer[e.sender][Min(Wanting(e.sender, e.block))]
           end == TransferEnd(e.sender, e.timestamp)
       IN  /\ netTime' = [netTime EXCEPT ![e.sender] = end]
           /\ sent' = MarkSent(p, e.block)
           /\ \E jitter \in 0..MaxJitter :
                queue' = Enqueue(queue \ {e},
                                 {SendBlock(end + Latency + jitter, e.block, p),
                                  PeerSend(end + Latency, e.block, e.sender, FALSE)},
                                 e.timestamp)

RunPeerSend(e) ==
    /\ e.type = "PeerSend"
    /\ AllHave(e) \/ PutOff(e) \/ Transfer(e)
    /\ UNCHANGED <<blocks, mined, miners>>

Step == \E e \in queue : Pop(e) /\ (\/ RunGenBlock(e) \/ RunSendBlock(e)
                                    \/ RunBroadcastEvent(e) \/ RunPeerSend(e))

Terminated == ~running /\ UNCHANGED vars

Next == \/ Step /\ UNCHANGED config
        \/ Stop /\ UNCHANGED <<miners, config, netVars>>
        \/ Terminated

\* The loop of Oracle.run, as in Simulation.tla.
Progress == []<>(~running) \/ []<><<TRUE>>_vars

Spec == Init /\ [][Next]_vars /\ Progress

-----------------------------------------------------------------------------
Generated == Linked(blocks)

Has(m) == miners[m].graph.ledger \cup ToSet(miners[m].cache)

Coming(b, m) == {e \in queue : e.type = "SendBlock" /\ e.block = b /\ e.receiver = m}

Offers(b, m) == {e \in queue : e.type = "PeerSend" /\ e.block = b /\ e.sender = m}

\* A block is marked as sent to a miner exactly if it is on its way there,
\* once, or has come; its miner has it anyway.  Whatever peers compete to
\* send it, no miner is sent it twice and none is marked in vain.
SentExact == running => \A b \in Generated \ {Genesis}, m \in Miners :
    LET copies == Cardinality(Coming(b, m)) + (IF b \in Has(m) THEN 1 ELSE 0) IN
    IF b \in sent[m] THEN copies = 1 \/ (blocks[b].minerID = m /\ copies = 2)
    ELSE copies = (IF blocks[b].minerID = m THEN 1 ELSE 0)

\* As long as a peer lacks a block, a miner that has it in its graph has one
\* event pending that will offer it, however often the link was busy.
StillOffered == running => \A m \in Miners : \A b \in miners[m].graph.ledger :
    /\ Cardinality(Offers(b, m)) <= 1
    /\ Wanting(m, b) # {} => Offers(b, m) # {}

\* The link of a miner is reserved at most one transfer beyond the backlog,
\* and one more for each block it generated: only those are not put off.
BacklogBounded == running => \A m \in Miners :
    LET own == {b \in Generated : blocks[b].minerID = m}
    IN  netTime[m] <= timestamp + MaxBacklog + TransTime * (1 + Cardinality(own))

\* The miners a block can get to from m along the lists of peers.
Reachable(m) == {n \in Miners : \A S \in SUBSET Miners :
                     m \in S /\ UNION {ToSet(peer[k]) : k \in S} \subseteq S => n \in S}

\* A block gets into the graph of every miner that can be reached from the
\* one that generated it, if the duration leaves time for it.  (A miner that
\* nobody has as a peer is reached by nothing but express events.)
EventuallyReached == \A b \in BlockIds \ {Genesis} :
    (b \in Generated) ~>
        (\A m \in Reachable(blocks[b].minerID) : b \in miners[m].graph.ledger)
=============================================================================
