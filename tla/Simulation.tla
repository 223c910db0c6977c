----------------------------- MODULE Simulation -----------------------------
(***************************************************************************)
(* The oracle, its miners and SimpleNetwork.  One step is one iteration of *)
(* Oracle.run: the earliest event runs to its end and what it returns is   *)
(* queued.  All miners are HonestMiner, the one in Attackers too, as in    *)
(* run() of main.go; being the attacker means having the shorter delays.   *)
(***************************************************************************)
EXTENDS HonestMiner, SimpleNetwork

VARIABLE miners  \* o.miners: the graph and the cache of each

vars == <<oracleVars, miners>>

Init == /\ OracleInit
        /\ miners = [m \in Miners |-> NewHonestMiner]

\* GenBlockEvent.Run: the miner fills and inserts the block, broadcasts it,
\* and the oracle mines the next one.
RunGenBlock(e) ==
    /\ e.type = "GenBlock"
    /\ LET m      == blocks[e.block].minerID
           filled == FillNewBlock(blocks, miners[m].graph, e.block)
       IN  /\ miners' = [miners EXCEPT ![m] = GenerateBlock(filled, @, e.block)]
           /\ \E n \in Miners, r \in 0..MaxResidual, stamp \in NextStamps(e.timestamp, mined) :
                LET next == Mine(filled, e.timestamp, mined, n, r, stamp)
                IN  /\ blocks' = next.blocks
                    /\ queue' = Enqueue(queue \ {e},
                                        NetworkBroadcast(e.timestamp, e.block) \cup {next.event},
                                        e.timestamp)
    /\ mined' = mined + 1

\* SendBlockEvent.Run: ReceiveBlock of the receiver, with its relays.
RunSendBlock(e) ==
    /\ e.type = "SendBlock"
    /\ LET r == ReceiveBlock(blocks, miners[e.receiver], e.block)
       IN  /\ miners' = [miners EXCEPT ![e.receiver] = [graph |-> r.graph, cache |-> r.cache]]
           /\ queue' = Enqueue(queue \ {e},
                               UNION {NetworkRelay(e.timestamp, b) : b \in ToSet(r.relays)},
                               e.timestamp)
    /\ UNCHANGED <<blocks, mined>>

RunBroadcastEvent(e) ==
    /\ e.type = "Broadcast"
    /\ queue' = Enqueue(queue \ {e}, RunBroadcast(blocks, e.timestamp, e.block), e.timestamp)
    /\ UNCHANGED <<blocks, mined, miners>>

Step == \E e \in queue : Pop(e) /\ (RunGenBlock(e) \/ RunSendBlock(e) \/ RunBroadcastEvent(e))

Terminated == ~running /\ UNCHANGED vars

Next == Step \/ (Stop /\ UNCHANGED miners) \/ Terminated

\* Oracle.run is a loop in a single goroutine: until it leaves the loop it
\* pops another event.  This is WF_vars(Next), whose ENABLED is `running',
\* written so that TLC need not evaluate ENABLED.
Progress == []<>(~running) \/ []<><<TRUE>>_vars

Spec == Init /\ [][Next]_vars /\ Progress

-----------------------------------------------------------------------------
Generated == Linked(blocks)

\* The ways block b is still on its way to miner m.
InFlight(b, m) == {e \in queue : e.block = b /\ \/ e.type = "Broadcast"
                                                \/ e.type = "SendBlock" /\ e.receiver = m}

\* "Miners can always seen the genesis block, so block.parent can't be
\* empty" (miner_honest.go:26): whoever generates next has a pivot tip,
\* whatever order events of one timestamp run in.
GenesisFirst == \A e \in Earliest(queue) :
    e.type = "GenBlock" /\ running => miners[blocks[e.block].minerID].graph.pivotTip # None

\* Every generated block is, for every miner, in exactly one place: on its
\* way once, in the graph, or in the cache once, and there only while an
\* ancestor of it is on its way.  No event is dropped, duplicated or answered
\* twice, and no block is left behind once its ancestors have come.
NoBlockLost == running => \A b \in Generated, m \in Miners :
    LET known  == miners[m].graph.ledger
        cached == {i \in DOMAIN miners[m].cache : miners[m].cache[i] = b}
    IN  \/ /\ b \in known /\ cached = {}
           /\ blocks[b].minerID # m => InFlight(b, m) = {}
        \/ b \notin known /\ cached = {} /\ Cardinality(InFlight(b, m)) = 1
        \/ /\ b \notin known /\ Cardinality(cached) = 1 /\ InFlight(b, m) = {}
           /\ \E a \in blocks[b].past \ known : InFlight(a, m) # {}

\* The edges of a block are a function of its past: it extends the heaviest
\* subtree of all it knew, refers to every other tip, and ancestorNum
\* counts its ancestors.
EdgesFollowPast == \A b \in Generated \ {Genesis} :
    LET past == blocks[b].past IN
    /\ blocks[b].parent = GhostTip(blocks, past)
    /\ blocks[b].references = TipsOf(blocks, past) \ {blocks[b].parent}
    /\ blocks[b].ancestorNum = Cardinality(past)

\* Two miners that know the same blocks have the same graph, down to the
\* stored weights, in whatever order the blocks reached them.
SameBlocksSameGraph == \A m, n \in Miners :
    miners[m].graph.ledger = miners[n].graph.ledger => miners[m].graph = miners[n].graph

\* Every block generated reaches every graph, if the duration leaves time
\* for its delivery.
EventuallyEverywhere == \A b \in BlockIds :
    (b \in Generated) ~> (\A m \in Miners : b \in miners[m].graph.ledger)
=============================================================================
