------------------------------ MODULE OpenMiner ------------------------------
(***************************************************************************)
(* One HonestMiner under the oracle README.md describes ("Implement an     *)
(* attack strategy"): blocks may come in any order, a child before its     *)
(* parent, and more than once.  The networks of this repository deliver a  *)
(* block the miner did not generate once: MaxDeliveries is 1 for them.     *)
(***************************************************************************)
EXTENDS GraphOperations, HonestMiner

CONSTANT MaxDeliveries  \* bound: how often one block is delivered
ASSUME OpenMinerAssumption == MaxDeliveries \in Nat

VARIABLES cache,      \* hm.cache
          sent,       \* every Broadcast and Relay call so far, in order
          deliveries  \* how often the oracle has delivered each block

openVars == <<vars, cache, sent, deliveries>>

OpenInit == /\ Init
            /\ cache = <<>>
            /\ sent = <<>>
            /\ deliveries = [b \in BlockIds |-> 0]

OpenElsewhere == Elsewhere /\ UNCHANGED <<cache, sent, deliveries>>

OpenGenerate == /\ Generate
                /\ sent' = Append(sent, generated)
                /\ UNCHANGED <<cache, deliveries>>

\* ReceiveBlock, which takes the place of Receive in GraphOperations.tla.
OpenReceive(b) ==
    /\ b < generated
    /\ deliveries[b] < MaxDeliveries
    /\ deliveries' = [deliveries EXCEPT ![b] = @ + 1]
    /\ LET r == ReceiveBlock(blocks, [graph |-> graph, cache |-> cache], b)
       IN  /\ graph' = r.graph
           /\ cache' = r.cache
           /\ sent' = sent \o r.relays
    /\ UNCHANGED <<blocks, generated>>

OpenNext == OpenElsewhere \/ OpenGenerate \/ \E b \in BlockIds : OpenReceive(b)

OpenSpec == OpenInit /\ [][OpenNext]_openVars

-----------------------------------------------------------------------------
\* Between two handlers no cached block could be inserted: "Insert blocks
\* from cache to local graph" (miner_honest.go:70) leaves none behind.
CacheDrained == \A i \in DOMAIN cache : InsertResult(blocks, graph, cache[i]) = "Fail"

\* It does as long as no block has been delivered twice, as by the networks of
\* this repository.
CacheDrainedOnce == (\A b \in BlockIds : deliveries[b] <= 1) => CacheDrained

\* A delivered block is in the graph or waits in the cache: ReceiveBlock
\* and insertCache drop only blocks the graph holds.
NothingLost == \A b \in BlockIds :
    deliveries[b] > 0 => b \in graph.ledger \cup ToSet(cache)

\* A block goes to the network exactly once, when it enters the graph,
\* whether on arrival, from the cache or because the miner generated it; and
\* ancestors first, so a peer that gets the relays in order caches none.
SentOnceInOrder ==
    /\ IsInjective(sent) /\ ToSet(sent) = graph.ledger
    /\ \A j \in DOMAIN sent : \A a \in Parents(blocks, sent[j]) :
          \E i \in 1..(j - 1) : sent[i] = a

\* The miner implements the abstract ledger: its pivot is that of the
\* heaviest-subtree rule after every handler, however blocks arrived.
Ghost == INSTANCE GhostLedger WITH ledger <- graph.ledger, pivotTip <- graph.pivotTip
ImplementsGhost == Ghost!Spec
=============================================================================
