--------------------------- MODULE GraphOperations ---------------------------
(***************************************************************************)
(* One LocalGraph and its two operations, called in any order.  The owner  *)
(* of the graph generates blocks (fillNewBlock, then insert) and inserts   *)
(* blocks other miners have generated; those choose their edges as they    *)
(* like, which README.md allows a miner to do, and reach the owner in any  *)
(* order and any number of times.                                          *)
(***************************************************************************)
EXTENDS GhostRule

CONSTANT Owner
ASSUME OwnerAssumption == Owner \in Miners

VARIABLES blocks,    \* the block table shared by all the miners
          generated, \* how many blocks have edges, genesis included
          graph      \* the graph of the owner

vars == <<blocks, generated, graph>>

Init == /\ blocks = GenesisTable
        /\ generated = 1
        /\ graph = NewLocalGraph

\* No block is generated before every graph holds genesis: invariant
\* GenesisFirst of Simulation.tla.
MayGenerate == generated <= MaxBlock /\ Genesis \in graph.ledger

\* Another miner generates the next block.
Elsewhere ==
    /\ MayGenerate
    /\ \E m \in Miners \ {Owner}, r \in 0..MaxResidual, p \in 0..(generated - 1) :
         \E refs \in SUBSET ((0..(generated - 1)) \ {p}) :
            blocks' = LinkBlock(MineBlock(blocks, generated, m, r), generated, p, refs,
                                Cardinality(PastOf(blocks, p, refs)))
    /\ generated' = generated + 1
    /\ UNCHANGED graph

\* GenerateBlock of the owner.
Generate ==
    /\ MayGenerate
    /\ \E r \in 0..MaxResidual :
         blocks' = FillNewBlock(MineBlock(blocks, generated, Owner, r), graph, generated)
    /\ graph' = Insert(blocks', graph, generated)
    /\ generated' = generated + 1

\* insert(b) for a block that has been received.
Receive(b) ==
    /\ b < generated
    /\ graph' = Insert(blocks, graph, b)
    /\ UNCHANGED <<blocks, generated>>

Next == Elsewhere \/ Generate \/ \E b \in BlockIds : Receive(b)

Spec == Init /\ [][Next]_vars

-----------------------------------------------------------------------------
TypeOK == /\ blocks \in [BlockIds -> Block]
          /\ generated \in 1..(MaxBlock + 1)
          /\ graph \in Graph

\* "weight consistency" and "mark non-pivot block as pivot" (test.go:43-69):
\* the weights insert rebases loop by loop are always the subtree sizes,
\* minus the total on exactly the pivot blocks.
ExactWeights == WeightsExact(blocks, graph)

\* "max child consistency" (test.go:60): no insert leaves a block whose
\* maxChild is not its heaviest child, on the pivot or off it.
ExactMaxChild == MaxChildExact(blocks, graph)

\* "pivot tip error" (test.go:73): pivotTip is the end of the pivot after
\* every switch of branches.
ExactPivotTip == PivotTipExact(blocks, graph)

\* "find tip block outside tip list" and "find non-tip block in tip list"
\* (test.go:76): updateTips loses no tip and keeps no block with a child.
ExactTips == TipsExact(blocks, graph)
=============================================================================
