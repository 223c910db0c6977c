------------------------------ MODULE GhostRule ------------------------------
(***************************************************************************)
(* The heaviest-subtree rule, defined from a set of blocks alone, and what *)
(* it means for an incrementally maintained graph to agree with it.  The   *)
(* parts of Consistent are those LocalGraph.checkConsistency (test.go)     *)
(* tests after every insert when the program runs with -d; a weight is     *)
(* compared with the size of the subtree instead of the sum over the       *)
(* children.                                                               *)
(***************************************************************************)
EXTENDS LocalGraph

\* L holds the ancestors of each of its blocks.
AncestorClosed(B, L) == \A b \in L : Parents(B, b) \subseteq L

Subtree(B, L, b) == {d \in L : b \in B[d].chain}

SubtreeWeight(B, L, b) == Cardinality(Subtree(B, L, b))

ChildrenIn(B, L, b) == {c \in L : B[c].parent = b}

\* c is the heaviest child of b among the blocks of L.
IsHeaviestChild(B, L, b, c) ==
    /\ c \in ChildrenIn(B, L, b)
    /\ \A d \in ChildrenIn(B, L, b) \ {c} :
          Beats(B, SubtreeWeight(B, L, c), SubtreeWeight(B, L, d), c, d)

\* The blocks reached from genesis by going to the heaviest child.
GhostChain(B, L) ==
    {b \in L : \A a \in B[b].chain \ {Genesis} : IsHeaviestChild(B, L, B[a].parent, a)}

GhostTip(B, L) == CHOOSE t \in GhostChain(B, L) : ChildrenIn(B, L, t) = {}

\* The blocks of L without a child or a referring block in L.
TipsOf(B, L) == {b \in L : \A c \in L : b \notin Parents(B, c)}

-----------------------------------------------------------------------------
PivotChain(B, g) ==
    {b \in g.ledger : \A a \in B[b].chain \ {Genesis} : g.maxChild[B[a].parent] = a}

\* "weight consistency" and "global weight consistency" of checkConsistency,
\* and its marking of the pivot blocks.
WeightsExact(B, g) ==
    /\ g.totalWeight = Cardinality(g.ledger)
    /\ \A b \in g.ledger : g.weight[b] = SubtreeWeight(B, g.ledger, b)
                            - (IF b \in PivotChain(B, g) THEN g.totalWeight ELSE 0)

\* "max child consistency".
MaxChildExact(B, g) ==
    \A b \in g.ledger : IF ChildrenIn(B, g.ledger, b) = {}
                        THEN g.maxChild[b] = None
                        ELSE IsHeaviestChild(B, g.ledger, b, g.maxChild[b])

\* "pivot tip error".
PivotTipExact(B, g) ==
    g.ledger # {} => g.pivotTip \in PivotChain(B, g) /\ g.maxChild[g.pivotTip] = None

\* "find tip block outside tip list" and "find non-tip block in tip list".
TipsExact(B, g) == g.tips = TipsOf(B, g.ledger)

Consistent(B, g) ==
    /\ AncestorClosed(B, g.ledger)
    /\ WeightsExact(B, g)
    /\ MaxChildExact(B, g)
    /\ PivotTipExact(B, g)
    /\ TipsExact(B, g)

-----------------------------------------------------------------------------
(***************************************************************************)
(* What the pointers of the table are when the blocks below n have edges.  *)
(***************************************************************************)
\* Edges go to earlier blocks, and chain follows the parents.
EdgesOK(B, n) ==
    /\ B[Genesis].parent = None /\ B[Genesis].references = {} /\ B[Genesis].chain = {Genesis}
    /\ \A b \in 1..(n - 1) : /\ B[b].parent \in 0..(b - 1)
                            /\ B[b].references \subseteq 0..(b - 1)
                            /\ B[b].chain = B[B[b].parent].chain \cup {b}
    /\ \A b \in n..MaxBlock : B[b].parent = None /\ B[b].references = {}

\* A chain is a path down from genesis: it holds the chains of its blocks,
\* two of its blocks are comparable, and each but the last has a child in it.
ChainsOK(B, n) == \A b \in 0..(n - 1) :
    /\ b \in B[b].chain /\ Genesis \in B[b].chain /\ B[b].chain \subseteq 0..b
    /\ \A a \in B[b].chain : B[a].chain \subseteq B[b].chain
    /\ \A a, c \in B[b].chain : a \in B[c].chain \/ c \in B[a].chain
    /\ \A a \in B[b].chain \ {b} : \E c \in B[b].chain : c # Genesis /\ B[c].parent = a

TableOK(B, n) ==
    /\ B \in [BlockIds -> Block]
    /\ n \in 1..(MaxBlock + 1)
    /\ EdgesOK(B, n)
    /\ ChainsOK(B, n)

\* The entries of the blocks a graph does not hold are those it started with,
\* and so is the tip as long as it holds none.
RestBlank(g) ==
    /\ \A b \in BlockIds \ g.ledger : g.weight[b] = 0 /\ g.maxChild[b] = None
    /\ g.ledger = {} => g.pivotTip = None

\* The graph of a miner when the blocks below n have edges.
GraphOK(B, n, g) ==
    /\ g \in Graph
    /\ g.ledger \subseteq 0..(n - 1)
    /\ \A b \in g.ledger : B[b].chain \subseteq g.ledger
    /\ Consistent(B, g)
    /\ RestBlank(g)
=============================================================================
