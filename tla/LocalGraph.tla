----------------------------- MODULE LocalGraph -----------------------------
(***************************************************************************)
(* The block graph one miner keeps (localgraph.go, and the Block record of *)
(* oracle.go).  This module has no variables: the block table B, which the *)
(* oracle and all the miners share through pointers, and the graph g of    *)
(* one miner are arguments, so that a specification of one graph, of one   *)
(* miner or of the whole simulation uses the same definitions.             *)
(*                                                                         *)
(* A block is its index, the key of LocalGraph.ledger.  The loops of       *)
(* LocalGraph.insert follow parent pointers upwards and maxChild pointers  *)
(* downwards; the set each of them visits is defined by a first-order      *)
(* formula over B[b].chain, the blocks on the parent path of b.            *)
(***************************************************************************)
EXTENDS Integers, FiniteSets

CONSTANTS MaxBlock,    \* bound: the highest block index a behaviour mines
          MaxResidual, \* residuals are 0..MaxResidual, see GetWeight
          Miners,      \* the miners of the oracle
          NoMiner      \* the minerID of the genesis block (-1 in the code)

ASSUME BlockAssumption == /\ MaxBlock \in Nat
                          /\ MaxResidual \in Nat
                          /\ NoMiner \notin Miners

BlockIds == 0..MaxBlock
Genesis  == 0
None     == -1       \* a nil *Block or *DetailedBlock

(***************************************************************************)
(* The fields of a block.  children and refChildren are the inverse of     *)
(* parent and references, written by the same statements, so they are not  *)
(* state.  chain and past have no counterpart in the code: they record     *)
(* what following the pointers of the block visits.                        *)
(***************************************************************************)
Block == [minerID     : Miners \cup {NoMiner},
          residual    : 0..MaxResidual,
          height      : Nat,
          ancestorNum : Nat,
          parent      : BlockIds \cup {None},
          references  : SUBSET BlockIds,
          chain       : SUBSET BlockIds,   \* the block and its parent path
          past        : SUBSET BlockIds]   \* all its ancestors, not itself

\* A block nobody has filled: its parent pointer is nil.
BlankBlock == [minerID |-> NoMiner, residual |-> 0, height |-> 0,
               ancestorNum |-> 0, parent |-> None, references |-> {},
               chain |-> {}, past |-> {}]

\* The table NewOracle starts from.
GenesisTable == [b \in BlockIds |->
    [BlankBlock EXCEPT !.chain = IF b = Genesis THEN {b} ELSE {}]]

\* The fields mineNextBlock gives a block.  A mutant: k is the integer above
\* fk even if fk is one, and k - fk may reach 1.
MineBlockRoundUp(B, b, m, r) ==
    [B EXCEPT ![b] = [@ EXCEPT !.minerID = m, !.residual = IF r = 0 THEN MaxResidual + 1 ELSE r]]

MineBlock(B, b, m, r) == [B EXCEPT ![b] = [@ EXCEPT !.minerID = m, !.residual = r]]

\* The blocks with edges: genesis, and those a miner has generated.
Linked(B) == {b \in BlockIds : b = Genesis \/ B[b].parent # None}

IsGenesis(B, b) == B[b].parent = None

Parents(B, b) == B[b].references \cup (IF IsGenesis(B, b) THEN {} ELSE {B[b].parent})

(***************************************************************************)
(* The fields of a graph.  The pointers parent and genesis of the code are *)
(* B[b].parent and Genesis.                                                *)
(***************************************************************************)
Graph == [ledger      : SUBSET BlockIds,
          weight      : [BlockIds -> Int],
          maxChild    : [BlockIds -> BlockIds \cup {None}],
          totalWeight : Nat,
          tips        : SUBSET BlockIds,
          pivotTip    : BlockIds \cup {None}]

NewLocalGraph == [ledger      |-> {},
                  weight      |-> [b \in BlockIds |-> 0],
                  maxChild    |-> [b \in BlockIds |-> None],
                  totalWeight |-> 0,
                  tips        |-> {},
                  pivotTip    |-> None]

SeenAllAncestors(B, g, b) == Parents(B, b) \subseteq g.ledger

Children(B, g, b) == {c \in g.ledger : B[c].parent = b}

\* Pivot blocks store their subtree weight minus the total weight.
IsPivot(g, b) == g.weight[b] <= 0

(***************************************************************************)
(* getWeight adds the residual, a float in [0, 1), to an integer weight:   *)
(* only the order of the sums is used, and it is the lexicographic order   *)
(* of the pairs.                                                           *)
(***************************************************************************)
GetWeight(g, b) == IF IsPivot(g, b) THEN g.totalWeight + g.weight[b] ELSE g.weight[b]

\* c comes before d in updateMaxChild: it is heavier or, if they are tied,
\* earlier in children.  Blocks are appended to children when generated,
\* which the oracle has them do in the order of their indexes.
Beats(B, wc, wd, c, d) ==
    \/ wc > wd
    \/ wc = wd /\ B[c].residual > B[d].residual
    \/ wc = wd /\ B[c].residual = B[d].residual /\ c < d

\* What updateMaxChild(b) stores in b.maxChild.  Two mutants: residuals are
\* left out, and a maxChild stays as long as no child is heavier.
MaxChildByWeight(B, g, b) ==
    IF Children(B, g, b) = {} THEN None
    ELSE CHOOSE c \in Children(B, g, b) : \A d \in Children(B, g, b) \ {c} :
            \/ GetWeight(g, c) > GetWeight(g, d)
            \/ GetWeight(g, c) = GetWeight(g, d) /\ c < d

MaxChildSticky(B, g, b) ==
    LET kids == Children(B, g, b)
        best == {c \in kids : \A d \in kids : GetWeight(g, c) >= GetWeight(g, d)}
    IN  IF kids = {} THEN None
        ELSE IF g.maxChild[b] \in best THEN g.maxChild[b] ELSE CHOOSE c \in best : TRUE

MaxChildOf(B, g, b) ==
    IF Children(B, g, b) = {} THEN None
    ELSE CHOOSE c \in Children(B, g, b) : \A d \in Children(B, g, b) \ {c} :
            Beats(B, GetWeight(g, c), GetWeight(g, d), c, d)

-----------------------------------------------------------------------------
(***************************************************************************)
(* Filling the edges of a block.                                           *)
(***************************************************************************)
PastOf(B, p, refs) == {p} \cup refs \cup UNION {B[x].past : x \in {p} \cup refs}

LinkBlock(B, b, p, refs, anc) ==
    [B EXCEPT ![b] = [@ EXCEPT
        !.parent      = p,
        !.references  = refs,
        !.height      = B[p].height + 1,
        !.ancestorNum = anc,
        !.chain       = B[p].chain \cup {b},
        !.past        = PastOf(B, p, refs)]]

\* A mutant: the parent is referred to like the other tips.
FillNewBlockAllTips(B, g, b) == LinkBlock(B, b, g.pivotTip, g.tips, g.totalWeight)

FillNewBlock(B, g, b) ==
    LinkBlock(B, b, g.pivotTip, g.tips \ {g.pivotTip}, g.totalWeight)

-----------------------------------------------------------------------------
(***************************************************************************)
(* insert, in the order of its statements.                                 *)
(***************************************************************************)
InsertResult(B, g, b) ==
    IF b \in g.ledger THEN "Existing"
    ELSE IF SeenAllAncestors(B, g, b) THEN "Success" ELSE "Fail"

\* The new entry, and updateTips.  A mutant: the references stay tips.
AddEntryKeepRefTips(B, g, b) ==
    [g EXCEPT !.ledger      = @ \cup {b},
              !.totalWeight = @ + 1,
              !.weight[b]   = IF IsGenesis(B, b) THEN g.totalWeight ELSE 1,
              !.maxChild[b] = None,
              !.tips        = (@ \ {B[b].parent}) \cup {b}]

AddEntry(B, g, b) ==
    [g EXCEPT !.ledger      = @ \cup {b},
              !.totalWeight = @ + 1,
              !.weight[b]   = IF IsGenesis(B, b) THEN g.totalWeight ELSE 1,
              !.maxChild[b] = None,
              !.tips        = (@ \ Parents(B, b)) \cup {b}]

\* The blocks the first loop passes on its way up from p to the first pivot.
Climbed(B, g, p) ==
    {a \in B[p].chain : \A c \in B[p].chain : a \in B[c].chain => ~IsPivot(g, c)}

\* The pivot block the loop ends at.
PivotPoint(B, g, p) ==
    CHOOSE a \in B[p].chain : B[a].chain = B[p].chain \ Climbed(B, g, p)

AddWeight(g, S, n) ==
    [g EXCEPT !.weight = [x \in BlockIds |-> @[x] + (IF x \in S THEN n ELSE 0)]]

\* The first loop: each block passed weighs one more, and maxChild is chosen
\* anew among its children, the one passed before weighing more already.
\* A mutant: the choice is forgotten.
CreditBranchKeepMax(B, g, climbed) == AddWeight(g, climbed, 1)

CreditBranch(B, g, climbed) ==
    LET heavier == AddWeight(g, climbed, 1)
    IN  [heavier EXCEPT !.maxChild =
            [x \in BlockIds |-> IF x \in climbed THEN MaxChildOf(B, heavier, x) ELSE @[x]]]

\* The blocks a loop "for x != nil { ...; x = x.maxChild }" visits.
MaxChildChain(B, g, x) ==
    IF x = None THEN {}
    ELSE {d \in g.ledger : /\ x \in B[d].chain
                           /\ \A a \in B[d].chain \ B[x].chain : g.maxChild[B[a].parent] = a}

\* The second loop: the total has grown by one, so the stored weight of the
\* pivot blocks below the pivot point drops by one.  A mutant: it does not.
LowerOldBranchNot(B, g, oldBranch) == g

LowerOldBranch(B, g, oldBranch) == AddWeight(g, MaxChildChain(B, g, oldBranch), -1)

\* The last two loops: the old branch leaves the pivot and the new one joins
\* it.  A mutant: pivotTip is not moved.
MovePivotKeepTip(B, g, pivotPoint, oldBranch, newBranch) ==
    [AddWeight(AddWeight(g, MaxChildChain(B, g, oldBranch), g.totalWeight),
               MaxChildChain(B, g, newBranch), -g.totalWeight)
     EXCEPT !.maxChild[pivotPoint] = newBranch]

MovePivot(B, g, pivotPoint, oldBranch, newBranch) ==
    LET oldChain == MaxChildChain(B, g, oldBranch)
        newChain == MaxChildChain(B, g, newBranch)
    IN  [AddWeight(AddWeight(g, oldChain, g.totalWeight), newChain, -g.totalWeight)
         EXCEPT !.maxChild[pivotPoint] = newBranch,
                !.pivotTip = CHOOSE t \in newChain : g.maxChild[t] = None]

\* What follows the first loop.
SwitchBranch(B, g, pivotPoint) ==
    LET oldBranch == g.maxChild[pivotPoint]
        lowered   == LowerOldBranch(B, g, oldBranch)
        newBranch == MaxChildOf(B, lowered, pivotPoint)
    IN  IF newBranch = oldBranch
        THEN lowered
        ELSE MovePivot(B, lowered, pivotPoint, oldBranch, newBranch)

\* What follows the early returns.
InsertNew(B, g, b) ==
    LET entered == AddEntry(B, g, b)
        climbed == Climbed(B, entered, B[b].parent)
    IN  IF IsGenesis(B, b)
        THEN [entered EXCEPT !.pivotTip = b]
        ELSE SwitchBranch(B, CreditBranch(B, entered, climbed),
                          PivotPoint(B, entered, B[b].parent))

Insert(B, g, b) == IF InsertResult(B, g, b) = "Success" THEN InsertNew(B, g, b) ELSE g
=============================================================================
