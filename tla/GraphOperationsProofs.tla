----------------------- MODULE GraphOperationsProofs -----------------------
(***************************************************************************)
(* The invariants of GraphOperations, for every number of blocks, every    *)
(* set of miners and every range of residuals.  None of the exactness      *)
(* invariants is inductive alone: insert finds its way with the signs of   *)
(* the weights and the maxChild pointers, so they are kept together, with  *)
(* the shape of the block table.                                           *)
(***************************************************************************)
EXTENDS Epochs, OpenMiner, GraphProofs

USE DEF Genesis, None

\* The fields of the table that count: past, height and ancestorNum.
Counted(B, n) ==
    /\ PastOK(B, n)
    /\ B[0].height = 0
    /\ \A b \in 1..(n - 1) : B[b].height = B[B[b].parent].height + 1
    /\ \A b \in 0..(n - 1) : B[b].ancestorNum = Cardinality(B[b].past)

\* The inductive invariant.
IInv == TableOK(blocks, generated) /\ Counted(blocks, generated) /\ GraphOK(blocks, generated, graph)

\* A block linked to others, with ancestorNum counting its ancestors, keeps
\* the counts.
LEMMA LinkKeepsCounts ==
    ASSUME NEW B, NEW n, TableOK(B, n), Counted(B, n), n <= MaxBlock,
           NEW m \in Miners, NEW r \in 0..MaxResidual,
           NEW p \in 0..(n - 1), NEW refs \in SUBSET (0..(n - 1)),
           NEW anc, anc = Cardinality(PastOf(B, p, refs)),
           NEW C, C = LinkBlock(MineBlock(B, n, m, r), n, p, refs, anc)
    PROVE  Counted(C, n + 1)
<1> DEFINE A == MineBlock(B, n, m, r)
<1>1. n \in Nat /\ n >= 1 /\ n \in BlockIds /\ 0..(n - 1) \subseteq BlockIds /\ anc \in Nat
  BY TableFacts, PastIsCounted DEF BlockIds
<1>2. TableOK(A, n) /\ Agree(B, A, n) /\ TableOK(C, n + 1) /\ Agree(B, C, n) /\ Filled(C, n, m, p, refs)
  BY <1>1, MineKeepsTable, NewBlockKeepsGraph
<1>3. /\ C[n].past = PastOf(A, p, refs) /\ C[n].height = A[p].height + 1
      /\ C[n].ancestorNum = anc /\ C[n].parent = p /\ C[n].references = refs
  <2>1. A \in [BlockIds -> Block]
    BY <1>2 DEF TableOK
  <2> DEFINE P == PastOf(A, p, refs)
             H == A[p].height + 1
             K == A[p].chain \cup {n}
             X == [A[n] EXCEPT !.parent = p, !.references = refs, !.height = H,
                               !.ancestorNum = anc, !.chain = K, !.past = P]
  <2>2. C = [A EXCEPT ![n] = X]
    BY DEF LinkBlock
  <2>3. A[n] \in Block
    BY <1>1, <2>1
  <2>4. X.past = P /\ X.height = H /\ X.ancestorNum = anc /\ X.parent = p /\ X.references = refs
    <3> DEFINE x == A[n]
    <3> HIDE DEF P, H, K, x
    <3> QED BY <2>3 DEF Block, x
  <2> HIDE DEF X, A
  <2> QED BY <1>1, <2>1, <2>2, <2>4
<1>4. /\ A[p] = B[p] /\ C[p] = B[p] /\ \A x \in {p} \cup refs : A[x] = B[x] /\ C[x] = B[x]
  BY <1>2 DEF Agree
<1>5. PastOf(A, p, refs) = PastOf(B, p, refs) /\ PastOf(C, p, refs) = PastOf(B, p, refs)
  <2> HIDE DEF A
  <2> DEFINE E == {p} \cup refs
  <2>1. \A x \in E : A[x] = B[x] /\ C[x] = B[x]
    BY <1>4
  <2> HIDE DEF E
  <2>2. {A[x].past : x \in E} = {B[x].past : x \in E} /\ {C[x].past : x \in E} = {B[x].past : x \in E}
    BY <2>1
  <2>3. /\ PastOf(A, p, refs) = E \cup UNION {A[x].past : x \in E}
        /\ PastOf(B, p, refs) = E \cup UNION {B[x].past : x \in E}
        /\ PastOf(C, p, refs) = E \cup UNION {C[x].past : x \in E}
    BY ZenonT(60) DEF PastOf, E
  <2> QED BY <2>2, <2>3
<1>6. /\ B[0].height = 0 /\ PastOK(B, n)
      /\ \A b \in 1..(n - 1) : B[b].height = B[B[b].parent].height + 1
      /\ \A b \in 0..(n - 1) : B[b].ancestorNum = Cardinality(B[b].past)
  BY DEF Counted
<1>7. C[0] = B[0] /\ \A b \in 0..(n - 1) : C[b] = B[b]
  BY <1>1, <1>2 DEF Agree
<1>8. PastOK(C, n)
  BY <1>2, <1>6, PastStays
<1> DEFINE k == n + 1
<1>9. (\A b \in 1..(k - 1) : b \in 1..(n - 1) \/ b = n) /\ (\A b \in 0..(k - 1) : b \in 0..(n - 1) \/ b = n)
  BY <1>1
<1> HIDE DEF k, A
<1>10. PastOK(C, k)
  <2>1. C[0].past = {} /\ \A b \in 1..(n - 1) : C[b].past = PastOf(C, C[b].parent, C[b].references)
    BY <1>8 DEF PastOK
  <2>2. C[n].past = PastOf(C, C[n].parent, C[n].references)
    BY <1>3, <1>5
  <2>3. \A b \in 1..(k - 1) : C[b].past = PastOf(C, C[b].parent, C[b].references)
    BY <1>9, <2>1, <2>2
  <2> QED BY <2>1, <2>3 DEF PastOK
<1>11. \A b \in 1..(k - 1) : C[b].height = C[C[b].parent].height + 1
  <2> TAKE b \in 1..(k - 1)
  <2>1. CASE b = n
    BY <2>1, <1>3, <1>4
  <2>2. CASE b \in 1..(n - 1)
    <3>1. C[b] = B[b] /\ B[b].parent \in 0..(n - 1)
      <4>1. B[b].parent \in 0..(b - 1)
        BY <2>2, TableFacts
      <4> QED BY <4>1, <2>2, <1>1, <1>7
    <3>2. C[B[b].parent] = B[B[b].parent]
      BY <3>1, <1>7
    <3> QED BY <2>2, <3>1, <3>2, <1>6
  <2> QED BY <2>1, <2>2, <1>9
<1>12. \A b \in 0..(k - 1) : C[b].ancestorNum = Cardinality(C[b].past)
  <2> TAKE b \in 0..(k - 1)
  <2>1. CASE b = n
    BY <2>1, <1>3, <1>5
  <2>2. CASE b \in 0..(n - 1)
    BY <2>2, <1>6, <1>7
  <2> QED BY <2>1, <2>2, <1>9
<1>13. Counted(C, k)
  BY <1>6, <1>7, <1>10, <1>11, <1>12 DEF Counted
<1> QED BY <1>13 DEF k

\* So does a block whose edges fillNewBlock takes from a graph: totalWeight
\* counts what the tips lead to.
LEMMA FillKeepsCounts ==
    ASSUME NEW B, NEW n, TableOK(B, n), Counted(B, n), n <= MaxBlock,
           NEW g, GraphOK(B, n, g), Genesis \in g.ledger,
           NEW m \in Miners, NEW r \in 0..MaxResidual
    PROVE  Counted(FillNewBlock(MineBlock(B, n, m, r), g, n), n + 1)
<1> DEFINE p == g.pivotTip
           R == g.tips \ {g.pivotTip}
           A == MineBlock(B, n, m, r)
<1>1. FillNewBlock(A, g, n) = LinkBlock(A, n, p, R, g.totalWeight)
  BY DEF FillNewBlock
<1>2. p \in 0..(n - 1) /\ R \in SUBSET (0..(n - 1))
  BY OwnEdges
<1>3. g.totalWeight = Cardinality(PastOf(B, p, R))
  <2>1. PastOf(B, p, R) = g.ledger
    BY TipsCoverLedger DEF Counted
  <2> QED BY <2>1 DEF GraphOK, Consistent, WeightsExact
<1>4. Counted(LinkBlock(A, n, p, R, g.totalWeight), n + 1)
  <2> HIDE DEF p, R
  <2> QED BY <1>2, <1>3, LinkKeepsCounts
<1> QED BY <1>1, <1>4

\* The empty graph and the table with genesis satisfy the invariant.
LEMMA Initially == Init => IInv
<1>1. Counted(GenesisTable, 1)
  <2>1. /\ GenesisTable[0].past = {} /\ GenesisTable[0].height = 0 /\ GenesisTable[0].ancestorNum = 0
    BY BlockAssumption DEF GenesisTable, BlankBlock, BlockIds
  <2>2. 1..(1 - 1) = {} /\ 0..(1 - 1) = {0}
    OBVIOUS
  <2> QED BY <2>1, <2>2, FS_EmptySet DEF Counted, PastOK
<1> QED BY <1>1, GenesisTableOK, EmptyGraphOK DEF Init, IInv

\* A block generated by another miner leaves the owner's graph as it is.
LEMMA ElsewhereKeeps == IInv /\ Elsewhere => IInv'
<1> SUFFICES ASSUME IInv, Elsewhere PROVE IInv'
  OBVIOUS
<1>1. PICK m \in Miners, r \in 0..MaxResidual, p \in 0..(generated - 1),
           refs \in SUBSET (0..(generated - 1)) :
         blocks' = LinkBlock(MineBlock(blocks, generated, m, r), generated, p, refs,
                             Cardinality(PastOf(blocks, p, refs)))
  BY DEF Elsewhere
<1>2. generated <= MaxBlock /\ generated' = generated + 1 /\ graph' = graph
  BY DEF Elsewhere, MayGenerate
<1>3. Cardinality(PastOf(blocks, p, refs)) \in Nat
  BY PastIsCounted DEF IInv
<1>4. Counted(blocks', generated + 1)
  BY <1>1, <1>2, LinkKeepsCounts DEF IInv
<1> QED BY <1>1, <1>2, <1>3, <1>4, NewBlockKeepsGraph DEF IInv

\* Generating a block: its edges go to blocks with edges, and then insert.
LEMMA GenerateKeeps == IInv /\ Generate => IInv'
<1> SUFFICES ASSUME IInv, Generate PROVE IInv'
  OBVIOUS
<1>1. PICK r \in 0..MaxResidual :
         blocks' = FillNewBlock(MineBlock(blocks, generated, Owner, r), graph, generated)
  BY DEF Generate
<1>2. generated <= MaxBlock /\ Genesis \in graph.ledger /\ generated' = generated + 1
      /\ graph' = Insert(blocks', graph, generated)
  BY DEF Generate, MayGenerate
<1>3. TableOK(blocks', generated + 1) /\ GraphOK(blocks', generated + 1, graph')
  BY <1>1, <1>2, OwnerAssumption, OwnBlockKeepsGraph DEF IInv
<1>4. Counted(blocks', generated + 1)
  BY <1>1, <1>2, OwnerAssumption, FillKeepsCounts DEF IInv
<1> QED BY <1>2, <1>3, <1>4 DEF IInv

\* Receiving a block with edges, known or not, complete or not.
LEMMA ReceiveKeeps == ASSUME NEW b \in BlockIds PROVE IInv /\ Receive(b) => IInv'
<1> SUFFICES ASSUME IInv, Receive(b) PROVE IInv'
  OBVIOUS
<1>1. /\ TableOK(blocks, generated) /\ Counted(blocks, generated) /\ GraphOK(blocks, generated, graph)
      /\ graph' = Insert(blocks, graph, b) /\ blocks' = blocks /\ generated' = generated
  BY DEF IInv, Receive
<1>2. b \in 0..(generated - 1)
  BY TableFacts DEF Receive, IInv, BlockIds
<1>3. GraphOK(blocks, generated, graph')
  BY <1>1, <1>2, InsertKeepsGraph
<1> QED BY <1>1, <1>3 DEF IInv

\* The table and the graph stay well formed and consistent under every step.
THEOREM Inductive == Spec => []IInv
<1>1. Init => IInv
  BY Initially
<1>2. IInv /\ [Next]_vars => IInv'
  <2> SUFFICES ASSUME IInv, [Next]_vars PROVE IInv'
    OBVIOUS
  <2>1. CASE Elsewhere
    BY <2>1, ElsewhereKeeps
  <2>2. CASE Generate
    BY <2>2, GenerateKeeps
  <2>3. ASSUME NEW b \in BlockIds, Receive(b) PROVE IInv'
    BY <2>3, ReceiveKeeps
  <2>4. CASE UNCHANGED vars
    BY <2>4 DEF vars, IInv
  <2> QED BY <2>1, <2>2, <2>3, <2>4 DEF Next
<1> QED BY <1>1, <1>2, PTL DEF Spec

\* Blocks, weights, maxChild pointers and tips keep their types: no sequence
\* of fillNewBlock and insert leaves the range of the fields.
THEOREM TypeCorrect == Spec => []TypeOK
<1>1. IInv => TypeOK
  BY DEF IInv, TableOK, GraphOK, TypeOK
<1> QED BY <1>1, Inductive, PTL

\* The weights insert keeps by rebasing are the subtree sizes, minus the total
\* on exactly the pivot blocks.
THEOREM WeightsAreExact == Spec => []ExactWeights
<1>1. IInv => ExactWeights
  BY DEF IInv, GraphOK, Consistent, ExactWeights
<1> QED BY <1>1, Inductive, PTL

\* updateMaxChild is called on every block whose heaviest child changes.
THEOREM MaxChildrenAreExact == Spec => []ExactMaxChild
<1>1. IInv => ExactMaxChild
  BY DEF IInv, GraphOK, Consistent, ExactMaxChild
<1> QED BY <1>1, Inductive, PTL

\* The walk down the new branch leaves pivotTip at the end of the pivot.
THEOREM PivotTipIsExact == Spec => []ExactPivotTip
<1>1. IInv => ExactPivotTip
  BY DEF IInv, GraphOK, Consistent, ExactPivotTip
<1> QED BY <1>1, Inductive, PTL

\* updateTips keeps exactly the blocks nobody in the graph points to.
THEOREM TipsAreExact == Spec => []ExactTips
<1>1. IInv => ExactTips
  BY DEF IInv, GraphOK, Consistent, ExactTips
<1> QED BY <1>1, Inductive, PTL

-----------------------------------------------------------------------------
(***************************************************************************)
(* The statistics.                                                         *)
(***************************************************************************)
\* V is what can be reached from S.
IsReached(V, S, onto) ==
    /\ S \subseteq V /\ V \subseteq BlockIds
    /\ \A x \in V : onto[x] \subseteq V
    /\ \A T : S \subseteq T /\ (\A x \in T \cap BlockIds : onto[x] \subseteq T) => V \subseteq T

\* The work list of Visit visits exactly what can be reached from S, if every
\* step lowers a rank: after as many rounds as there are ranks nothing is left.
LEMMA VisitReaches ==
    ASSUME NEW S \in SUBSET BlockIds, NEW onto \in [BlockIds -> SUBSET BlockIds],
           NEW rank \in [BlockIds -> BlockIds],
           \A x \in BlockIds : \A y \in onto[x] : rank[y] < rank[x]
    PROVE  IsReached(Visit(S, onto), S, onto)
<1> DEFINE V == SUBSET BlockIds
           Next1(X) == X \cup UNION {onto[x] : x \in X}
           step == [w \in Nat \X V |-> Next1(w[2])]
           Rounds(f) == f = [n \in Nat |-> IF n = 0 THEN S
                                           ELSE LET before == f[n - 1]
                                                IN  before \cup UNION {onto[x] : x \in before}]
           v == CHOOSE f : Rounds(f)
<1>1. Visit(S, onto) = v[MaxBlock + 1]
  BY DEF Visit
<1>2. \A X \in V : Next1(X) \in V
  OBVIOUS
<1>3. Rounds(v)
  <2>1. step \in [Nat \X V -> V] /\ S \in V
    <3> HIDE DEF V, Next1
    <3> QED BY <1>2 DEF V
  <2>2. PICK f : IteratesBy(f, V, S, step)
    <3> HIDE DEF V, step
    <3> QED BY <2>1, RecursionExists
  <2>3. ASSUME NEW n \in Nat PROVE f[n] = IF n = 0 THEN S ELSE Next1(f[n - 1])
    <3>1. CASE n = 0
      BY <2>2, <3>1 DEF IteratesBy
    <3>2. CASE n # 0
      <4>1. n - 1 \in Nat /\ n = n - 1 + 1
        BY <3>2
      <4>2. f[n] = step[<<n, f[n - 1]>>] /\ f[n - 1] \in V /\ <<n, f[n - 1]>> \in Nat \X V
        BY <2>2, <4>1 DEF IteratesBy
      <4> HIDE DEF V, Next1
      <4> QED BY <3>2, <4>2
    <3> QED BY <3>1, <3>2
  <2>4. Rounds(f)
    <3> HIDE DEF V, step
    <3> QED BY <2>2, <2>3 DEF IteratesBy
  <2> HIDE DEF Rounds
  <2> QED BY <2>4
<1>4. \A n \in Nat : v[n] = IF n = 0 THEN S ELSE Next1(v[n - 1])
  <2> HIDE DEF v
  <2> QED BY <1>3
<1> HIDE DEF v, step, Rounds
<1>5. v[0] = S /\ \A n \in Nat : v[n + 1] = Next1(v[n])
  <2>1. \A n \in Nat : n + 1 \in Nat /\ n + 1 # 0 /\ n + 1 - 1 = n
    OBVIOUS
  <2> HIDE DEF Next1
  <2> QED BY <1>4, <2>1
\* No round leaves the blocks, and one whose rank is among the n highest has
\* been expanded after n rounds.
<1> DEFINE Done(n) == \A x \in v[n] : rank[x] > MaxBlock - n => onto[x] \subseteq v[n]
           P == {n \in Nat : v[n] \in V /\ S \subseteq v[n] /\ Done(n)}
<1>6. P = Nat
  <2>1. 0 \in P
    <3>1. \A x \in BlockIds : rank[x] <= MaxBlock - 0
      BY BlockAssumption DEF BlockIds
    <3>2. \A x \in BlockIds : ~ (rank[x] > MaxBlock - 0)
      <4> TAKE x \in BlockIds
      <4>1. rank[x] \in BlockIds
        OBVIOUS
      <4> QED BY <4>1, <3>1, BlockAssumption DEF BlockIds
    <3>3. Done(0)
      BY <3>2, <1>5
    <3> HIDE DEF Done
    <3> QED BY <3>3, <1>5
  <2>2. ASSUME NEW n \in P PROVE n + 1 \in P
    <3>1. /\ n \in Nat /\ v[n] \in V /\ S \subseteq v[n] /\ Done(n)
          /\ v[n + 1] = v[n] \cup UNION {onto[x] : x \in v[n]}
      BY <1>5
    <3>2. v[n + 1] \in V /\ S \subseteq v[n + 1]
      BY <3>1, <1>2
    <3>3. ASSUME NEW x \in v[n + 1], rank[x] > MaxBlock - (n + 1)
          PROVE  onto[x] \subseteq v[n + 1]
      <4>1. CASE x \in v[n]
        BY <4>1, <3>1
      <4>2. CASE x \notin v[n]
        <5>1. PICK y \in v[n] : x \in onto[y]
          BY <4>2, <3>1
        <5>2. x \in BlockIds /\ y \in BlockIds /\ rank[x] < rank[y]
          BY <5>1, <3>1
        <5>3. rank[y] > MaxBlock - n
          <6>1. rank[x] \in Int /\ rank[y] \in Int /\ MaxBlock \in Int /\ n \in Int
            BY <5>2, <3>1, BlockAssumption DEF BlockIds
          <6> QED BY <6>1, <5>2, <3>3
        <5>4. onto[y] \subseteq v[n]
          BY <5>1, <5>3, <3>1
        <5> QED BY <5>1, <5>4, <4>2
      <4> QED BY <4>1, <4>2
    <3>4. Done(n + 1)
      BY <3>3
    <3>5. n + 1 \in Nat
      BY <3>1
    <3> HIDE DEF Done, V
    <3> QED BY <3>2, <3>4, <3>5
  <2>3. P \in SUBSET Nat
    OBVIOUS
  <2> HIDE DEF P
  <2> QED BY <2>1, <2>2, <2>3, NatSubset
<1> DEFINE last == MaxBlock + 1
<1>7. last \in Nat /\ v[last] \in V /\ S \subseteq v[last] /\ Done(last)
  <2>1. last \in Nat
    BY BlockAssumption
  <2> HIDE DEF last, Done, V
  <2> QED BY <2>1, <1>6
<1>8. \A x \in v[last] : onto[x] \subseteq v[last]
  <2>1. ASSUME NEW x \in v[last] PROVE rank[x] > MaxBlock - last
    <3>1. rank[x] \in BlockIds
      BY <1>7
    <3>2. \A r \in BlockIds : r > MaxBlock - last
      BY BlockAssumption DEF BlockIds
    <3> QED BY <3>1, <3>2
  <2> HIDE DEF last
  <2> QED BY <2>1, <1>7
<1>9. ASSUME NEW T, S \subseteq T, \A x \in T \cap BlockIds : onto[x] \subseteq T
      PROVE  v[last] \subseteq T
  <2> DEFINE Q == {n \in Nat : v[n] \subseteq T}
  <2>1. 0 \in Q
    BY <1>5, <1>9
  <2>2. ASSUME NEW n \in Q PROVE n + 1 \in Q
    <3>1. n \in Nat /\ v[n] \subseteq T /\ v[n] \subseteq BlockIds
      BY <1>6
    <3>2. v[n + 1] = v[n] \cup UNION {onto[x] : x \in v[n]}
      BY <1>5, <3>1
    <3>3. v[n + 1] \subseteq T
      BY <1>9, <3>1, <3>2
    <3> QED BY <3>1, <3>3
  <2>3. Q = Nat
    <3>1. Q \in SUBSET Nat
      OBVIOUS
    <3> HIDE DEF Q
    <3> QED BY <2>1, <2>2, <3>1, NatSubset
  <2> QED BY <2>3, <1>7
<1>10. Visit(S, onto) = v[last]
  BY <1>1
<1> HIDE DEF last, Done
<1> QED BY <1>7, <1>8, <1>9, <1>10 DEF IsReached

\* Heights grow along a chain.
LEMMA HeightsGrow ==
    ASSUME NEW B, NEW n, TableOK(B, n), Counted(B, n)
    PROVE  \A b \in 0..(n - 1) : \A a \in B[b].chain : a # b => B[a].height < B[b].height
<1> DEFINE Up(b) == \A a \in B[b].chain : a # b => B[a].height < B[b].height
           P == {k \in Nat : \A b \in 0..(n - 1) : b <= k => Up(b)}
<1>1. n \in Nat /\ \A b \in 0..(n - 1) : B[b].height \in Nat
  <2>1. B \in [BlockIds -> Block] /\ 0..(n - 1) \subseteq BlockIds /\ n \in Nat
    BY TableFacts DEF TableOK
  <2> QED BY <2>1 DEF Block
<1>2. /\ B[0].chain = {0}
      /\ \A d \in 1..(n - 1) : /\ B[d].chain = B[B[d].parent].chain \cup {d}
                               /\ B[d].parent \in 0..(n - 1) /\ B[d].parent < d
                               /\ B[d].height = B[B[d].parent].height + 1
  BY ChainFacts DEF TableOK, EdgesOK, Counted
<1>3. Up(0)
  BY <1>2
<1>4. 0 \in P
  <2>1. \A b \in 0..(n - 1) : b <= 0 => b = 0
    OBVIOUS
  <2> HIDE DEF Up
  <2> QED BY <2>1, <1>3
<1>5. ASSUME NEW k \in P PROVE k + 1 \in P
  <2>1. k \in Nat /\ k + 1 \in Nat /\ \A b \in 0..(n - 1) : b <= k => Up(b)
    OBVIOUS
  <2>2. ASSUME NEW b \in 0..(n - 1), b <= k + 1 PROVE Up(b)
    <3>1. CASE b <= k
      <4> HIDE DEF Up
      <4> QED BY <2>1, <3>1
    <3>2. CASE ~ (b <= k)
      <4> DEFINE p == B[b].parent
      <4>1. b \in 1..(n - 1) /\ p \in 0..(n - 1) /\ p <= k
        <5>1. b \in 1..(n - 1)
          BY <2>1, <3>2
        <5>2. p \in 0..(n - 1) /\ p < b
          BY <5>1, <1>2
        <5> HIDE DEF p
        <5> QED BY <2>1, <2>2, <5>1, <5>2
      <4>2. /\ B[b].chain = B[p].chain \cup {b} /\ B[b].height = B[p].height + 1 /\ Up(p)
            /\ \A a \in B[p].chain : B[a].height \in Nat
            /\ B[p].height \in Nat
        <5>1. \A a \in B[p].chain : a \in 0..(n - 1)
          BY <4>1, ChainFacts
        <5> HIDE DEF p, Up
        <5>2. B[b].chain = B[p].chain \cup {b} /\ B[b].height = B[p].height + 1
          BY <4>1, <1>2 DEF p
        <5> QED BY <2>1, <4>1, <5>1, <5>2, <1>1
      <4> HIDE DEF p
      <4> TAKE a \in B[b].chain
      <4> HAVE a # b
      <4>3. a \in B[p].chain
        BY <4>2
      <4>4. B[a].height <= B[p].height /\ B[a].height \in Nat
        BY <4>2, <4>3
      <4> QED BY <4>2, <4>4
    <3> QED BY <3>1, <3>2
  <2> HIDE DEF Up
  <2> QED BY <2>1, <2>2
<1>6. P = Nat
  <2>1. P \in SUBSET Nat
    OBVIOUS
  <2> HIDE DEF P
  <2> QED BY <2>1, <1>4, <1>5, NatSubset
<1>7. ASSUME NEW b \in 0..(n - 1) PROVE Up(b)
  <2>1. b \in Nat /\ b <= b
    BY <1>1
  <2>2. b \in P
    <3> HIDE DEF P
    <3> QED BY <2>1, <1>6
  <2> HIDE DEF Up
  <2> QED BY <2>1, <2>2
<1> QED BY <1>7

\* The pivot has one block of each height, from genesis to the tip.
LEMMA PivotLevels ==
    ASSUME NEW B, NEW n, TableOK(B, n), Counted(B, n), NEW g, GraphOK(B, n, g), 0 \in g.ledger
    PROVE  /\ MaxEpoch(B, g) \in Nat /\ PivotAt(B, g, 0) = 0
           /\ \A h \in 0..MaxEpoch(B, g) : PivotAt(B, g, h) \in 0..(n - 1) /\ PivotAt(B, g, h) \in g.ledger
           /\ \A h \in 1..MaxEpoch(B, g) : /\ PivotAt(B, g, h) # 0
                                           /\ B[PivotAt(B, g, h)].parent = PivotAt(B, g, h - 1)
<1> DEFINE L == g.ledger
           V == PivotChain(B, g)
           H == MaxEpoch(B, g)
           at(h) == PivotAt(B, g, h)
<1>1. /\ n \in Nat /\ L \subseteq 0..(n - 1) /\ ChainClosed(B, n, L) /\ PivotTipExact(B, g)
      /\ V = PivotOf(B, L, g.maxChild)
  BY TableFacts DEF GraphOK, Consistent, ChainClosed, PivotChain, PivotOf
<1>2. \A b \in 0..(n - 1) : B[b].height \in Nat
  <2>1. B \in [BlockIds -> Block] /\ 0..(n - 1) \subseteq BlockIds
    BY TableFacts DEF TableOK
  <2> QED BY <2>1 DEF Block
<1>3. /\ V \subseteq L /\ 0 \in V /\ g.pivotTip \in V
      /\ \A d \in V : B[d].chain \subseteq V
      /\ \A d, e \in V : d \in B[e].chain \/ e \in B[d].chain
  <2>1. V \subseteq L /\ g.pivotTip \in V
    BY <1>1 DEF PivotOf, PivotTipExact
  <2> QED BY <2>1, <1>1, PivotFacts
<1>4. \A b \in 0..(n - 1) : \A a \in B[b].chain : a # b => B[a].height < B[b].height
  BY HeightsGrow
<1>5. ASSUME NEW d \in V, NEW e \in V, B[d].height = B[e].height PROVE d = e
  <2>1. d \in 0..(n - 1) /\ e \in 0..(n - 1) /\ B[d].height \in Nat /\ B[e].height \in Nat
    BY <1>1, <1>2, <1>3
  <2> HIDE DEF V
  <2> QED BY <2>1, <1>3, <1>4, <1>5
<1>6. \A d \in V : d # 0 => /\ B[d].parent \in V /\ B[d].height = B[B[d].parent].height + 1
                            /\ B[d].height \in Nat /\ B[B[d].parent].height \in Nat
  <2> SUFFICES ASSUME NEW d \in V, d # 0
               PROVE  /\ B[d].parent \in V /\ B[d].height = B[B[d].parent].height + 1
                      /\ B[d].height \in Nat /\ B[B[d].parent].height \in Nat
    OBVIOUS
  <2>1. d \in 0..(n - 1) /\ d \in 1..(n - 1)
    BY <1>1, <1>3
  <2>2. B[d].parent \in B[d].chain /\ B[d].parent \in 0..(n - 1)
    BY <2>1, ChainFacts
  <2> HIDE DEF V
  <2> QED BY <2>1, <2>2, <1>2, <1>3 DEF Counted
<1>7. H \in Nat /\ B[g.pivotTip].height = H /\ B[0].height = 0
  <2>1. g.pivotTip \in 0..(n - 1)
    BY <1>1, <1>3
  <2> QED BY <2>1, <1>2 DEF MaxEpoch, Counted
<1> HIDE DEF V, L, H
<1> DEFINE Q == {k \in Nat : k <= H => \E p \in V : B[p].height = H - k}
<1>8. Q = Nat
  <2>1. 0 \in Q
    BY <1>3, <1>7
  <2>2. ASSUME NEW k \in Q PROVE k + 1 \in Q
    <3> SUFFICES ASSUME k + 1 <= H PROVE \E p \in V : B[p].height = H - (k + 1)
      OBVIOUS
    <3>1. k \in Nat /\ k <= H
      BY <1>7
    <3>2. PICK p \in V : B[p].height = H - k
      BY <3>1
    <3>3. p # 0
      BY <3>1, <3>2, <1>7
    <3>4. B[p].parent \in V /\ B[p].height = B[B[p].parent].height + 1 /\ B[B[p].parent].height \in Nat
      BY <3>3, <1>6
    <3>5. B[B[p].parent].height = H - (k + 1)
      BY <3>1, <3>2, <3>4, <1>7
    <3> QED BY <3>4, <3>5
  <2>3. Q \in SUBSET Nat
    OBVIOUS
  <2> HIDE DEF Q
  <2> QED BY <2>1, <2>2, <2>3, NatSubset
<1>9. ASSUME NEW h \in 0..H PROVE at(h) \in V /\ B[at(h)].height = h
  <2>1. H - h \in Q /\ H - h <= H /\ H - (H - h) = h
    <3>1. H - h \in Nat /\ H - h <= H /\ H - (H - h) = h
      BY <1>7
    <3> HIDE DEF Q
    <3> QED BY <3>1, <1>8
  <2>2. \E p \in V : B[p].height = h
    BY <2>1
  <2> QED BY <2>2 DEF PivotAt, V
<1>10. at(0) = 0
  <2>1. 0 \in 0..H
    BY <1>7
  <2>2. at(0) \in V /\ B[at(0)].height = 0
    BY <2>1, <1>9
  <2> HIDE DEF at
  <2> QED BY <2>2, <1>3, <1>5, <1>7
<1>11. ASSUME NEW h \in 1..H PROVE at(h) # 0 /\ B[at(h)].parent = at(h - 1)
  <2>1. h \in 0..H /\ h - 1 \in 0..H /\ h # 0
    BY <1>7
  <2>2. at(h) \in V /\ B[at(h)].height = h /\ at(h - 1) \in V /\ B[at(h - 1)].height = h - 1
    BY <2>1, <1>9
  <2> HIDE DEF at
  <2>3. at(h) # 0
    BY <2>1, <2>2, <1>7
  <2>4. B[at(h)].parent \in V /\ B[B[at(h)].parent].height = h - 1
    <3>1. B[at(h)].height = B[B[at(h)].parent].height + 1 /\ B[B[at(h)].parent].height \in Nat
      BY <2>2, <2>3, <1>6
    <3> QED BY <3>1, <2>2, <2>3, <1>6
  <2> QED BY <2>2, <2>3, <2>4, <1>5
<1>12. \A h \in 0..H : at(h) \in L /\ at(h) \in 0..(n - 1)
  <2> TAKE h \in 0..H
  <2>1. at(h) \in V
    BY <1>9
  <2> HIDE DEF at
  <2> QED BY <2>1, <1>1, <1>3
<1> QED BY <1>7, <1>10, <1>11, <1>12 DEF H, L

\* A block and its ancestors.
UpTo(B, p) == B[p].past \cup {p}

\* The pivot blocks, as far as the proofs below look at them: each one's past
\* begins with the one before it, and they follow each other in the table.
LEMMA PivotPasts ==
    ASSUME NEW B, NEW n, TableOK(B, n), Counted(B, n), NEW g, GraphOK(B, n, g), 0 \in g.ledger
    PROVE  /\ UpTo(B, PivotAt(B, g, 0)) = {0}
           /\ \A h \in 0..MaxEpoch(B, g) : UpTo(B, PivotAt(B, g, h)) \subseteq g.ledger
           /\ \A h \in 1..MaxEpoch(B, g) :
                 /\ UpTo(B, PivotAt(B, g, h - 1)) \subseteq B[PivotAt(B, g, h)].past
                 /\ PivotAt(B, g, h) \notin UpTo(B, PivotAt(B, g, h - 1))
<1> DEFINE H == MaxEpoch(B, g)
           at(h) == PivotAt(B, g, h)
<1>1. /\ H \in Nat /\ at(0) = 0
      /\ \A h \in 0..H : at(h) \in 0..(n - 1) /\ at(h) \in g.ledger
      /\ \A h \in 1..H : at(h) # 0 /\ B[at(h)].parent = at(h - 1)
  BY PivotLevels
<1>2. /\ PastOK(B, n) /\ AncestorClosed(B, g.ledger) /\ g.ledger \in SUBSET (0..(n - 1)) /\ n \in Nat
  BY TableFacts DEF Counted, GraphOK, Consistent
<1>3. /\ \A b \in 0..(n - 1) : B[b].past \subseteq 0..(b - 1) /\ Parents(B, b) \subseteq B[b].past
      /\ \A b \in 0..(n - 1) : \A a \in B[b].past : B[a].past \subseteq B[b].past
      /\ \A b \in g.ledger : B[b].past \subseteq g.ledger
  BY <1>2, PastFacts
<1>4. \A b \in 1..(n - 1) : B[b].parent \in Parents(B, b)
  BY TableFacts
<1> HIDE DEF H, at
<1>5. UpTo(B, at(0)) = {0}
  BY <1>1, <1>2 DEF UpTo, PastOK
<1>6. \A h \in 0..H : UpTo(B, at(h)) \subseteq g.ledger
  BY <1>1, <1>3 DEF UpTo
<1>7. ASSUME NEW h \in 1..H
      PROVE  UpTo(B, at(h - 1)) \subseteq B[at(h)].past /\ at(h) \notin UpTo(B, at(h - 1))
  <2>1. h \in 0..H /\ h - 1 \in 0..H
    BY <1>1
  <2>2. PICK p, q : p = at(h) /\ q = at(h - 1)
    OBVIOUS
  <2>3. p \in 0..(n - 1) /\ p # 0 /\ q \in 0..(n - 1) /\ q = B[p].parent
    BY <1>1, <2>1, <2>2
  <2>4. p \in 1..(n - 1)
    BY <2>3, <1>2
  <2>5. q \in B[p].past
    BY <1>3, <1>4, <2>3, <2>4
  <2>6. B[q].past \subseteq B[p].past /\ B[q].past \subseteq 0..(q - 1) /\ q < p
    <3>1. B[p].past \subseteq 0..(p - 1)
      BY <1>3, <2>3
    <3>2. q < p
      BY <3>1, <2>3, <2>5, <1>2
    <3> QED BY <3>2, <1>3, <2>3, <2>5
  <2>7. p \notin B[q].past
    BY <2>6, <2>3
  <2> QED BY <2>2, <2>3, <2>5, <2>6, <2>7 DEF UpTo
<1> QED BY <1>5, <1>6, <1>7 DEF H, at

\* The work list of getEpochs: the edges lead down.
LEMMA VisitParents ==
    ASSUME NEW B, NEW n, TableOK(B, n), NEW D,
           NEW onto, onto = [x \in BlockIds |-> Parents(B, x) \ D], NEW p \in BlockIds
    PROVE  IsReached(Visit({p}, onto), {p}, onto)
<1>1. \A x \in BlockIds : Parents(B, x) \subseteq 0..(x - 1) /\ 0..(x - 1) \subseteq BlockIds
  <2> TAKE x \in BlockIds
  <2>1. CASE x \in 0..(n - 1)
    BY <2>1, TableFacts, BlockAssumption DEF BlockIds
  <2>2. CASE x \notin 0..(n - 1)
    <3>1. n \in 1..(MaxBlock + 1) /\ EdgesOK(B, n)
      BY DEF TableOK
    <3>2. x \in n..MaxBlock
      BY <2>2, <3>1, BlockAssumption DEF BlockIds
    <3>3. Parents(B, x) = {}
      BY <3>1, <3>2 DEF EdgesOK, Parents, IsGenesis
    <3> QED BY <3>3, BlockAssumption DEF BlockIds
  <2> QED BY <2>1, <2>2
<1> DEFINE rank == [x \in BlockIds |-> x]
<1>2. /\ onto \in [BlockIds -> SUBSET BlockIds] /\ rank \in [BlockIds -> BlockIds]
      /\ \A x \in BlockIds : onto[x] = Parents(B, x) \ D
  BY <1>1
<1>3. \A x \in BlockIds : \A y \in onto[x] : rank[y] < rank[x]
  <2> SUFFICES ASSUME NEW x \in BlockIds, NEW y \in onto[x] PROVE rank[y] < rank[x]
    OBVIOUS
  <2>1. y \in 0..(x - 1) /\ y \in BlockIds /\ x \in Int
    BY <1>1, <1>2, BlockAssumption DEF BlockIds
  <2> QED BY <2>1
<1> HIDE DEF rank
<1> QED BY <1>2, <1>3, VisitReaches

\* A pivot block gives its epoch to what it has in its past and the pivot
\* block before it has not.
LEMMA EpochIs ==
    ASSUME NEW B, NEW n, TableOK(B, n), Counted(B, n), NEW g, GraphOK(B, n, g), 0 \in g.ledger,
           NEW h \in 1..MaxEpoch(B, g)
    PROVE  Visit({PivotAt(B, g, h)},
                 [x \in BlockIds |-> Parents(B, x) \ UpTo(B, PivotAt(B, g, h - 1))])
             = UpTo(B, PivotAt(B, g, h)) \ UpTo(B, PivotAt(B, g, h - 1))
<1>1. PICK p, q, D : p = PivotAt(B, g, h) /\ q = PivotAt(B, g, h - 1) /\ D = UpTo(B, q)
  OBVIOUS
<1> DEFINE onto == [x \in BlockIds |-> Parents(B, x) \ D]
           V == Visit({p}, onto)
<1>2. /\ p \in 0..(n - 1) /\ p \in BlockIds /\ 0..(n - 1) \subseteq BlockIds
      /\ D \subseteq B[p].past /\ p \notin D /\ D \subseteq g.ledger /\ q \in 0..(n - 1)
  <2>1. MaxEpoch(B, g) \in Nat /\ h \in 0..MaxEpoch(B, g) /\ h - 1 \in 0..MaxEpoch(B, g)
    BY PivotLevels
  <2> QED BY <1>1, <2>1, PivotLevels, PivotPasts, TableFacts
<1>3. /\ PastOK(B, n) /\ n \in Nat
      /\ \A b \in 0..(n - 1) : B[b].past \subseteq 0..(b - 1) /\ Parents(B, b) \subseteq B[b].past
      /\ \A b \in 0..(n - 1) : \A a \in B[b].past : B[a].past \subseteq B[b].past
      /\ \A K \in SUBSET (0..(n - 1)) :
            AncestorClosed(B, K) => \A b \in K : B[b].past \subseteq K
  BY PastFacts, TableFacts DEF Counted
<1>4. /\ p \in V /\ V \subseteq BlockIds
      /\ \A x \in V : Parents(B, x) \ D \subseteq V
      /\ \A T : p \in T /\ (\A x \in T \cap BlockIds : Parents(B, x) \ D \subseteq T) => V \subseteq T
  <2>1. \A x \in BlockIds : onto[x] = Parents(B, x) \ D
    OBVIOUS
  <2>2. IsReached(V, {p}, onto)
    BY <1>2, VisitParents
  <2> HIDE DEF onto, V
  <2> QED BY <2>1, <2>2 DEF IsReached
<1> HIDE DEF V, onto
<1>5. V \subseteq UpTo(B, p) \ D
  <2> DEFINE T == UpTo(B, p) \ D
  <2>1. p \in T
    BY <1>2 DEF UpTo
  <2>2. ASSUME NEW x \in T PROVE Parents(B, x) \ D \subseteq T
    <3>1. x = p \/ x \in B[p].past
      BY DEF UpTo
    <3>2. x \in 0..(n - 1)
      <4>1. B[p].past \subseteq 0..(p - 1)
        BY <1>2, <1>3
      <4> QED BY <3>1, <4>1, <1>2, <1>3
    <3>3. Parents(B, x) \subseteq B[p].past
      <4>1. Parents(B, x) \subseteq B[x].past
        BY <1>3, <3>2
      <4>2. B[x].past \subseteq B[p].past
        BY <1>2, <1>3, <3>1
      <4> QED BY <4>1, <4>2
    <3> QED BY <3>3 DEF UpTo
  <2> HIDE DEF T
  <2>3. V \subseteq T
    BY <2>1, <2>2, <1>4
  <2> QED BY <2>3 DEF T
<1>6. UpTo(B, p) \subseteq V \cup D
  <2> DEFINE K == (V \cup D) \cap (0..(n - 1))
  <2>1. AncestorClosed(B, K)
    <3> SUFFICES ASSUME NEW x \in K PROVE Parents(B, x) \subseteq K
      BY DEF AncestorClosed
    <3>1. Parents(B, x) \subseteq 0..(n - 1)
      <4>1. Parents(B, x) \subseteq 0..(x - 1)
        BY TableFacts
      <4> QED BY <4>1, <1>3
    <3>2. CASE x \in V
      BY <3>1, <3>2, <1>4
    <3>3. CASE x \in D
      <4>1. Parents(B, x) \subseteq B[x].past
        BY <1>3
      <4>2. B[x].past \subseteq B[q].past
        BY <1>1, <1>2, <1>3, <3>3 DEF UpTo
      <4>3. B[q].past \subseteq D
        BY <1>1 DEF UpTo
      <4> QED BY <3>1, <4>1, <4>2, <4>3
    <3> QED BY <3>2, <3>3
  <2>2. K \in SUBSET (0..(n - 1)) /\ p \in K
    BY <1>2, <1>4
  <2>3. B[p].past \subseteq K
    <3> HIDE DEF K
    <3> QED BY <2>1, <2>2, <1>3
  <2> QED BY <2>2, <2>3 DEF UpTo
<1>7. V = UpTo(B, p) \ D
  BY <1>5, <1>6
<1> QED BY <1>1, <1>7 DEF V, onto

\* What getEpochs has found after the pivot block of height h: the past of
\* that block, divided.
Divided(B, g, h, e) ==
    /\ DOMAIN e = UpTo(B, PivotAt(B, g, h))
    /\ \A b \in DOMAIN e : e[b] \in 0..h
    /\ \A k \in 0..h : {b \in DOMAIN e : e[b] <= k} = UpTo(B, PivotAt(B, g, k))

\* Each round of getEpochs adds one epoch.
LEMMA EpochsDivide ==
    ASSUME NEW B, NEW n, TableOK(B, n), Counted(B, n), NEW g, GraphOK(B, n, g), 0 \in g.ledger
    PROVE  Divided(B, g, MaxEpoch(B, g), GetEpochs(B, g))
<1> DEFINE H == MaxEpoch(B, g)
           at(h) == PivotAt(B, g, h)
           Onto(e) == [x \in BlockIds |-> Parents(B, x) \ DOMAIN e]
           F(h, e) == GiveEpoch(e, Visit({at(h)}, Onto(e)), h)
           start == [x \in {0} |-> 0]
           Rounds(f) == f = [h \in 0..H |-> IF h = 0 THEN start ELSE F(h, f[h - 1])]
           epochs == CHOOSE f : Rounds(f)
           V == UNION {[D -> Nat] : D \in SUBSET BlockIds}
           step == [w \in Nat \X V |-> IF w[1] \in 0..H THEN F(w[1], w[2]) ELSE w[2]]
<1>1. GetEpochs(B, g) = epochs[H]
  BY DEF GetEpochs
<1>2. H \in Nat /\ 0..(n - 1) \subseteq BlockIds /\ \A h \in 0..H : at(h) \in BlockIds
  BY PivotLevels, TableFacts
<1> HIDE DEF H, at
<1>3. ASSUME NEW h \in 0..H, NEW e \in V PROVE F(h, e) \in V
  <2>1. PICK D \in SUBSET BlockIds : e \in [D -> Nat]
    OBVIOUS
  <2> DEFINE W == Visit({at(h)}, Onto(e))
  <2>2. W \subseteq BlockIds
    <3>1. IsReached(W, {at(h)}, Onto(e))
      BY <1>2, VisitParents
    <3> HIDE DEF W
    <3> QED BY <3>1 DEF IsReached
  <2> HIDE DEF W
  <2>3. GiveEpoch(e, W, h) \in [D \cup W -> Nat]
    BY <2>1, <1>2 DEF GiveEpoch
  <2> QED BY <2>2, <2>3 DEF W
<1>4. Rounds(epochs)
  <2>1. step \in [Nat \X V -> V] /\ start \in V
    <3>1. start \in V
      <4>1. start \in [{0} -> Nat] /\ {0} \in SUBSET BlockIds
        BY BlockAssumption DEF BlockIds
      <4> HIDE DEF start
      <4> QED BY <4>1
    <3>2. step \in [Nat \X V -> V]
      <4> HIDE DEF V, F
      <4> QED BY <1>3
    <3> QED BY <3>1, <3>2
  <2>2. PICK k : IteratesBy(k, V, start, step)
    <3> HIDE DEF V, step, start
    <3> QED BY <2>1, RecursionExists
  <2> DEFINE f == [h \in 0..H |-> k[h]]
  <2>3. ASSUME NEW h \in 0..H PROVE f[h] = IF h = 0 THEN start ELSE F(h, f[h - 1])
    <3>1. CASE h = 0
      BY <2>2, <3>1 DEF IteratesBy
    <3>2. CASE h # 0
      <4>1. h - 1 \in Nat /\ h = h - 1 + 1 /\ h - 1 \in 0..H
        BY <3>2, <1>2
      <4>2. k[h] = step[<<h, k[h - 1]>>] /\ k[h - 1] \in V /\ h \in Nat
        <5> HIDE DEF V, step, start
        <5> QED BY <2>2, <4>1 DEF IteratesBy
      <4> HIDE DEF V, F
      <4>3. k[h] = F(h, k[h - 1])
        BY <4>2
      <4> QED BY <3>2, <4>1, <4>3
    <3> QED BY <3>1, <3>2
  <2>4. Rounds(f)
    <3> HIDE DEF V, step, F, start
    <3> QED BY <2>3
  <2> HIDE DEF Rounds
  <2> QED BY <2>4
<1>5. \A h \in 0..H : epochs[h] = IF h = 0 THEN start ELSE F(h, epochs[h - 1])
  <2> HIDE DEF epochs, F, start
  <2> QED BY <1>4
<1> HIDE DEF epochs, step, V, Rounds
<1> DEFINE P == {h \in Nat : h <= H => Divided(B, g, h, epochs[h])}
<1>6. 0 \in P
  <2>1. epochs[0] = start
    <3>1. 0 \in 0..H
      BY <1>2
    <3> HIDE DEF F, start
    <3> QED BY <1>5, <3>1
  <2>2. UpTo(B, at(0)) = {0}
    BY PivotPasts DEF at
  <2>3. DOMAIN start = {0} /\ start[0] = 0
    OBVIOUS
  <2> HIDE DEF start
  <2>4. Divided(B, g, 0, start)
    BY <2>2, <2>3 DEF Divided, at
  <2> QED BY <2>1, <2>4
<1>7. ASSUME NEW h0 \in P PROVE h0 + 1 \in P
  <2> SUFFICES ASSUME h0 + 1 <= H PROVE Divided(B, g, h0 + 1, epochs[h0 + 1])
    OBVIOUS
  <2>1. PICK h, e, E, D : h = h0 + 1 /\ e = epochs[h0] /\ E = epochs[h] /\ D = UpTo(B, at(h0))
    OBVIOUS
  <2>2. /\ h \in 1..H /\ h \in 0..H /\ h # 0 /\ h - 1 = h0 /\ h0 \in 0..H /\ h0 < h
        /\ Divided(B, g, h0, e)
    BY <1>2, <2>1
  <2>3. E = F(h, e)
    <3> HIDE DEF F, start
    <3> QED BY <1>5, <2>1, <2>2
  <2>4. /\ DOMAIN e = D /\ (\A b \in D : e[b] \in 0..h0)
        /\ \A k \in 0..h0 : {b \in D : e[b] <= k} = UpTo(B, at(k))
    BY <2>1, <2>2 DEF Divided, at
  <2>5. Visit({at(h)}, Onto(e)) = UpTo(B, at(h)) \ D
    <3>1. h \in 1..MaxEpoch(B, g) /\ h - 1 = h0 /\ D = UpTo(B, PivotAt(B, g, h - 1)) /\ DOMAIN e = D
      BY <2>1, <2>2, <2>4 DEF H, at
    <3>2. Visit({PivotAt(B, g, h)}, [x \in BlockIds |-> Parents(B, x) \ UpTo(B, PivotAt(B, g, h - 1))])
            = UpTo(B, PivotAt(B, g, h)) \ UpTo(B, PivotAt(B, g, h - 1))
      BY <3>1, EpochIs
    <3> QED BY <3>1, <3>2 DEF at
  <2>6. D \subseteq UpTo(B, at(h))
    BY <2>1, <2>2, PivotPasts DEF H, at, UpTo
  <2>7. /\ DOMAIN E = UpTo(B, at(h))
        /\ \A b \in UpTo(B, at(h)) : E[b] = IF b \in D THEN e[b] ELSE h
    <3>1. PICK W : W = Visit({at(h)}, Onto(e))
      OBVIOUS
    <3>2. E = [x \in D \cup W |-> IF x \in D THEN e[x] ELSE h]
      BY <2>3, <2>4, <3>1 DEF GiveEpoch
    <3>3. D \cup W = UpTo(B, at(h))
      BY <2>5, <2>6, <3>1
    <3> QED BY <3>2, <3>3
  <2>8. \A b \in DOMAIN E : E[b] \in 0..h
    <3> TAKE b \in DOMAIN E
    <3>1. CASE b \in D
      <4>1. E[b] \in 0..h0
        BY <2>4, <2>7, <3>1
      <4> QED BY <4>1, <2>2
    <3>2. CASE b \notin D
      BY <2>2, <2>7, <3>2
    <3> QED BY <3>1, <3>2
  <2>9. ASSUME NEW k \in 0..h PROVE {b \in DOMAIN E : E[b] <= k} = UpTo(B, at(k))
    <3>1. CASE k = h
      <4>1. \A b \in DOMAIN E : E[b] <= k
        BY <2>8, <3>1, <2>2
      <4> QED BY <4>1, <2>7, <3>1
    <3>2. CASE k # h
      <4>1. k \in 0..h0 /\ k < h
        BY <2>2, <3>2
      <4>2. \A b \in UpTo(B, at(h)) : E[b] <= k <=> b \in D /\ e[b] <= k
        <5> TAKE b \in UpTo(B, at(h))
        <5>1. CASE b \in D
          BY <2>7, <5>1
        <5>2. CASE b \notin D
          BY <2>7, <5>2, <2>2, <4>1
        <5> QED BY <5>1, <5>2
      <4>3. {b \in DOMAIN E : E[b] <= k} = {b \in D : e[b] <= k}
        BY <4>2, <2>6, <2>7
      <4> QED BY <4>1, <4>3, <2>4
    <3> QED BY <3>1, <3>2
  <2>10. Divided(B, g, h, E)
    BY <2>7, <2>8, <2>9 DEF Divided, at
  <2> QED BY <2>1, <2>10
<1>8. P = Nat
  <2>1. P \in SUBSET Nat
    OBVIOUS
  <2> HIDE DEF P
  <2> QED BY <2>1, <1>6, <1>7, NatSubset
<1>9. H \in P /\ H <= H
  BY <1>2, <1>8
<1>10. Divided(B, g, H, epochs[H])
  BY <1>9
<1>11. GetEpochs(B, g) = epochs[H]
  BY <1>1 DEF epochs, Rounds, F, Onto, at, start, H
<1> QED BY <1>10, <1>11 DEF H

\* ancestorNum of a block counts its past, so one more is the block with it.
LEMMA UpToCounted ==
    ASSUME NEW B, NEW n, TableOK(B, n), Counted(B, n), NEW b \in 0..(n - 1)
    PROVE  /\ IsFiniteSet(UpTo(B, b)) /\ b \notin B[b].past
           /\ B[b].ancestorNum = Cardinality(B[b].past)
           /\ B[b].ancestorNum + 1 = Cardinality(UpTo(B, b))
<1>1. B[b].past \subseteq 0..(b - 1) /\ B[b].ancestorNum = Cardinality(B[b].past) /\ b \in Int
  BY PastFacts, TableFacts DEF Counted
<1>2. IsFiniteSet(0..(b - 1))
  BY <1>1, FS_Interval
<1>3. IsFiniteSet(B[b].past) /\ b \notin B[b].past
  BY <1>1, <1>2, FS_Subset
<1>4. IsFiniteSet(UpTo(B, b)) /\ Cardinality(UpTo(B, b)) = Cardinality(B[b].past) + 1
  BY <1>3, FS_AddElement DEF UpTo
<1> QED BY <1>1, <1>3, <1>4

\* The epochs divide the past of the pivot tip as EpochsExact says, and the
\* weight countAnti takes of a pivot block counts the blocks up to it.
THEOREM EpochsAreExact == Spec => []EpochsExact
<1>1. IInv => EpochsExact
  <2> SUFFICES ASSUME IInv, HasGenesis PROVE EpochsExact
    BY DEF EpochsExact
  <2>1. PICK B, n, g, E : B = blocks /\ n = generated /\ g = graph /\ E = GetEpochs(B, g)
    OBVIOUS
  <2>2. TableOK(B, n) /\ Counted(B, n) /\ GraphOK(B, n, g) /\ 0 \in g.ledger
    BY <2>1 DEF IInv, HasGenesis
  <2>3. Divided(B, g, MaxEpoch(B, g), E)
    BY <2>1, <2>2, EpochsDivide
  <2>4. ASSUME NEW h \in 0..MaxEpoch(B, g)
        PROVE  LET p == PivotAt(B, g, h) IN
               /\ {b \in DOMAIN E : E[b] <= h} = B[p].past \cup {p}
               /\ PivotWeight(B, g, h) = Cardinality({b \in DOMAIN E : E[b] <= h})
    <3>1. PICK p : p = PivotAt(B, g, h)
      OBVIOUS
    <3>2. p \in 0..(n - 1)
      BY <2>2, <3>1, PivotLevels
    <3>3. {b \in DOMAIN E : E[b] <= h} = UpTo(B, p)
      BY <2>3, <3>1 DEF Divided
    <3>4. B[p].ancestorNum + 1 = Cardinality(UpTo(B, p))
      BY <2>2, <3>2, UpToCounted
    <3> QED BY <3>1, <3>3, <3>4 DEF PivotWeight, UpTo
  <2> QED BY <2>1, <2>4 DEF EpochsExact
<1> QED BY <1>1, Inductive, PTL

\* Block b and those of U that have it in their past.
After(B, U, b) == {d \in U : d = b \/ b \in B[d].past}

\* What countAnti counts as descendants of b are the blocks that have b in
\* their past, among those up to the pivot block p.
LEMMA DescendantsAre ==
    ASSUME NEW B, NEW n, TableOK(B, n), Counted(B, n), NEW g, GraphOK(B, n, g),
           NEW p \in g.ledger, NEW b \in UpTo(B, p),
           NEW onto, onto = [x \in BlockIds |-> AllChildren(B, g, x) \cap UpTo(B, p)]
    PROVE  Visit({b}, onto) = After(B, UpTo(B, p), b)
<1>1. /\ n \in Nat /\ 0..(n - 1) \subseteq BlockIds /\ g.ledger \in SUBSET (0..(n - 1)) /\ PastOK(B, n)
      /\ AncestorClosed(B, g.ledger) /\ EdgesOK(B, n)
  BY TableFacts DEF TableOK, GraphOK, Consistent, Counted
<1>2. /\ \A d \in 0..(n - 1) : B[d].past \subseteq 0..(d - 1) /\ Parents(B, d) \subseteq B[d].past
      /\ \A d \in 0..(n - 1) : \A a \in B[d].past : B[a].past \subseteq B[d].past
      /\ \A d \in g.ledger : B[d].past \subseteq g.ledger
  BY <1>1, PastFacts
<1> DEFINE U == UpTo(B, p)
           T == {d \in U : d = b \/ b \in B[d].past}
           V == Visit({b}, onto)
           rank == [x \in BlockIds |-> MaxBlock - x]
<1>3. U \subseteq g.ledger /\ U \subseteq 0..(n - 1) /\ b \in U /\ b \in BlockIds
  BY <1>1, <1>2 DEF UpTo
<1>4. /\ onto \in [BlockIds -> SUBSET BlockIds]
      /\ \A x \in BlockIds : onto[x] = {d \in U : x \in Parents(B, d)}
  BY <1>1, <1>3 DEF AllChildren
<1>5. IsReached(V, {b}, onto)
  <2>1. rank \in [BlockIds -> BlockIds]
    BY BlockAssumption DEF BlockIds
  <2>2. ASSUME NEW x \in BlockIds, NEW y \in onto[x] PROVE rank[y] < rank[x]
    <3>1. y \in 0..(n - 1) /\ x \in Parents(B, y) /\ y \in BlockIds
      BY <1>1, <1>3, <1>4
    <3>2. x \in 0..(y - 1)
      BY <1>2, <3>1
    <3> QED BY <3>1, <3>2, BlockAssumption DEF BlockIds
  <2> HIDE DEF rank
  <2> QED BY <1>3, <1>4, <2>1, <2>2, VisitReaches
<1>6. /\ b \in V /\ V \subseteq BlockIds /\ \A x \in V : onto[x] \subseteq V
      /\ \A K : b \in K /\ (\A x \in K \cap BlockIds : onto[x] \subseteq K) => V \subseteq K
  <2> HIDE DEF V
  <2> QED BY <1>5 DEF IsReached
<1> HIDE DEF U, V, rank
<1>7. V \subseteq T
  <2>1. ASSUME NEW x \in T, x \in BlockIds PROVE onto[x] \subseteq T
    <3> SUFFICES ASSUME NEW d \in onto[x] PROVE d \in T
      OBVIOUS
    <3>1. d \in U /\ d \in 0..(n - 1) /\ x \in Parents(B, d)
      BY <1>3, <1>4, <2>1
    <3>2. x \in B[d].past
      BY <1>2, <3>1
    <3>3. b \in B[d].past
      BY <1>2, <3>1, <3>2
    <3> QED BY <3>1, <3>3
  <2>2. b \in T
    BY <1>3
  <2> HIDE DEF T
  <2> QED BY <1>6, <2>1, <2>2
<1>8. T \subseteq V
  <2> SUFFICES ASSUME T \ V # {} PROVE FALSE
    OBVIOUS
  <2>1. T \ V \in SUBSET Nat
    <3>1. T \subseteq U
      OBVIOUS
    <3> HIDE DEF T
    <3>2. T \ V \subseteq 0..(n - 1)
      BY <1>3, <3>1
    <3>3. 0..(n - 1) \subseteq Nat
      OBVIOUS
    <3> QED BY <3>2, <3>3
  <2>2. PICK d \in T \ V : \A x \in T \ V : d <= x
    <3> HIDE DEF T
    <3> QED BY <2>1, MinExists
  <2>3. d \in U /\ d # b /\ b \in B[d].past /\ d \in 0..(n - 1) /\ d \in Nat
    BY <1>1, <1>3, <1>6, <2>2
  <2>4. d # 0 /\ d \in 1..(n - 1)
    <3>1. B[0].past = {}
      BY <1>1 DEF PastOK
    <3>2. d # 0
      BY <2>3, <3>1
    <3> QED BY <2>3, <3>2, <1>1
  <2>5. PICK x \in Parents(B, d) : b = x \/ b \in B[x].past
    <3>1. B[d].past = PastOf(B, B[d].parent, B[d].references)
      BY <1>1, <2>4 DEF PastOK
    <3>2. B[d].parent # -1
      BY <1>1, <2>4 DEF EdgesOK
    <3>3. Parents(B, d) = B[d].references \cup {B[d].parent}
      BY <3>2 DEF Parents, IsGenesis
    <3> QED BY <2>3, <3>1, <3>3 DEF PastOf
  <2>6. x \in 0..(d - 1) /\ x \in B[d].past
    BY <1>2, <2>3, <2>5
  <2>7. x \in U
    <3>1. d = p \/ d \in B[p].past
      BY <2>3 DEF U, UpTo
    <3>2. B[d].past \subseteq B[p].past
      BY <1>1, <1>2, <3>1
    <3> QED BY <2>6, <3>2 DEF U, UpTo
  <2>8. x \in V
    <3>1. x \in T
      BY <2>5, <2>7
    <3>2. x < d /\ ~ (d <= x)
      BY <2>3, <2>6
    <3> HIDE DEF T
    <3> QED BY <2>2, <3>1, <3>2
  <2>9. d \in onto[x]
    BY <1>4, <1>6, <2>3, <2>5, <2>8
  <2> QED BY <1>6, <2>2, <2>8, <2>9
<1> QED BY <1>7, <1>8 DEF U, V, After

\* countAnti returns the size of the antiset, and so never a negative number:
\* its log.Fatal is not reached.
THEOREM AntisetsAreExact == Spec => []AntisetExact
<1>1. IInv => AntisetExact
  <2> SUFFICES ASSUME IInv, HasGenesis, NEW c \in 0..MaxBlock,
                      NEW b \in DOMAIN CountAnti(blocks, graph, c)
               PROVE  CountAnti(blocks, graph, c)[b]
                        = Cardinality(Antiset(b, PivotAt(blocks, graph, GetEpochs(blocks, graph)[b] + c)))
    BY DEF AntisetExact
  <2>1. PICK B, n, g, E, end, p :
          /\ B = blocks /\ n = generated /\ g = graph /\ E = GetEpochs(B, g)
          /\ end = E[b] + c /\ p = PivotAt(B, g, end)
    OBVIOUS
  <2>2. TableOK(B, n) /\ Counted(B, n) /\ GraphOK(B, n, g) /\ 0 \in g.ledger
    BY <2>1 DEF IInv, HasGenesis
  <2>3. Divided(B, g, MaxEpoch(B, g), E)
    BY <2>1, <2>2, EpochsDivide
  <2>4. b \in DOMAIN E /\ end <= MaxEpoch(B, g)
    BY <2>1 DEF CountAnti
  <2>5. end \in 0..MaxEpoch(B, g) /\ E[b] <= end /\ E[b] \in Nat
    <3>1. E[b] \in 0..MaxEpoch(B, g) /\ MaxEpoch(B, g) \in Nat
      BY <2>2, <2>3, <2>4, PivotLevels DEF Divided
    <3> QED BY <2>1, <2>4, <3>1
  <2>6. p \in 0..(n - 1) /\ p \in g.ledger
    BY <2>1, <2>2, <2>5, PivotLevels
  <2> DEFINE U == UpTo(B, p)
             D == Descendants(B, g, E, b, end)
             past == B[b].past
             A == Antiset(b, p)
  <2>7. {x \in DOMAIN E : E[x] <= end} = U /\ b \in U
    BY <2>1, <2>3, <2>4, <2>5 DEF Divided
  <2>8. D = {d \in U : d = b \/ b \in B[d].past}
    <3>0. PICK onto : onto = [x \in BlockIds |-> AllChildren(B, g, x) \cap U]
      OBVIOUS
    <3>1. \A x \in BlockIds :
            {d \in AllChildren(B, g, x) \cap DOMAIN E : E[d] <= end} = AllChildren(B, g, x) \cap U
      BY <2>7
    <3>2. D = Visit({b}, onto)
      <4> HIDE DEF U
      <4> QED BY <3>0, <3>1 DEF Descendants
    <3>3. Visit({b}, onto) = After(B, U, b)
      BY <3>0, <2>2, <2>6, <2>7, DescendantsAre
    <3> HIDE DEF D
    <3> QED BY <3>2, <3>3 DEF After
  <2>9. /\ B[p].ancestorNum + 1 = Cardinality(U) /\ IsFiniteSet(U)
        /\ B[b].ancestorNum = Cardinality(past)
    <3>1. U \subseteq 0..(n - 1) /\ b \in 0..(n - 1)
      <4>1. B[p].past \subseteq 0..(p - 1) /\ n \in Nat
        BY <2>2, <2>6, PastFacts, TableFacts DEF Counted
      <4>2. U \subseteq 0..(n - 1)
        BY <4>1, <2>6 DEF UpTo
      <4> QED BY <2>7, <4>2
    <3> QED BY <2>2, <2>6, <3>1, UpToCounted
  <2>10. CountAnti(B, g, c)[b] = Cardinality(U) - (Cardinality(past) + Cardinality(D))
    <3>1. CountAnti(B, g, c)[b] = PivotWeight(B, g, end) - (B[b].ancestorNum + Cardinality(D))
      BY <2>1 DEF CountAnti
    <3>2. PivotWeight(B, g, end) = Cardinality(U)
      BY <2>1, <2>9 DEF PivotWeight
    <3> QED BY <3>1, <3>2, <2>9
  <2>11. past \subseteq U /\ past \cap D = {}
    <3>1. PastOK(B, n) /\ n \in Nat
      BY <2>2, TableFacts DEF Counted
    <3>2. /\ \A d \in 0..(n - 1) : B[d].past \subseteq 0..(d - 1)
          /\ \A d \in 0..(n - 1) : \A a \in B[d].past : B[a].past \subseteq B[d].past
      BY <2>2, <3>1, PastFacts
    <3>3. b \in 0..(n - 1)
      <4>1. B[p].past \subseteq 0..(p - 1)
        BY <2>6, <3>2
      <4> QED BY <2>6, <2>7, <3>1, <4>1 DEF UpTo
    <3>4. past \subseteq U
      BY <2>6, <2>7, <3>2 DEF UpTo
    <3>5. ASSUME NEW d \in past, b \in B[d].past PROVE FALSE
      <4>1. d \in 0..(b - 1) /\ d \in 0..(n - 1)
        BY <3>1, <3>2, <3>3
      <4>2. b \in 0..(d - 1)
        BY <3>2, <3>5, <4>1
      <4> QED BY <4>1, <4>2
    <3>6. b \notin past
      BY <3>2, <3>3
    <3> QED BY <2>8, <3>4, <3>5, <3>6
  <2>12. A = (U \ past) \ D
    BY <2>1, <2>8 DEF Antiset, UpTo
  <2>13. Cardinality(A) = Cardinality(U) - (Cardinality(past) + Cardinality(D))
    <3>1. D \subseteq U /\ IsFiniteSet(D) /\ IsFiniteSet(past) /\ IsFiniteSet(U \ past) /\ D \subseteq U \ past
      <4>1. D \subseteq U
        BY <2>8
      <4> QED BY <4>1, <2>9, <2>11, FS_Subset
    <3> HIDE DEF U, D, past, A
    <3>2. Cardinality(U \ past) = Cardinality(U) - Cardinality(U \cap past)
      BY <2>9, <3>1, FS_Difference
    <3>3. U \cap past = past /\ (U \ past) \cap D = D
      BY <2>11, <3>1
    <3>4. Cardinality((U \ past) \ D) = Cardinality(U \ past) - Cardinality((U \ past) \cap D)
      BY <3>1, FS_Difference
    <3>5. Cardinality(U) \in Nat /\ Cardinality(past) \in Nat /\ Cardinality(D) \in Nat
      BY <2>9, <3>1, FS_CardinalityType
    <3>6. Cardinality(U \ past) = Cardinality(U) - Cardinality(past)
      BY <3>2, <3>3
    <3>7. Cardinality(A) = Cardinality(U \ past) - Cardinality(D)
      BY <3>3, <3>4, <2>12
    <3> QED BY <3>5, <3>6, <3>7
  <2> HIDE DEF U, D, past, A
  <2>14. CountAnti(B, g, c)[b] = Cardinality(A)
    BY <2>10, <2>13
  <2> QED BY <2>1, <2>14 DEF A
<1> QED BY <1>1, Inductive, PTL

-----------------------------------------------------------------------------
(***************************************************************************)
(* OpenMiner: the same graph under the handlers of an honest miner.  The   *)
(* graph is consistent and the blocks sent are those that have entered it, *)
(* in that order; what makes the cache part inductive is that a cached     *)
(* block has been delivered, so that under the condition of                *)
(* CacheDrainedOnce no cached block comes again.                           *)
(***************************************************************************)
Once == \A b \in BlockIds : deliveries[b] <= 1

\* The inductive invariant of OpenMiner.
OpenInv ==
    /\ TableOK(blocks, generated)
    /\ MinerOK(blocks, generated, graph, cache)
    /\ sent \in Seq(0..(generated - 1)) /\ Entered(blocks, {}, sent, graph.ledger)
    /\ deliveries \in [BlockIds -> Nat] /\ (\A b \in ToSet(cache) : deliveries[b] > 0)
    /\ NothingLost
    /\ Once => Clear(blocks, graph, cache)

-----------------------------------------------------------------------------
\* What the steps that generate a block do.
LEMMA OpenSteps ==
    /\ OpenInit => /\ blocks = GenesisTable /\ generated = 1 /\ graph = NewLocalGraph
               /\ cache = <<>> /\ sent = <<>> /\ deliveries = [b \in BlockIds |-> 0]
    /\ OpenElsewhere =>
         /\ generated <= MaxBlock /\ generated' = generated + 1
         /\ UNCHANGED <<graph, cache, sent, deliveries>>
         /\ \E m \in Miners, r \in 0..MaxResidual, p \in 0..(generated - 1) :
               \E refs \in SUBSET (0..(generated - 1)) :
                  blocks' = LinkBlock(MineBlock(blocks, generated, m, r), generated, p, refs,
                                      Cardinality(PastOf(blocks, p, refs)))
    /\ OpenGenerate =>
         /\ generated <= MaxBlock /\ generated' = generated + 1 /\ Genesis \in graph.ledger
         /\ graph' = Insert(blocks', graph, generated)
         /\ sent' = Append(sent, generated) /\ UNCHANGED <<cache, deliveries>>
         /\ \E r \in 0..MaxResidual :
               blocks' = FillNewBlock(MineBlock(blocks, generated, Owner, r), graph, generated)
<1>1. OpenInit => /\ blocks = GenesisTable /\ generated = 1 /\ graph = NewLocalGraph
                  /\ cache = <<>> /\ sent = <<>> /\ deliveries = [b \in BlockIds |-> 0]
  BY DEF OpenInit, Init
<1>2. ASSUME OpenElsewhere
      PROVE  /\ generated <= MaxBlock /\ generated' = generated + 1
             /\ UNCHANGED <<graph, cache, sent, deliveries>>
             /\ \E m \in Miners, r \in 0..MaxResidual, p \in 0..(generated - 1) :
                   \E refs \in SUBSET (0..(generated - 1)) :
                      blocks' = LinkBlock(MineBlock(blocks, generated, m, r), generated, p, refs,
                                          Cardinality(PastOf(blocks, p, refs)))
  BY <1>2 DEF OpenElsewhere, Elsewhere, MayGenerate
<1>3. ASSUME OpenGenerate
      PROVE  /\ generated <= MaxBlock /\ generated' = generated + 1 /\ Genesis \in graph.ledger
             /\ graph' = Insert(blocks', graph, generated)
             /\ sent' = Append(sent, generated) /\ UNCHANGED <<cache, deliveries>>
             /\ \E r \in 0..MaxResidual :
                   blocks' = FillNewBlock(MineBlock(blocks, generated, Owner, r), graph, generated)
  BY <1>3 DEF OpenGenerate, Generate, MayGenerate
<1> QED BY <1>1, <1>2, <1>3

\* Nothing is in the graph, in the cache or sent.
LEMMA OpenInitially == OpenInit => OpenInv
<1> SUFFICES ASSUME OpenInit PROVE OpenInv
  OBVIOUS
<1>1. /\ blocks = GenesisTable /\ generated = 1 /\ graph = NewLocalGraph
      /\ cache = <<>> /\ sent = <<>> /\ deliveries = [b \in BlockIds |-> 0]
  BY OpenSteps
<1>2. TableOK(blocks, generated) /\ GraphOK(blocks, generated, graph)
  BY <1>1, GenesisTableOK, EmptyGraphOK
<1>3. <<>> \in Seq(0..(generated - 1)) /\ Len(<<>>) = 0 /\ DOMAIN <<>> = {}
  OBVIOUS
<1>4. ToSet(<<>>) = {} /\ IsInjective(<<>>)
  BY <1>3 DEF ToSet, IsInjective
<1>5. graph.ledger = {}
  BY <1>1 DEF NewLocalGraph
<1>6. Entered(blocks, {}, sent, graph.ledger)
  BY <1>1, <1>5, EnteredNone
<1>7. Clear(blocks, graph, cache)
  BY <1>1, <1>3, <1>4 DEF Clear, Drained
<1>8. NothingLost /\ deliveries \in [BlockIds -> Nat]
  BY <1>1 DEF NothingLost
<1> QED BY <1>1, <1>2, <1>3, <1>4, <1>6, <1>7, <1>8 DEF OpenInv, MinerOK

\* Another miner generates a block.
LEMMA OpenElsewhereKeeps == OpenInv /\ OpenElsewhere => OpenInv' /\ Agree(blocks, blocks', generated)
<1> SUFFICES ASSUME OpenInv, OpenElsewhere PROVE OpenInv' /\ Agree(blocks, blocks', generated)
  OBVIOUS
<1>1. /\ generated <= MaxBlock /\ generated' = generated + 1
      /\ UNCHANGED <<graph, cache, sent, deliveries>>
  BY OpenSteps
<1>2. PICK m \in Miners, r \in 0..MaxResidual, p \in 0..(generated - 1) :
         \E refs \in SUBSET (0..(generated - 1)) :
            blocks' = LinkBlock(MineBlock(blocks, generated, m, r), generated, p, refs,
                                Cardinality(PastOf(blocks, p, refs)))
  BY OpenSteps
<1>3. PICK refs \in SUBSET (0..(generated - 1)) :
         blocks' = LinkBlock(MineBlock(blocks, generated, m, r), generated, p, refs,
                             Cardinality(PastOf(blocks, p, refs)))
  BY <1>2
<1>4. TableOK(blocks, generated) /\ generated \in Nat /\ MinerOK(blocks, generated, graph, cache)
      /\ sent \in Seq(0..(generated - 1))
  BY TableFacts DEF OpenInv
<1>5. Cardinality(PastOf(blocks, p, refs)) \in Nat
  BY <1>4, PastIsCounted
<1>6. /\ TableOK(blocks', generated + 1) /\ Agree(blocks, blocks', generated)
      /\ \A g : GraphOK(blocks, generated, g) => GraphOK(blocks', generated + 1, g)
  BY <1>1, <1>3, <1>4, <1>5, NewBlockKeepsGraph
<1>7. MinerOK(blocks', generated + 1, graph, cache)
  BY <1>4, <1>6, MinerStays
<1>8. sent \in Seq(0..(generated + 1 - 1))
  BY <1>4, SeqGrows
<1>9. Entered(blocks', {}, sent, graph.ledger)
  BY <1>4, <1>6, EnteredStays DEF OpenInv
<1>10. cache \in Seq(0..(generated - 1))
  BY <1>4 DEF MinerOK
<1>11. Once => Clear(blocks', graph, cache)
  BY <1>4, <1>6, <1>10, ClearStays DEF OpenInv
<1>12. /\ NothingLost' /\ (Once' <=> Once) /\ deliveries' \in [BlockIds -> Nat]
       /\ \A b \in ToSet(cache') : deliveries'[b] > 0
  BY <1>1 DEF OpenInv, NothingLost, Once
<1>13. graph' = graph /\ cache' = cache /\ sent' = sent
  BY <1>1
<1>14. MinerOK(blocks', generated', graph', cache') /\ Entered(blocks', {}, sent', graph'.ledger)
  BY <1>1, <1>7, <1>9, <1>13
<1>15. Once' => Clear(blocks', graph', cache')
  BY <1>11, <1>12, <1>13
<1>16. sent' \in Seq(0..(generated' - 1))
  BY <1>1, <1>4, <1>8, <1>13
<1>17. TableOK(blocks', generated')
  BY <1>1, <1>6
<1>18. OpenInv'
  BY <1>12, <1>14, <1>15, <1>16, <1>17 DEF OpenInv
<1> QED BY <1>6, <1>18

\* The miner generates a block: it enters the graph and is broadcast.
LEMMA OpenGenerateKeeps ==
    OpenInv /\ OpenGenerate => /\ OpenInv' /\ Agree(blocks, blocks', generated)
                        /\ graph'.ledger = graph.ledger \cup {generated}
<1> SUFFICES ASSUME OpenInv, OpenGenerate
             PROVE  /\ OpenInv' /\ Agree(blocks, blocks', generated)
                    /\ graph'.ledger = graph.ledger \cup {generated}
  OBVIOUS
<1>1. /\ generated <= MaxBlock /\ generated' = generated + 1 /\ Genesis \in graph.ledger
      /\ graph' = Insert(blocks', graph, generated)
      /\ sent' = Append(sent, generated) /\ UNCHANGED <<cache, deliveries>>
  BY OpenSteps
<1>2. PICK r \in 0..MaxResidual :
         blocks' = FillNewBlock(MineBlock(blocks, generated, Owner, r), graph, generated)
  BY OpenSteps
<1>3. /\ TableOK(blocks, generated) /\ generated \in Nat /\ MinerOK(blocks, generated, graph, cache)
      /\ GraphOK(blocks, generated, graph) /\ cache \in Seq(0..(generated - 1))
      /\ sent \in Seq(0..(generated - 1)) /\ Entered(blocks, {}, sent, graph.ledger)
  BY TableFacts DEF OpenInv, MinerOK
<1>4. /\ TableOK(blocks', generated + 1) /\ Agree(blocks, blocks', generated)
      /\ Parents(blocks', generated) \subseteq graph.ledger
      /\ GraphOK(blocks', generated + 1, graph') /\ graph'.ledger = graph.ledger \cup {generated}
  BY <1>1, <1>2, <1>3, OwnerAssumption, OwnBlockKeepsGraph
<1>5. generated \notin graph.ledger
  BY <1>3 DEF GraphOK
<1>6. MinerOK(blocks', generated + 1, graph', cache)
  BY <1>3, <1>4, SeqGrows DEF MinerOK
<1>7. sent \in Seq(0..(generated + 1 - 1)) /\ generated \in 0..(generated + 1 - 1)
  BY <1>3, SeqGrows
<1>8. Entered(blocks', {}, sent, graph.ledger)
  BY <1>3, <1>4, EnteredStays
<1>9. sent' \in Seq(0..(generated + 1 - 1))
  BY <1>1, <1>7, AppendValues
<1>10. Entered(blocks', {}, sent', graph'.ledger)
  BY <1>1, <1>4, <1>5, <1>7, <1>8, EnteredAppend
<1>11. ASSUME Once PROVE Clear(blocks', graph', cache)
  <2>1. Clear(blocks', graph, cache)
    BY <1>3, <1>4, <1>11, ClearStays DEF OpenInv
  <2> QED BY <1>3, <1>4, <2>1, ClearWithNext
<1>12. /\ NothingLost' /\ (Once' <=> Once) /\ deliveries' \in [BlockIds -> Nat]
       /\ \A b \in ToSet(cache') : deliveries'[b] > 0
  BY <1>1, <1>4 DEF OpenInv, NothingLost, Once
<1> QED BY <1>1, <1>4, <1>6, <1>9, <1>10, <1>11, <1>12 DEF OpenInv

\* The miner receives a block.
LEMMA OpenReceiveKeeps ==
    ASSUME NEW b \in BlockIds, OpenInv, OpenReceive(b)
    PROVE  /\ OpenInv'
           /\ graph' = graph \/ b \in graph'.ledger \ graph.ledger
           /\ graph.ledger \subseteq graph'.ledger
<1> DEFINE r == ReceiveBlock(blocks, [graph |-> graph, cache |-> cache], b)
<1>1. /\ b < generated /\ deliveries' = [deliveries EXCEPT ![b] = @ + 1]
      /\ graph' = r.graph /\ cache' = r.cache /\ sent' = sent \o r.relays
      /\ blocks' = blocks /\ generated' = generated
  BY DEF OpenReceive
<1>2. /\ TableOK(blocks, generated) /\ generated \in Nat /\ MinerOK(blocks, generated, graph, cache)
      /\ sent \in Seq(0..(generated - 1)) /\ Entered(blocks, {}, sent, graph.ledger)
      /\ deliveries \in [BlockIds -> Nat] /\ (\A c \in ToSet(cache) : deliveries[c] > 0)
      /\ NothingLost /\ (Once => Clear(blocks, graph, cache))
  BY TableFacts DEF OpenInv
<1>3. b \in 0..(generated - 1)
  BY <1>1, <1>2 DEF BlockIds
<1>4. Received(blocks, generated, graph, cache, b, r)
  <2> DEFINE hm == [graph |-> graph, cache |-> cache]
  <2>1. hm.graph = graph /\ hm.cache = cache
    OBVIOUS
  <2> HIDE DEF hm
  <2>2. Received(blocks, generated, hm.graph, hm.cache, b, ReceiveBlock(blocks, hm, b))
    BY <1>2, <1>3, <2>1, ReceiveBlockOK
  <2> QED BY <2>1, <2>2 DEF hm
<1> HIDE DEF r
<1>5. /\ MinerOK(blocks, generated, r.graph, r.cache) /\ r.relays \in Seq(0..(generated - 1))
      /\ Entered(blocks, graph.ledger, r.relays, r.graph.ledger)
      /\ r.graph.ledger \cup ToSet(r.cache) = graph.ledger \cup ToSet(cache) \cup {b}
      /\ ToSet(r.cache) \subseteq ToSet(cache) \cup {b}
      /\ Clear(blocks, graph, cache) /\ b \notin ToSet(cache) => Clear(blocks, r.graph, r.cache)
      /\ r.graph = graph \/ b \in r.graph.ledger \ graph.ledger
  BY <1>4 DEF Received
<1>6. sent' \in Seq(0..(generated - 1)) /\ Entered(blocks, {}, sent', graph'.ledger)
  <2> DEFINE S == 0..(generated - 1)
  <2>1. sent \in Seq(S) /\ r.relays \in Seq(S)
    BY <1>2, <1>5
  <2> HIDE DEF S
  <2>2. Entered(blocks, {}, sent \o r.relays, r.graph.ledger) /\ sent \o r.relays \in Seq(S)
    BY <1>2, <1>5, <2>1, EnteredConcat
  <2> QED BY <1>1, <2>2 DEF S
<1>7. graph.ledger \subseteq graph'.ledger
  BY <1>1, <1>5 DEF Entered
<1>8. /\ deliveries' \in [BlockIds -> Nat] /\ deliveries'[b] > 0
      /\ \A c \in BlockIds : deliveries'[c] >= deliveries[c]
      /\ \A c \in BlockIds : deliveries'[c] > 0 => c = b \/ deliveries[c] > 0
      /\ deliveries'[b] = deliveries[b] + 1
  BY <1>1, <1>2
<1>9. ToSet(cache') \subseteq BlockIds
  <2>1. cache' \in Seq(0..(generated - 1))
    BY <1>1, <1>5 DEF MinerOK
  <2>2. ToSet(cache') \subseteq 0..(generated - 1)
    BY <2>1, ToSetIs
  <2> QED BY <1>2, <2>2, TableFacts
<1>10. \A c \in ToSet(cache') : deliveries'[c] > 0
  <2>1. ASSUME NEW c \in ToSet(cache') PROVE deliveries'[c] > 0
    <3>1. c \in ToSet(cache) \cup {b} /\ c \in BlockIds
      BY <1>1, <1>5, <1>9
    <3>2. CASE c = b
      BY <1>8, <3>2
    <3>3. CASE c \in ToSet(cache)
      BY <1>2, <1>8, <3>1, <3>3
    <3> QED BY <3>1, <3>2, <3>3
  <2> QED BY <2>1
<1>11. NothingLost'
  <2>1. \A c \in BlockIds : deliveries'[c] > 0 => c \in graph'.ledger \cup ToSet(cache')
    BY <1>1, <1>2, <1>5, <1>8 DEF NothingLost
  <2> QED BY <2>1 DEF NothingLost
<1>12. ASSUME Once' PROVE Clear(blocks', graph', cache')
  <2>1. Once
    BY <1>2, <1>8, <1>12 DEF Once
  <2>2. deliveries[b] = 0
    BY <1>2, <1>8, <1>12 DEF Once
  <2>3. b \notin ToSet(cache)
    BY <1>2, <2>2
  <2> QED BY <1>1, <1>2, <1>5, <2>1, <2>3
<1> QED BY <1>1, <1>2, <1>5, <1>6, <1>7, <1>10, <1>11, <1>12 DEF OpenInv

\* The conjunction is inductive.
THEOREM OpenInductive == OpenSpec => []OpenInv
<1>1. OpenInit => OpenInv
  BY OpenInitially
<1>2. OpenInv /\ [OpenNext]_openVars => OpenInv'
  <2> SUFFICES ASSUME OpenInv, [OpenNext]_openVars PROVE OpenInv'
    OBVIOUS
  <2>1. CASE OpenElsewhere
    BY <2>1, OpenElsewhereKeeps
  <2>2. CASE OpenGenerate
    BY <2>2, OpenGenerateKeeps
  <2>3. ASSUME NEW b \in BlockIds, OpenReceive(b) PROVE OpenInv'
    BY <2>3, OpenReceiveKeeps
  <2>4. CASE UNCHANGED openVars
    BY <2>4 DEF openVars, vars, OpenInv, NothingLost, Once
  <2> QED BY <2>1, <2>2, <2>3, <2>4 DEF OpenNext
<1> QED BY <1>1, <1>2, PTL DEF OpenSpec

\* A delivered block is in the graph or in the cache: ReceiveBlock and
\* insertCache drop only what the graph holds.
THEOREM NothingGetsLost == OpenSpec => []NothingLost
<1>1. OpenInv => NothingLost
  BY DEF OpenInv
<1> QED BY <1>1, OpenInductive, PTL

\* What the miner hands to the network is what enters its graph, each block
\* once and after its ancestors.
THEOREM SendsOnceInOrder == OpenSpec => []SentOnceInOrder
<1>1. ASSUME OpenInv PROVE SentOnceInOrder
  <2>1. sent \in Seq(0..(generated - 1)) /\ Entered(blocks, {}, sent, graph.ledger)
    BY <1>1 DEF OpenInv
  <2>2. DOMAIN sent = 1..Len(sent)
    BY <2>1
  <2>3. IsInjective(sent) /\ graph.ledger = {} \cup ToSet(sent)
    BY <2>1 DEF Entered
  <2>4. \A j \in 1..Len(sent) : \A a \in Parents(blocks, sent[j]) :
           \E i \in 1..(j - 1) : sent[i] = a
    BY <2>1 DEF Entered
  <2> QED BY <2>2, <2>3, <2>4 DEF SentOnceInOrder
<1> QED BY <1>1, OpenInductive, PTL

\* After every handler insert would fail on every cached block, as long as no
\* block has been delivered twice.
THEOREM CacheIsDrained == OpenSpec => []CacheDrainedOnce
<1>1. ASSUME OpenInv PROVE CacheDrainedOnce
  <2>1. Once => Drained(blocks, graph, cache)
    BY <1>1 DEF OpenInv, Clear
  <2>2. DOMAIN cache = 1..Len(cache)
    BY <1>1 DEF OpenInv, MinerOK
  <2> QED BY <2>1, <2>2 DEF CacheDrainedOnce, CacheDrained, Drained, Once
<1> QED BY <1>1, OpenInductive, PTL

-----------------------------------------------------------------------------
(***************************************************************************)
(* The miner implements GhostLedger.                                       *)
(***************************************************************************)
\* The operators of Ghost are those of GhostRule.
LEMMA SameGhost ==
    /\ Ghost!GenesisTable = GenesisTable /\ Ghost!None = None /\ Ghost!BlockIds = BlockIds
    /\ \A B : Ghost!Linked(B) = Linked(B)
    /\ \A B, L : Ghost!AncestorClosed(B, L) = AncestorClosed(B, L)
    /\ \A B, L : Ghost!GhostTip(B, L) = GhostTip(B, L)
<1>1. Ghost!GenesisTable = GenesisTable /\ Ghost!None = None /\ Ghost!BlockIds = BlockIds
  BY DEF Ghost!GenesisTable, GenesisTable, Ghost!BlankBlock, BlankBlock, Ghost!BlockIds, BlockIds,
         Ghost!Genesis, Ghost!None
<1>2. \A B : Ghost!Linked(B) = Linked(B)
  BY DEF Ghost!Linked, Linked, Ghost!BlockIds, BlockIds, Ghost!Genesis, Ghost!None
<1>3. \A B, L : Ghost!AncestorClosed(B, L) = AncestorClosed(B, L)
  BY DEF Ghost!AncestorClosed, AncestorClosed, Ghost!Parents, Parents, Ghost!IsGenesis, IsGenesis,
         Ghost!None
<1>4. \A B, L : Ghost!GhostTip(B, L) = GhostTip(B, L)
  BY DEF Ghost!GhostTip, GhostTip, Ghost!GhostChain, GhostChain, Ghost!Genesis, 
         Ghost!IsHeaviestChild, IsHeaviestChild, Ghost!ChildrenIn, ChildrenIn, Ghost!Beats, Beats,
         Ghost!SubtreeWeight, SubtreeWeight, Ghost!Subtree, Subtree, 
         Ghost!Cardinality, Cardinality
<1> QED BY <1>1, <1>2, <1>3, <1>4

\* A step in which the miner learns of blocks.
LEMMA LearnStep ==
    ASSUME OpenInv, OpenInv', Agree(blocks, blocks', generated),
           NEW b \in BlockIds, b \in graph'.ledger \ graph.ledger, graph.ledger \subseteq graph'.ledger
    PROVE  Ghost!Next
<1> DEFINE news == graph'.ledger \ graph.ledger
<1>1. /\ TableOK(blocks, generated) /\ TableOK(blocks', generated')
      /\ GraphOK(blocks', generated', graph')
  BY DEF OpenInv, MinerOK
<1>2. Ghost!TableGrows
  BY <1>1, LinkedIs, SameGhost DEF Ghost!TableGrows, Agree
<1>3. /\ graph'.ledger \subseteq 0..(generated' - 1) /\ AncestorClosed(blocks', graph'.ledger)
      /\ 0..(generated' - 1) \subseteq BlockIds
  BY <1>1, TableFacts DEF GraphOK, Consistent
<1>4. graph'.ledger \subseteq Linked(blocks')
  BY <1>1, <1>3, LinkedIs
<1>5. graph'.pivotTip = GhostTip(blocks', graph'.ledger)
  BY <1>1, PivotTipIsGhostTip
<1>6. news # {} /\ news \in SUBSET (BlockIds \ graph.ledger) /\ graph'.ledger = graph.ledger \cup news
  BY <1>3
<1> HIDE DEF news
<1>7. Ghost!Learn(news)
  BY <1>2, <1>3, <1>4, <1>5, <1>6, SameGhost DEF Ghost!Learn
<1> QED BY <1>6, <1>7, SameGhost DEF Ghost!Next

\* OpenInit maps to OpenInit, and each step to a step of GhostLedger or a stutter.
THEOREM Refines == OpenSpec => ImplementsGhost
<1>1. OpenInit => Ghost!Init
  BY OpenSteps, SameGhost DEF Ghost!Init, NewLocalGraph
<1>2. OpenInv /\ OpenInv' /\ [OpenNext]_openVars => [Ghost!Next]_(Ghost!ghostVars)
  <2> SUFFICES ASSUME OpenInv, OpenInv', [OpenNext]_openVars PROVE [Ghost!Next]_(Ghost!ghostVars)
    OBVIOUS
  <2>1. CASE OpenElsewhere
    <3>1. graph' = graph /\ Agree(blocks, blocks', generated)
      BY <2>1, OpenSteps, OpenElsewhereKeeps
    <3>2. Ghost!TableGrows
      BY <3>1, LinkedIs, SameGhost DEF Ghost!TableGrows, Agree, OpenInv
    <3>3. Ghost!Publish
      BY <3>1, <3>2 DEF Ghost!Publish
    <3> QED BY <3>3 DEF Ghost!Next
  <2>2. CASE OpenGenerate
    <3>1. Agree(blocks, blocks', generated) /\ graph'.ledger = graph.ledger \cup {generated}
      BY <2>2, OpenGenerateKeeps
    <3>2. generated \in BlockIds /\ generated \notin graph.ledger
      BY <2>2, OpenSteps, TableFacts DEF OpenInv, MinerOK, GraphOK, BlockIds
    <3> QED BY <3>1, <3>2, LearnStep
  <2>3. ASSUME NEW b \in BlockIds, OpenReceive(b) PROVE [Ghost!Next]_(Ghost!ghostVars)
    <3>1. /\ graph' = graph \/ b \in graph'.ledger \ graph.ledger
          /\ graph.ledger \subseteq graph'.ledger
      BY <2>3, OpenReceiveKeeps
    <3>2. blocks' = blocks
      BY <2>3 DEF OpenReceive
    <3>3. CASE graph' = graph
      BY <3>2, <3>3 DEF Ghost!ghostVars
    <3>4. CASE b \in graph'.ledger \ graph.ledger
      BY <3>1, <3>2, <3>4, LearnStep DEF Agree
    <3> QED BY <3>1, <3>3, <3>4
  <2>4. CASE UNCHANGED openVars
    BY <2>4 DEF openVars, vars, Ghost!ghostVars
  <2> QED BY <2>1, <2>2, <2>3, <2>4 DEF OpenNext
<1> QED BY <1>1, <1>2, OpenInductive, PTL DEF OpenSpec, ImplementsGhost, Ghost!Spec
=============================================================================
