------------------------------- MODULE Epochs -------------------------------
(***************************************************************************)
(* The statistics of a graph (localgraph.go, from line 231): the epoch of  *)
(* each block in the past of the pivot, and the antiset of a block, which  *)
(* the log of the simulator reports every 50 blocks.  countAnti ends the   *)
(* program if an antiset has a negative size.                              *)
(***************************************************************************)
EXTENDS GraphOperations

\* What a work list that starts from S visits, onto[x] being pushed when x
\* is visited.  Every round but the last visits a block.
Visit(S, onto) ==
    LET visited[n \in Nat] ==
            IF n = 0 THEN S
            ELSE LET before == visited[n - 1] IN before \cup UNION {onto[x] : x \in before}
    IN  visited[MaxBlock + 1]

\* The pivot block with the given height.
PivotAt(B, g, h) == CHOOSE p \in PivotChain(B, g) : B[p].height = h

MaxEpoch(B, g) == B[g.pivotTip].height

\* Those of S that have no epoch get h.
GiveEpoch(epochs, S, h) ==
    [x \in DOMAIN epochs \cup S |-> IF x \in DOMAIN epochs THEN epochs[x] ELSE h]

(***************************************************************************)
(* getEpochs: the epoch of each block in the past of the pivot tip.  Each  *)
(* pivot block gives its epoch to itself and to the ancestors that have    *)
(* none; a block that has one is not expanded.                             *)
(***************************************************************************)
\* A mutant: references are not followed.
GetEpochsParents(B, g) ==
    LET epochs[h \in 0..MaxEpoch(B, g)] ==
            IF h = 0 THEN [x \in {Genesis} |-> 0]
            ELSE LET before == epochs[h - 1]
                     onto   == [x \in BlockIds |->
                                   Parents(B, x) \ (DOMAIN before \cup B[x].references)]
                 IN  GiveEpoch(before, Visit({PivotAt(B, g, h)}, onto), h)
    IN  epochs[MaxEpoch(B, g)]

GetEpochs(B, g) ==
    LET epochs[h \in 0..MaxEpoch(B, g)] ==
            IF h = 0 THEN [x \in {Genesis} |-> 0]
            ELSE LET before == epochs[h - 1]
                     onto   == [x \in BlockIds |-> Parents(B, x) \ DOMAIN before]
                 IN  GiveEpoch(before, Visit({PivotAt(B, g, h)}, onto), h)
    IN  epochs[MaxEpoch(B, g)]

\* getAllChildren and getAllRefChildren.
AllChildren(B, g, b) == {c \in g.ledger : b \in Parents(B, c)}

\* numDesc of countAnti: the descendants of b, itself included, with an
\* epoch of at most end.  A mutant: the epoch does not matter.
DescendantsAll(B, g, epochs, b, end) == Visit({b}, [x \in BlockIds |-> AllChildren(B, g, x)])

Descendants(B, g, epochs, b, end) ==
    Visit({b}, [x \in BlockIds |->
                   {d \in AllChildren(B, g, x) \cap DOMAIN epochs : epochs[d] <= end}])

PivotWeight(B, g, e) == B[PivotAt(B, g, e)].ancestorNum + 1

\* The result of countAnti: blocks less than c epochs old have none.
CountAnti(B, g, c) ==
    LET epochs  == GetEpochs(B, g)
        counted == {b \in DOMAIN epochs : epochs[b] + c <= MaxEpoch(B, g)}
    IN  [b \in counted |->
            LET end == epochs[b] + c
            IN  PivotWeight(B, g, end)
                - (B[b].ancestorNum + Cardinality(Descendants(B, g, epochs, b, end)))]

-----------------------------------------------------------------------------
HasGenesis == Genesis \in graph.ledger

\* The epochs divide the past of the pivot tip: a block belongs to the first
\* pivot block that has it in its past, and ancestorNum, which the miner of
\* that pivot block wrote, counts the blocks up to there.
EpochsExact == HasGenesis =>
    LET epochs == GetEpochs(blocks, graph)
        upTo(h) == {b \in DOMAIN epochs : epochs[b] <= h}
    IN  \A h \in 0..MaxEpoch(blocks, graph) :
            LET p == PivotAt(blocks, graph, h)
            IN  /\ upTo(h) = blocks[p].past \cup {p}
                /\ PivotWeight(blocks, graph, h) = Cardinality(upTo(h))

\* The blocks of the past of a pivot block p, and p, that are neither
\* ancestors nor descendants of b nor b.
Antiset(b, p) ==
    {x \in blocks[p].past \cup {p} : /\ x # b
                                     /\ x \notin blocks[b].past
                                     /\ b \notin blocks[x].past}

\* countAnti computes the size of the antiset of a block among what the pivot
\* confirms up to c epochs later.  It is never negative: log.Fatal
\* (localgraph.go:336) is not reached.
AntisetExact == HasGenesis => \A c \in 0..MaxBlock :
    LET epochs == GetEpochs(blocks, graph)
        anti   == CountAnti(blocks, graph, c)
    IN  \A b \in DOMAIN anti :
            anti[b] = Cardinality(Antiset(b, PivotAt(blocks, graph, epochs[b] + c)))
=============================================================================
