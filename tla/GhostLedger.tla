----------------------------- MODULE GhostLedger -----------------------------
(***************************************************************************)
(* What a miner's graph promises: it holds a growing set of blocks closed  *)
(* under ancestors, and its pivot tip is at every moment the end of the    *)
(* heaviest-subtree path through that set, computed afresh.  In particular *)
(* the pivot depends on the set only, never on the order of arrival.       *)
(***************************************************************************)
EXTENDS GhostRule

VARIABLES blocks, ledger, pivotTip

ghostVars == <<blocks, ledger, pivotTip>>

Init == /\ blocks = GenesisTable
        /\ ledger = {}
        /\ pivotTip = None

\* Blocks with edges keep them.
TableGrows == \A b \in Linked(blocks) : blocks'[b] = blocks[b]

\* Some miner generates a block.
Publish == TableGrows /\ UNCHANGED <<ledger, pivotTip>>

\* The owner of the ledger generates, receives or finds in its cache the
\* blocks of news.
Learn(news) ==
    /\ TableGrows
    /\ news # {}
    /\ ledger' = ledger \cup news
    /\ ledger' \subseteq Linked(blocks)'
    /\ AncestorClosed(blocks', ledger')
    /\ pivotTip' = GhostTip(blocks', ledger')

Next == Publish \/ \E news \in SUBSET (BlockIds \ ledger) : Learn(news)

Spec == Init /\ [][Next]_ghostVars
=============================================================================
