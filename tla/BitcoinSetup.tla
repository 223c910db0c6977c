---------------------------- MODULE BitcoinSetup ----------------------------
(***************************************************************************)
(* BitcoinNetwork.Setup (net_bitcoin.go): one miner after the other draws  *)
(* Connections peers besides those that have drawn it, and links them.     *)
(* The result is what BitcoinNetwork.tla is told of bn.peers.              *)
(*                                                                         *)
(* Abstractions: the lists are given by how often each miner is in them,   *)
(* so shuffling them changes nothing.  A miner of another region may be    *)
(* drawn unless the flag local is 1 or more; then only those of the same   *)
(* region may.  If all are in one region everybody may be drawn, so Draw   *)
(* covers both.                                                            *)
(***************************************************************************)
EXTENDS Integers, FiniteSets

CONSTANTS N,           \* len(o.miners.miners)
          Connections, \* peers_/2
          Regions      \* 0..geoN-1

ASSUME SetupAssumption == N \in Nat /\ Connections \in Nat

Nodes == 0..(N - 1)

VARIABLES geo,    \* bn.geo
          peer,   \* how often each miner is in the list of each
          next,   \* the miner i whose turn it is
          chosen, \* its set
          drawn   \* how many peers it has drawn, j

setupVars == <<geo, peer, next, chosen, drawn>>

-----------------------------------------------------------------------------
\* The set the loop of miner i starts from.  A mutant: it is not new.
KnownKept(links, i) == chosen \cup {p \in Nodes : i \in Nodes /\ links[i][p] > 0}

Known(links, i) == {p \in Nodes : i \in Nodes /\ links[i][p] > 0}

Region(i) == {p \in Nodes : geo[p] = geo[i]}

\* What miner i has chosen is linked at both ends, and nothing else stays in
\* its own list.  A mutant: the list is not emptied before.
RelinkedTwice(links, i, S) ==
    [m \in Nodes |-> [p \in Nodes |->
        links[m][p] + (IF m = i /\ p \in S THEN 1 ELSE 0) + (IF p = i /\ m \in S THEN 1 ELSE 0)]]

Relinked(links, i, S) ==
    [m \in Nodes |-> [p \in Nodes |->
        (IF m = i THEN 0 ELSE links[m][p])
            + (IF m = i /\ p \in S THEN 1 ELSE 0) + (IF p = i /\ m \in S THEN 1 ELSE 0)]]

-----------------------------------------------------------------------------
SetupInit == /\ geo \in [Nodes -> Regions]
             /\ peer = [m \in Nodes |-> [p \in Nodes |-> 0]]
             /\ next = 0
             /\ chosen = {}
             /\ drawn = 0

\* The innermost loop ends with a miner that is not in the set.
Draw == /\ next \in Nodes
        /\ drawn < Connections
        /\ \E end \in Region(next) \ chosen : chosen' = chosen \cup {end}
        /\ drawn' = drawn + 1
        /\ UNCHANGED <<geo, peer, next>>

LinkPeers == /\ next \in Nodes
             /\ drawn = Connections
             /\ peer' = Relinked(peer, next, chosen)
             /\ next' = next + 1
             /\ chosen' = Known(Relinked(peer, next, chosen), next + 1)
             /\ drawn' = 0
             /\ UNCHANGED geo

SetupNext == Draw \/ LinkPeers

SetupSpec == SetupInit /\ [][SetupNext]_setupVars

-----------------------------------------------------------------------------
\* At all times each connection is in the lists of both its ends: once in the
\* list of the end with the greater number, and twice in the other one if that
\* one drew it and the second end has had its turn.  A miner that drew itself
\* has itself twice.  So nobody is announced blocks by a miner it would not
\* announce its own to, and no list holds a miner more than twice, although
\* each turn starts by throwing a list away.
LinksMutual == \A m, p \in Nodes :
    \/ m < p /\ <<peer[p][m], peer[m][p]>> \in {<<0, 0>>, <<1, 1>>, <<1, 2>>}
    \/ m = p /\ peer[m][p] \in {0, 2}
    \/ m > p

\* The innermost loop draws for ever.
Hangs == next \in Nodes /\ drawn < Connections /\ Region(next) \subseteq chosen

\* Setup can hang only when fewer than Connections miners of its region are
\* left, the one whose turn it is included: the others of the region may all
\* have drawn it.  It does so with any number of miners, once Connections is
\* 2 or more.
HangsOnlyLate == Hangs =>
    Cardinality({p \in Region(next) : p >= next}) < Connections
=============================================================================
