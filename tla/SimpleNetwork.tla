---------------------------- MODULE SimpleNetwork ----------------------------
(***************************************************************************)
(* SimpleNetwork (net_simple.go): fully connected, one constant delay      *)
(* between honest miners and shorter ones from and to the attacker.        *)
(***************************************************************************)
EXTENDS Oracle

CONSTANTS Attackers,    \* sn.attacker, at most one miner in the code
          HonestDelay, AttackerIn, AttackerOut  \* delays in time slots

ASSUME NetworkAssumption == /\ Attackers \subseteq Miners
                            /\ {HonestDelay, AttackerIn, AttackerOut} \subseteq Nat

GetDelay(B, to, b) ==
    CASE B[b].minerID = NoMiner -> 0
      [] B[b].minerID \in Attackers -> AttackerOut
      [] B[b].minerID \notin Attackers \cup {NoMiner} /\ to \in Attackers -> AttackerIn
      [] OTHER -> HonestDelay

\* The network's Broadcast and Relay: the events they return.
NetworkBroadcast(t, b) == {Broadcast(t, b)}
NetworkRelay(t, b) == {}

\* BroadcastEvent.Run.
RunBroadcast(B, t, b) ==
    {SendBlock(t + GetDelay(B, m, b), b, m) : m \in Miners \ {B[b].minerID}}
=============================================================================
