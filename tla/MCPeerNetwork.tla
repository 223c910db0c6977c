---------------------------- MODULE MCPeerNetwork ----------------------------
(***************************************************************************)
(* Three miners, numbered as the code numbers them.                        *)
(***************************************************************************)
EXTENDS PeerNetwork
ThreeMiners == 0..2
GenesisMiner == -1
=============================================================================
