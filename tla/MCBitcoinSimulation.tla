------------------------ MODULE MCBitcoinSimulation ------------------------
(***************************************************************************)
(* What Setup makes of three miners with peers_ \div 2 = 1 when m0 draws   *)
(* itself, m1 draws m0, and m2 draws m1: a line.                           *)
(***************************************************************************)
EXTENDS BitcoinSimulation, TLC

CONSTANTS m0, m1, m2

LinePeers == m0 :> (m0 :> 2 @@ m1 :> 1 @@ m2 :> 0)
             @@ m1 :> (m0 :> 1 @@ m1 :> 0 @@ m2 :> 1)
             @@ m2 :> (m0 :> 0 @@ m1 :> 1 @@ m2 :> 0)
=============================================================================
