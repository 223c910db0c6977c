-------------------------- MODULE MCBitcoinNetwork --------------------------
(***************************************************************************)
(* What Setup makes of three miners with peers_ \div 2 = 1 when it draws:  *)
(***************************************************************************)
EXTENDS BitcoinNetwork, TLC

CONSTANTS m0, m1, m2

\* m1 for m0, m2 for m1, and m2 for itself.
AttackerPeers == m0 :> (m0 :> 0 @@ m1 :> 2 @@ m2 :> 0)
                 @@ m1 :> (m0 :> 1 @@ m1 :> 0 @@ m2 :> 2)
                 @@ m2 :> (m0 :> 0 @@ m1 :> 1 @@ m2 :> 2)

\* m0 for itself, m0 for m1, and m1 for m2: a line.
LinePeers == m0 :> (m0 :> 2 @@ m1 :> 1 @@ m2 :> 0)
             @@ m1 :> (m0 :> 1 @@ m1 :> 0 @@ m2 :> 1)
             @@ m2 :> (m0 :> 0 @@ m1 :> 1 @@ m2 :> 0)
=============================================================================
