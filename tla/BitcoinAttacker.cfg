CONSTANTS
    m0 = m0
    m1 = m1
    m2 = m2
    MaxBlock = 2
    MaxResidual = 0
    Miners = {m0, m1, m2}
    NoMiner = noMiner
    Attackers = {m0}
    Peers <- AttackerPeers
    RelayImpl = 1
SPECIFICATION Spec
INVARIANTS InFlightExact AttackerFirst
CHECK_DEADLOCK FALSE
