CONSTANTS
    m0 = m0
    m1 = m1
    m2 = m2
    MaxBlock = 2
    MaxResidual = 0
    Miners = {m0, m1, m2}
    NoMiner = noMiner
    Attackers = {}
    Peers <- LinePeers
    RelayImpl = 0
SPECIFICATION Spec
INVARIANTS Announced
PROPERTIES EventuallyEverywhere
CHECK_DEADLOCK FALSE
