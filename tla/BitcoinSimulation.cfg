CONSTANTS
    m0 = m0
    m1 = m1
    m2 = m2
    MaxBlock = 3
    MaxResidual = 0
    Miners = {m0, m1, m2}
    NoMiner = noMiner
    Duration = 40
    MaxGap = 1
    Peers <- LinePeers
    Attackers = {}
    RelayImpl = 0
    VerifyTime = 1
    Pings = {0, 1}
    BlockSize = 4
    CompactSize = 1
    BufferSize = 9
    Bandwidth = 2
    Tolerance = 2
SPECIFICATION Spec
INVARIANTS OnePlace
PROPERTIES ImplementsNetwork
