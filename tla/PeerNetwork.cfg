CONSTANTS
    MaxBlock = 3
    MaxResidual = 0
    Miners <- ThreeMiners
    NoMiner <- GenesisMiner
    Duration = 20
    MaxGap = 1
    NumPeers = 1
    TransTime = 2
    Latency = 1
    MaxJitter = 0
    MaxBacklog = 1
    RetryTime = 1
    AttackerIn = 1
    AttackerOut = 1
SPECIFICATION Spec
INVARIANTS SentExact StillOffered BacklogBounded
PROPERTIES EventuallyReached
