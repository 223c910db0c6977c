CONSTANTS
    MaxBlock = 4
    MaxResidual = 1
    Miners = {a, h1, h2}
    NoMiner = noMiner
    Duration = 12
    MaxGap = 2
    Attackers = {a}
    HonestDelay = 3
    AttackerIn = 1
    AttackerOut = 1
SPECIFICATION Spec
INVARIANTS GenesisFirst NoBlockLost EdgesFollowPast SameBlocksSameGraph
PROPERTIES EventuallyEverywhere
