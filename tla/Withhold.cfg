CONSTANTS
    MaxBlock = 5
    MaxResidual = 0
    Miners = {a, h1, h2}
    NoMiner = noMiner
    Duration = 12
    MaxGap = 2
    Attackers = {a}
    HonestDelay = 2
    AttackerIn = 1
    AttackerOut = 1
    Adversary = a
    HalfDiameter = 2
SPECIFICATION Spec
INVARIANTS NeverFatal HeldExact MiningGraphExact AheadOrEmpty AncestorNumExact
PROPERTIES EventuallyPublic
