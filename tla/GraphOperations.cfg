CONSTANTS
    MaxBlock = 4
    MaxResidual = 1
    Miners = {owner, other}
    NoMiner = noMiner
    Owner = owner
SPECIFICATION Spec
INVARIANTS TypeOK ExactWeights ExactMaxChild ExactPivotTip ExactTips EpochsExact AntisetExact
