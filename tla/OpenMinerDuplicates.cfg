CONSTANTS
    MaxBlock = 3
    MaxResidual = 1
    Miners = {owner, other}
    NoMiner = noMiner
    Owner = owner
    MaxDeliveries = 2
SPECIFICATION OpenSpec
INVARIANTS CacheDrained
CHECK_DEADLOCK FALSE
