CONSTANTS
    N = 5
    Connections = 2
    Regions = {1, 2}
SPECIFICATION SetupSpec
INVARIANTS LinksMutual HangsOnlyLate
CHECK_DEADLOCK FALSE
