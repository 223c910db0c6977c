CONSTANTS
    MaxPacket = 4
    MaxTime = 8
    Sizes = {3, 12, 25}
    BufferSize = 25
    Bandwidth = 2
    Tolerance = 2
SPECIFICATION TrafficSpec
INVARIANTS NeverAborts LinkExact NoOvertaking BandwidthKept
PROPERTIES EventuallySent
CHECK_DEADLOCK FALSE
