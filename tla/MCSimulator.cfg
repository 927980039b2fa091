\* A simulation that is over stops.
SPECIFICATION MCSpec
CONSTANTS
    ThreadNum = 3
    NR = 4
    NE = 5
    R2r <- Links
    SmartMax = 0
    Unicast <- TwoSizes
    Multicast <- ToEach
CHECK_DEADLOCK FALSE
INVARIANTS
    ReportComplete
    TopologySound
    DestinationExists
PROPERTIES
    ThreadsAreSequential
    SimulationEnds
    TasksAccounted
