SPECIFICATION MCSpec
CONSTANTS
    Sides = {"wire"}
    \* daemons
    Plans = {a1, a2}
    Devs = {b1, b2}
    None = None
    MaxOps = 4
    MaxFaults = 2
    MaxCrashes = 1
    MaxTouches = 1
    \* sharing
    Networks <- MCNetworks
    NoNetwork = NoNetwork
    MaxTasks = 3
    MaxMishaps = 1
    MaxEnds = 1
    \* forwarder
    Conns = {a1, a2, a3}
    Ports = {b1, b2}
    maxConnections = 2
    Setups <- MCSetups
    NoConn = NoConn
    \* engine
    Ops = {a1, a2}
    Speakers = {b1, b2}
    RingSize = 2
    Ventures <- MCVentures
    NoOp = NoOp
    \* wire
    Copies = {"s1", "s2"}
    Calls = {a1, a2}
    Permitted = {"panel", "root"}
    Errors <- MCErrors
    Occasions <- MCOccasions
    maxConcurrent = 1
    MinDeadline = 1
    MaxDeadline = 3
    defaultDeadline = 2
    ReadTimeout = 1
    Nobody = Nobody
SYMMETRY MCSymmetry
INVARIANT JournalMeansKilled
CHECK_DEADLOCK FALSE
