SPECIFICATION MCSpec
CONSTANTS
    \* service
    c1 = c1
    c2 = c2
    r1 = r1
    r2 = r2
    Nobody = Nobody
    Callers <- MCCallers
    Reqs <- MCReqs
    Spoofed <- MCSpoofed
    MaxCalls = 3
    MaxFaults = 1
    MaxExpiries = 1
    MaxCrashes = 1
    MaxReads = 0
    \* network
    NoAddr = NoAddr
    APIfaceName = "ap0"
    TunName = "xray0"
    Web = 40
    Loopback = 15
    HomeGateway = 61
    PoolFirst = 2
    PoolLast = 3
    JoinChannels = {6}
    HotspotPool <- mcHotspotPool
    TunnelPool <- mcTunnelPool
    LinkLocal <- mcLinkLocal
    Multicast <- mcMulticast
    Private <- mcPrivate
    PrivateUse <- mcPrivateUse
    SubnetSizes = {4, 8, 16}
    HomeNet <- mcHomeNet
CHECK_DEADLOCK FALSE
SYMMETRY MCSymmetry
INVARIANTS
    AllOrNothing
    NeverUnguarded
    CutIsReal
    OnlyThroughTheTunnel
    ServesItsDevices
    ReachesItsServer
    SparesWhatIsThere
    RunsOnItsOwn
PROPERTIES
    ImplementsSwitch
