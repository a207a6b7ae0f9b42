SPECIFICATION MCSpec
CONSTANTS
    Sides = {"handlers"}
    \* handlers
    Writers = {y1, y2}
    Names = {h1, h2}
    c1 = c1
    c2 = c2
    None = None
    Off = Off
    Torn = Torn
    Configs <- MCConfigs
    Entries <- MCEntries
    MaxRequests = 3
    MaxFaults = 1
    MaxCrashes = 0
    \* access
    Browsers = {x1, x2, x3}
    Passwords = {y1, y2}
    NoOne = NoOne
    MaxSessions = 2
    MaxVisits = 4
    MaxSlips = 1
    MaxRestarts = 1
    \* limiter
    Addrs = {x1, x2, x3, y1, y2}
    NoAddr = NoAddr
    AttemptBurst = 1
    AttemptRefill = 1
    GlobalBurst = 3
    GlobalRefill = 2
    MaxLimiterKeys = 4
    MaxTime = 4
    \* page
    Polls = {y1, y2}
    Visits <- MCVisits
    eventCapacity = 2
    \* listeners
    Places = {c1, c2, h1}
    Public = {c2}
    Itself = Itself
    Nowhere = Nowhere
    MaxShifts = 2
    MaxRefusals = 1
SYMMETRY MCSymmetry
INVARIANT FailedSaveChangesNothing
CHECK_DEADLOCK FALSE
