SPECIFICATION FairSpec
CONSTANTS
    \* applier
    Nft = "nft"
    Tun = "tun"
    Res <- MCRes
    Kind <- MCKind
    DevOf <- MCDevOf
    Plans <- MCVirtual
    Bases <- MCBases
    Exposing <- MCExposing
    MaxStarts = 1
    MaxFaults = 2
    MaxCrashes = 1
    \* service
    Callers = {c1, c2}
    Reqs = {r2}
    Spoofed = {r2}
    Nobody = Nobody
    MaxCalls = 2
    MaxSlips = 1
    MaxExpiries = 0
    MaxDeaths = 0
    MaxReads = 1
PROPERTIES
    Converges
    EveryCallReturns
CHECK_DEADLOCK FALSE
