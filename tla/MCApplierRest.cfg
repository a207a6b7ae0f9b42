SPECIFICATION Spec
CONSTANTS
    Nft = "nft"
    Tun = "tun"
    Res <- MCRes
    Kind <- MCKind
    DevOf <- MCDevOf
    Plans <- MCVirtual
    Bases <- MCBases
    Exposing <- MCExposing
    MaxStarts = 2
    MaxFaults = 2
    MaxCrashes = 1
INVARIANTS ClosedAtRest
CHECK_DEADLOCK FALSE
