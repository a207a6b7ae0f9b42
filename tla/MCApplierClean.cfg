SPECIFICATION Spec
CONSTANTS
    Nft = "nft"
    Tun = "tun"
    Res <- MCRes
    Kind <- MCKind
    DevOf <- MCDevOf
    Plans <- MCPlans
    Bases <- MCBases
    Exposing <- MCExposing
    MaxStarts = 2
    MaxFaults = 0
    MaxCrashes = 1
INVARIANTS EverySweepClean
CHECK_DEADLOCK FALSE
