SPECIFICATION Spec
CONSTANTS
    Nft = "nft"
    Tun = "tun"
    Res <- MCRes
    Kind <- MCKind
    DevOf <- MCDevOf
    Plans <- MCPlans
    Bases <- MCBases
    Exposing <- MCExposing
    MaxStarts = 2
    MaxFaults = 2
    MaxCrashes = 1
INVARIANTS FailClosed JournalCovers HonestInverse OnlyStationsLinger
PROPERTIES FoundStays
CHECK_DEADLOCK FALSE
