SPECIFICATION Spec
CONSTANTS
    c1 = c1
    c2 = c2
    r1 = r1
    r2 = r2
    Nobody = Nobody
    Callers <- MCCallers
    Reqs <- MCReqs
    Spoofed <- MCSpoofed
    MaxCalls = 4
    MaxFaults = 1
    MaxExpiries = 0
    MaxCrashes = 0
    MaxReads = 0
CHECK_DEADLOCK FALSE
PROPERTIES
    CutCuts
