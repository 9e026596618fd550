CONSTANTS
    d1 = d1
    d2 = d2
    c1 = c1
    c2 = c2
    Devices = {d1, d2}
    Clients = {c1, c2}
    BoundDev = d1
SPECIFICATION FairSpec
INVARIANTS StartupInv
PROPERTIES StuckOnlyByRace
CHECK_DEADLOCK FALSE
