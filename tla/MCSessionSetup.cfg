CONSTANTS
    c1 = c1
    c2 = c2
    Clients = {c1, c2}
    Slots = 1
    MaxConnecting = 2
    MayDie = TRUE
SPECIFICATION FairSpec
INVARIANTS SessionInv SerialSessionsMatch WeightIsSum
PROPERTIES GetsSession
CHECK_DEADLOCK FALSE
