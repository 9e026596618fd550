CONSTANTS
    t1 = t1
    t2 = t2
    Threads = {t1, t2}
    MaxBuffers = 2
    MaxCalls = 4
SPECIFICATION FairSpec
INVARIANTS RequestsInv IdsMatch ReadsSeeWrites RepliesToCaller
 
CHECK_DEADLOCK FALSE
