CONSTANTS
    HeaderLen = 3
    EndLen = 2
    BufCap = 5
    WrapAt = 8
    Lens = {0, 1, 2}
    MaxCalls = 3
SPECIFICATION FairSpec
INVARIANTS WireInv OwnBytesOnly NodeOutlivesCleanExit
PROPERTIES Implements CallsHandled ClosedSessionLeaves
