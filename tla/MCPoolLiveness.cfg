CONSTANTS
    c1 = c1  c2 = c2  d0 = d0  d1 = d1
    Clients = {c1, c2}
    Devices = {d0, d1}
    FirstDev = d0
    None = None
    Kinds = {"task", "finish"}
    MaxCmds = 2
    ReadTimes = {1}
SPECIFICATION FairSpec
PROPERTIES TokenIsUsed StuckOnlyByLostToken DisconnectCleansUp
CHECK_DEADLOCK FALSE
