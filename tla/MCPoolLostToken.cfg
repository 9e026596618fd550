CONSTANTS
    c1 = c1  d0 = d0
    Clients = {c1}
    Devices = {d0}
    FirstDev = d0
    None = None
    Kinds = {"task", "finish"}
    MaxCmds = 2
    ReadTimes = {1}
SPECIFICATION FairSpec
PROPERTIES FinishReturns
CHECK_DEADLOCK FALSE
