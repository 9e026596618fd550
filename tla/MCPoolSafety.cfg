CONSTANTS
    c1 = c1  c2 = c2
    d0 = d0  d1 = d1
    Clients = {c1, c2}
    Devices = {d0, d1}
    FirstDev = d0
    None = None
    Kinds = {"task", "read", "finish"}
    MaxCmds = 2
    ReadTimes = {0, 2}
SPECIFICATION Spec
SYMMETRY ClientSymmetry
INVARIANTS PoolInv SkipMarksOwner FrontIsRunning ScheduleFindsWork DestroyedIsIdle SumsMatchVMs NoSurplusToken
PROPERTIES LeastUsedFirst ImplementsService
CHECK_DEADLOCK FALSE
