CONSTANTS
    m1 = m1
    m2 = m2
    v1 = v1
    v2 = v2
    Null = Null
    Unset = Unset
    PtrArgs = {0}
    ConstArgs = {1, 2}
    SizeOf <- SizesByIndex
    Mems = {m1, m2}
    Values = {v1, v2}
    MemsPerMsg = 1
    ConstsPerMsg = 2
    ByteRange = 4
    MaxKernels = 2
    MaxSets = 6
    MaxRuns = 2
SPECIFICATION Spec
INVARIANTS KernelInv ArgsAsSet
SYMMETRY Symmetry
CHECK_DEADLOCK FALSE
