CONSTANTS
    Kinds = {"blockingWrite"}
    Sizes = {1}
    MaxCalls = 1
    MaxReads = 1
SPECIFICATION FairSpec
PROPERTIES BlockingWriteReturns
CHECK_DEADLOCK FALSE
