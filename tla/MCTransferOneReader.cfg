CONSTANTS
    Kinds = {"write", "blockingWrite", "read", "blockingRead", "finish"}
    Sizes = {1, 2}
    MaxCalls = 4
    MaxReads = 1
SPECIFICATION FairSpec
INVARIANTS TransferInv FinishMeansDelivered BlockingMeansExecuted
PROPERTIES FinishReturns
CHECK_DEADLOCK FALSE
