CONSTANTS
    Kinds = {"read", "finish"}
    Sizes = {1}
    MaxCalls = 3
    MaxReads = 2
SPECIFICATION Spec
INVARIANTS FinishMeansDelivered
CHECK_DEADLOCK FALSE
