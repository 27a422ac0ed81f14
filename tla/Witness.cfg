SPECIFICATION Spec
CONSTANTS
    r1 = r1
    r2 = r2
    Record <- MCRecord
    MaxLog = 2
    MaxHeads = 2
    MaxErrors = 2
    MaxKey = 2
    Workloads <- MCWorkloads
INVARIANTS HonestVerifies PublishedCatches
PROPERTY ServeCatchesUp
CHECK_DEADLOCK FALSE
