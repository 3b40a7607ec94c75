SPECIFICATION FairSpec
CONSTANTS
    Args <- SmallArgs
    ULONG_MAX = 31
    MIXED_WORKLOAD_STEP = 2
    MaxLines = 60
INVARIANTS LinesMeetTree PerfectTree EachKeyOnce
PROPERTY Ends
