SPECIFICATION HarnessSpec
CONSTANTS
    Worker = {w1, w2}
    Main = main
    CreateFiles <- TreeFiles
    Traces <- ProgressTraces
    ReusesBlocks = FALSE
    NoNode = NoNode
    NoOp = NoOp
INVARIANT HarnessApproves
PROPERTY LockFree
