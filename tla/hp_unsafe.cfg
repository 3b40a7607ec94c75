SPECIFICATION HazardSpec
CONSTANTS
    Worker = {0, 1}
    Main = 9
    CreateFiles <- ChainFile
    Traces <- UnsafeTraces
    ReusesBlocks = FALSE
    NoNode = NoNode
    NoOp = NoOp
    HP_THRESHOLD = 1
    NUM_HP_PER_THREAD = 10
INVARIANT NoUseAfterFree
