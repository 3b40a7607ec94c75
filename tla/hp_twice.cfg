SPECIFICATION HazardSpec
CONSTANTS
    Worker = {0}
    Main = 9
    CreateFiles <- BushyFile
    Traces <- ReinsertTraces
    ReusesBlocks = FALSE
    NoNode = NoNode
    NoOp = NoOp
    HP_THRESHOLD = 6
    NUM_HP_PER_THREAD = 10
INVARIANT FreedOnce
