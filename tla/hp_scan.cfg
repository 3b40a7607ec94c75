SPECIFICATION HazardSpec
CONSTANTS
    Worker = {0, 1}
    Main = 9
    CreateFiles <- LeanFile
    Traces <- DeleteTraces
    ReusesBlocks = FALSE
    NoNode = NoNode
    NoOp = NoOp
    HP_THRESHOLD = 1
    NUM_HP_PER_THREAD = 3
INVARIANTS
    HazardTypeOK ScanHonoursHazards DetachedAreRetired FreedOnce
