SPECIFICATION HistorySpec
CONSTANTS
    Worker = {w1, w2}
    Main = main
    CreateFiles <- LeanFile
    Traces <- WalkTraces
    ReusesBlocks = FALSE
    NoNode = NoNode
    NoOp = NoOp
SYMMETRY Symmetry
INVARIANT HarnessFindsAll
