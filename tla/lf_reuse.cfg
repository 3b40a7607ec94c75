SPECIFICATION HistorySpec
CONSTANTS
    Worker = {w1, w2}
    Main = main
    CreateFiles <- LeanFile
    Traces <- ReuseTraces
    ReusesBlocks = TRUE
    NoNode = NoNode
    NoOp = NoOp
SYMMETRY Symmetry
INVARIANT UnlinkedAreMarked
