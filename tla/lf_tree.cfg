SPECIFICATION HistorySpec
CONSTANTS
    Worker = {w1, w2, w3}
    Main = main
    CreateFiles <- TreeFiles
    Traces <- RelocationTraces
    ReusesBlocks = FALSE
    NoNode = NoNode
    NoOp = NoOp
SYMMETRY Symmetry
INVARIANTS
    TypeOK PointersOK SearchOrder UnlinkedAreMarked MarkedHasSpareChild OneOutcome
    NeverRepeats ReplaceIsNext QuiescentClean HarnessFindsOrder
PROPERTIES KeysGrow MarkedFrozen
