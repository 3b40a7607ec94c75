SPECIFICATION HistorySpec
CONSTANTS
    Worker = {w1, w2, w3}
    Main = main
    NoThread = NoThread
    CreateFiles <- TreeFiles
    Traces <- TreeTraces
SYMMETRY Symmetry
INVARIANTS
    TypeOK LocksHeld WaitsForChild SearchOrder FreedWhenUnlinked ParentPointers
PROPERTY Linearizable
