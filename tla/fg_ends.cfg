SPECIFICATION HarnessSpec
CONSTANTS
    Worker = {w1, w2, w3}
    Main = main
    NoThread = NoThread
    CreateFiles <- EndFiles
    Traces <- EndTraces
INVARIANT HarnessApproves
PROPERTY Ends
CHECK_DEADLOCK FALSE
