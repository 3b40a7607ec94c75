SPECIFICATION SeenSpec
CONSTANTS
    Worker = {w1, w2, w3}
    Main = main
    CreateFiles <- LeanFile
    Traces <- AnswerTraces
    ReusesBlocks = FALSE
    NoNode = NoNode
    NoOp = NoOp
SYMMETRY Symmetry
PROPERTY Linearizable
