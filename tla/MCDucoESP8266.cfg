\* Two nodes, a pool that speaks its own language, two shares, two lines cut in two.
CONSTANTS
    Nodes = {nodeA, nodeB}
    NoNode = NoNode
    ERROR_THRESHOLD = 2
    ShareCap = 2
    MaxCut = 2
    Garbled = FALSE
SPECIFICATION FairSpec
INVARIANT ESP8266Inv
PROPERTY JobErrorHasCause
PROPERTY ImplementsLedger
PROPERTY PassEnds
PROPERTY NodeIsReached
PROPERTY ProblemEnds
