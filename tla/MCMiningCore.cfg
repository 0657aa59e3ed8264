\* One core, two nodes, any line from the pool, deeper counters.
CONSTANTS
    core0 = core0
    core1 = core1
    Cores = {core0}
    Nodes = {nodeA, nodeB}
    NoNode = NoNode
    HalfWritten = HalfWritten
    ERROR_THRESHOLD = 2
    ShareCap = 3
    MaxSkipped = 2
    Garbled = TRUE
SPECIFICATION Spec
INVARIANT IInv
INVARIANT AcceptedWithinFound
PROPERTY ImplementsLedger
