CONSTANTS
    Cores = {0}
    Nodes = {nodeA}
    NoNode = NoNode
    HalfWritten = HalfWritten
    ERROR_THRESHOLD = 2
    ShareCap = 0
    MaxSkipped = 1
    Garbled = FALSE
SPECIFICATION ClaimsSpec
PROPERTY ShareOncePerJob
