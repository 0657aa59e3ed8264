\* Two cores, as on the ESP32 and the ESP32-S3; one node, one wait given up.
CONSTANTS
    Cores = {0, 1}
    Nodes = {nodeA}
    NoNode = NoNode
    HalfWritten = HalfWritten
    ERROR_THRESHOLD = 1
    ShareCap = 0
    MaxSkipped = 1
    Garbled = FALSE
SPECIFICATION DucoSpec
INVARIANT LagIsSkippedWaits
INVARIANT AnswersTheRequest
INVARIANT NeverWaitsForNothing
INVARIANT DucoInv
INVARIANT NoUseAfterFree
INVARIANT StoppedIsQuiet
INVARIANT ReadyIsIdentified
PROPERTY LossWithdrawsNode
PROPERTY JobErrorHasCause
PROPERTY ImplementsMining
PROPERTY ImplementsLease
