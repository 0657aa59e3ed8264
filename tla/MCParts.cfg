\* A word of 10 bits for the counter; the digests are full size; the ESP8266's clock,
\* whose mine() takes time, goes round twice; every page; four shares of two miners.
CONSTANTS
    Quarter = 256
    max_digits = 4
    Parsed <- Difficulties
    Results <- Nonces
    Garbage <- AnyByteCount
    HashLens <- HashLengths
    NonceLens <- NonceLengths
    Messages <- SomeMessages
    Digests <- TheirDigests
    Millis = 8
    CHECK_INTERVAL = 3
    UPDATE_INTERVAL = 2
    Gap = 2
    MineTime = 1
    Horizon = 18
    Blank = Blank
    AutoName = AutoName
    ChipName = ChipName
    None = None
    userA = userA
    userB = userB
    keyA = keyA
    nameA = nameA
    Users <- SomeUsers
    Keys <- SomeKeys
    Workers <- SomeWorkers
    UseSensor = TRUE
    AddVersion = FALSE
    Cores = {0, 1}
    MaxShares = 4
SPECIFICATION Spec
INVARIANT TextIsNumber
INVARIANT NeverGoesRound
INVARIANT SearchIsRight
INVARIANT DigestIsOfMessage
INVARIANT BufferHoldsRest
INVARIANT TimersAreDue
INVARIANT PageIsApplied
INVARIANT NodeIsForIdentity
PROPERTY ImplementsFIPS180
PROPERTY FetchesAreSpaced
PROPERTY ReadingsReadBack
PROPERTY SharesAreTold
