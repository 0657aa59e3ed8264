\* Every configuration, every page.
CONSTANTS
    Blank = Blank
    AutoName = AutoName
    ChipName = ChipName
    None = None
    userA = userA
    userB = userB
    keyA = keyA
    nameA = nameA
    Users <- SomeUsers
    Keys <- SomeKeys
    Workers <- SomeWorkers
SPECIFICATION WebSpec
INVARIANT ConfiguredKeyIsUsed
