SPECIFICATION MCFairSpec
CONSTANTS
    i1 = i1
    i2 = i2
    p1 = p1
    p2 = p2
    short = short
    long = long
    Items = {i1, i2}
    Patches = {p1, p2}
    Owner <- TwoOwners
    Values = {short, long}
    Size <- SizeOfValues
    ItemCost = 1
    Capacity = 9
    None = none
    MaxLobbies = 2
    MaxChanges = 2
    MaxFailures = 1
    MaxCalls = 3
INVARIANTS ReadsSound ItemsFit WrittenIsStored
PROPERTIES LobbySettles
