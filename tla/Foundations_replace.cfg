SPECIFICATION FoundationsSpec
CONSTANTS
    client = client
    server = server
    V1 = V1
    V2 = V2
    Processes = {client, server}
    Variants = {V1, V2}
    Declared <- TwoVariants
    Valid <- TwoValid
    Sessions <- SomeSessions
    UserValues = {"3"}
    MaxEdits = 1
    core = core
    chat = chat
    lua = lua
    t1 = t1
    t2 = t2
    d1 = d1
    d2 = d2
    d3 = d3
    Patches = {d1, d2, d3}
    Selections <- AnyKinds
SYMMETRY ProcessSymmetry
INVARIANT UpdatesPreserveInput
CHECK_DEADLOCK FALSE
