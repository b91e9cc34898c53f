SPECIFICATION MCSpec
CONSTANTS
    p1 = p1
    p2 = p2
    Producers = {p1, p2}
    FileSize = 3
    Records <- SomeRecords
    Slots = 2
    Batch = 2
    Levels = {3}
    MaxRecords = 3
    MaxReports = 1
    MaxFaults = 1
    Reports = {"A"}
    Leftovers <- FullLog
    Writers = {p1, p2}
    Channels = {"channel"}
    Usable = 4
    Sizes = {2, 3}
    TraceBatch = 1
    MaxTraces = 2
    MaxTroubles = 1
    Threads = {p1, p2}
    PatchOwners = {"A", "B"}
    Operations <- SomeOperations
    Accesses = {"Read", "Write"}
    Identities <- SomeIdentities
    MaxAttempts = 2
    Depth <- SomeDepth
    MaxRaised = 2
    MaxTorn = 1
INVARIANTS LogSound TracesSound CrashesSound
PROPERTIES ReportingEnds
CHECK_DEADLOCK FALSE
