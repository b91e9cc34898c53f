SPECIFICATION MCSpec
CONSTANTS
    f1 = f1
    f2 = f2
    f3 = f3
    NoFeature = NoFeature
    Objects <- ClientObjects
    Mode = "Client"
    Slots = {1}
    LocalSlot = 0
    Batch = 2
    Results = {"Accepted", "Retry", "Failed"}
    ManifestFits = TRUE
    Capacity = 4
    OutRecord = 1
    InRecord = 1
    Sizes = {1}
    HelloCharges = {}
    MaxPeers = 2
    MaxSends = 2
    MaxArrivals = 1
    MaxSessions = 1
    MaxFaults = 1
INVARIANTS BudgetsExact
PROPERTIES NegotiationEnds FailuresShared OutboxDelivers QueuesServed
