SPECIFICATION MCSpec
CONSTANTS
    Features = {f1}
    NoFeature = NoFeature
    MaxManifest = 1
    Batch = 2
    Results = {"Accepted", "Retry", "Failed"}
    ReceiveDuringSubmit = TRUE
    MaxPeers = 2
    MaxTokens = 2
    MaxSessions = 2
    MaxWire = 2
    MaxFaults = 1
    MaxFails = 0
INVARIANTS AgreementSound ConfirmedByClient BudgetsAccounted
PROPERTIES OutcomeIsFinal InboxDelivers
