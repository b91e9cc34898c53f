SPECIFICATION MCSpec
CONSTANTS
    p1 = p1
    p2 = p2
    p3 = p3
    Peers = {p1, p2, p3}
    Scripts <- MCScripts
    MaxClients = 2
    AcceptsPerPoll = 1
    FramesPerPoll = 1
    InputCapacity = 4
    OutputLimit = 4
    ChatCapacity = 2
    ChatPumpLimit = 1
    MaxChat = 3
    MaxWins = 1
    MaxFailures = 1
INVARIANTS ServiceSound
PROPERTIES ServiceProgresses
CHECK_DEADLOCK FALSE
