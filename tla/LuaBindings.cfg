CONSTANTS
    modA = modA
    modB = modB
    i1 = i1
    b1 = b1
    l1 = l1
    b2 = b2
    Consumers = {modA, modB}
    Declares <- MCDeclares
    Initializers = {i1}
    Bindings = {b1, b2}
    Listeners = {l1}
    Mode <- MCMode
    MaxVms = 2
    MaxJobs = 3
    JobLimit = 2
    PumpLimit = 1
    MaxRefs = 1
    MaxDepth = 3
SPECIFICATION MCSpec
INVARIANTS BindingsSound
PROPERTIES JobsHandled
CHECK_DEADLOCK FALSE
