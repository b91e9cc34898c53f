CONSTANTS
    MaxListens = 2
    MaxVms = 2
    MaxLinks = 2
    MaxSends = 2
    RetainLimit = 1
SPECIFICATION MCSpec
CHECK_DEADLOCK FALSE
INVARIANT ReadyOfAdvertised
