\* Three users, pages of one, and two interactions.
SPECIFICATION BroadcastSpec
CONSTANTS
    N = 3
    BatchSize = 1
    Counters = {c1, c2}
    Nothing = Nothing
    MaxSaves = 2
    MaxFaults = 1
INVARIANTS
    SentOnceUnlessEarlierMoved
    LastJobIsCurrent
PROPERTIES
    WorkIsUsedUp
    JobsDrain
CHECK_DEADLOCK FALSE
