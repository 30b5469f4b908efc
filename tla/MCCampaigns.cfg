\* One campaign, two users, and two requests at once; the counters' bounds are where
\* new requests stop, not where running ones do.
SPECIFICATION Spec
CONSTANTS
    Campaigns = {c1}
    Users = {u1, u2}
    Requests = {r1, r2}
    MaxLikes = 1
    MaxViews = 2
    MaxRows = 2
    MaxTogether = 1
    MaxCalls = 1
CONSTRAINT Bounded
SYMMETRY Symmetry
INVARIANTS
    CreditIffViewed
    OneInteractionPerUser
    CountersAddUp
PROPERTY RevivedOnlyByOverlap
CHECK_DEADLOCK FALSE
