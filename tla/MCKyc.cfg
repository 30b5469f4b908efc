\* Two users; three requests at once, so that a decision can be late while a newer
\* attempt is submitted and decided.
SPECIFICATION Spec
CONSTANTS
    Users = {u1, u2}
    Requests = {r1, r2, r3}
    MaxAttempts = 2
CONSTRAINT Bounded
SYMMETRY Symmetry
INVARIANTS
    OnePendingUnlessTwice
    PendingIsShown
PROPERTY DecidedOnceUnlessContested
CHECK_DEADLOCK FALSE
