\* One user with two numbers, and three requests at once.
SPECIFICATION Spec
CONSTANTS
    Users = {u1}
    Phones = {p1, p2}
    NoPhone = NoPhone
    Requests = {r1, r2, r3}
SYMMETRY Symmetry
INVARIANTS
    VerifiedNumberWasConfirmed
    SpentCodesAreRefused
CHECK_DEADLOCK FALSE
