\* One wallet and two deductions at once.
SPECIFICATION Spec
CONSTANTS
    Owners = {u1}
    Payments = {p1}
    Amounts = {1, 2}
    Openings = {2}
    Calls = {c1, c2}
    NoPayment = NoPayment
    MaxRows = 2
SYMMETRY Symmetry
CHECK_DEADLOCK FALSE
CONSTRAINT Bounded
INVARIANT DeductionsCovered
