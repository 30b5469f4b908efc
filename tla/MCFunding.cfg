\* Two users, two requests or top-ups at once, up to three ledger rows in all.
SPECIFICATION Spec
CONSTANTS
    Owners = {u1, u2}
    Payments = {p1}
    Amounts = {1, 2}
    Openings = {3}
    Tasks = {t1, t2}
    NoPayment = NoPayment
    MaxFaults = 1
    MaxRows = 3
CONSTRAINT Bounded
SYMMETRY Symmetry
INVARIANTS
    CampaignsArePaid
    BudgetLostOnlyToFaults
    MoneyAccountedFor
PROPERTY WalletSteps
CHECK_DEADLOCK FALSE
