\* One request for a wallet and one for a wallet id that no row has; one webhook call
\* for a payment, one crash or database error.
SPECIFICATION Spec
CONSTANTS
    u1 = u1
    ghost = ghost
    Owners <- MCOwners
    Ghosts <- MCGhosts
    Requests <- RequestAndGhost
    Payments = {p1, p2, p3}
    Amounts = {1, 2}
    Openings = {3}
    Tasks = {t1, t2}
    NoPayment = NoPayment
    NoRequest = NoRequest
    MaxCallbacks = 1
    MaxFaults = 1
PROPERTIES
    ConfirmedIsCredited
    QueuesDrain
CHECK_DEADLOCK FALSE
