\* One withdrawal, without faults.
SPECIFICATION Spec
CONSTANTS
    u1 = u1
    ghost = ghost
    Owners <- MCOwners
    Ghosts <- MCGhosts
    Requests <- OneWithdrawal
    Payments = {p1, p2}
    Amounts = {1, 2}
    Openings = {3}
    Tasks = {t1, t2}
    NoPayment = NoPayment
    NoRequest = NoRequest
    MaxCallbacks = 1
    MaxFaults = 0
CHECK_DEADLOCK FALSE
INVARIANT WithdrawalsDoNotCredit
