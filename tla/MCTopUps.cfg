\* Two requests of different amounts for one wallet, two activities in memory, up to
\* two webhook calls for a payment, one crash or database error.
SPECIFICATION Spec
CONSTANTS
    u1 = u1
    ghost = ghost
    Owners <- MCOwners
    Ghosts <- MCGhosts
    Requests <- TwoRequests
    Payments = {p1, p2}
    Amounts = {1, 2}
    Openings = {3}
    Tasks = {t1, t2}
    NoPayment = NoPayment
    NoRequest = NoRequest
    MaxCallbacks = 2
    MaxFaults = 1
INVARIANTS
    CreditsAreAskedFor
    PaystackCreditsOnce
    OneDebitPerRequest
    FailedMeansRefused
    ConfirmedIsOnItsWay
PROPERTIES
    OnlyLateAnswersUndoCompletion
    WorkIsUsedUp
    WalletSteps
CHECK_DEADLOCK FALSE
