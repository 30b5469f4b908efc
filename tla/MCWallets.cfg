\* Two wallets, two payments, two calls at once and, through the ledger of up to two
\* rows a wallet, any sequence of such pairs.
SPECIFICATION Spec
CONSTANTS
    Owners = {u1, u2}
    Payments = {p1, p2}
    Amounts = {1, 2}
    Openings = {2}
    Calls = {c1, c2}
    NoPayment = NoPayment
    MaxRows = 2
CONSTRAINT Bounded
SYMMETRY Symmetry
INVARIANTS
    TypeOK
    BalanceIsLastAfter
    RowsStartAtCommittedBalances
    CreditedOnce
    ChainedUnlessOverlapped
    MoneyConserved
PROPERTY KeepsPromise
CHECK_DEADLOCK FALSE
