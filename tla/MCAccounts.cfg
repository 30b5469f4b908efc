\* Two Firebase accounts, three emails, two rows.
SPECIFICATION Spec
CONSTANTS
    g1 = g1
    g2 = g2
    e1 = e1
    e2 = e2
    e3 = e3
    Uids = {g1, g2}
    Emails = {e1, e2, e3}
    FirstEmail <- FirstEmails
    Given = "given"
    FullNames <- Names
    Statuses = {"active", "blocked"}
    Roles = {"SUBSCRIBER", "ADMIN"}
    Slots = 2
    NoUid = Null
    Null = Null
    Bodies <- SomeBodies
    MaxUsers = 2
    MaxRequests = 3
    MaxUpsets = 1
INVARIANTS
    AccountKeepsItsRow
    WalletsFollowSignUps
    ColumnsAreSerial
PROPERTY WalletOpens
CHECK_DEADLOCK FALSE
