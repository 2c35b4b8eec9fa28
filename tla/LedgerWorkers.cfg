SPECIFICATION LedgerSpec
CONSTANTS
    c1 = c1
    alice = alice
    bob = bob
    direct = direct
    routed = routed
    Id = c1
    Operator = operator
    None = none
    NoWorker = nobody
    CampaignIds = {c1}
    References = {r1}
    Accounts = {alice, bob}
    Receivers = {alice, bob}
    Transfers = {}
    Specs <- OpensLater
    Prizes = {1}
    Deadlines = {2}
    MaxPrize = 1
    MinDuration = 1
    MaxDuration = 3
    MaxTime = 2
    MaxSeq = 1
    MaxVault = 1
    Claims = {direct}
    OneClick = {}
    Receiver <- ReceiverOf
    Keys <- KeysOf
    Workers = {w1, w2}
    MaxAttempts = 1
    QuoteWindow = 1
    MaxRefundAttempts = 2
INVARIANT LedgerSafe
PROPERTY SettledStays
CHECK_DEADLOCK FALSE
SYMMETRY WorkerSymmetry
