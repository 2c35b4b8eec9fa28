SPECIFICATION LedgerSpec
CONSTANTS
    c1 = c1
    alice = alice
    bob = bob
    direct = direct
    routed = routed
    Id = c1
    Operator = operator
    None = none
    NoWorker = nobody
    CampaignIds = {c1}
    References = {r1}
    Accounts = {alice, bob}
    Receivers = {alice, bob}
    Transfers = {}
    Specs <- OpenAtOnce
    Prizes = {1}
    Deadlines = {1}
    MaxPrize = 1
    MinDuration = 1
    MaxDuration = 3
    MaxTime = 2
    MaxSeq = 2
    MaxVault = 1
    Claims = {direct, routed}
    OneClick = {routed}
    Receiver <- ReceiverOf
    Keys <- KeysOf
    Workers = {w1}
    MaxAttempts = 2
    QuoteWindow = 1
    MaxRefundAttempts = 2
INVARIANT LedgerSafe
CHECK_DEADLOCK FALSE
