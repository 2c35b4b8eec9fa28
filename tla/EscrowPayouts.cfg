SPECIFICATION KeeperSpec
CONSTANTS
    c1 = c1
    c2 = c2
    alice = alice
    bob = bob
    Operator = operator
    None = none
    CampaignIds = {c1}
    References = {r1, r2}
    Accounts = {alice, bob}
    Receivers = {alice, bob}
    Transfers = {}
    Specs <- SelfFunded
    Prizes = {1}
    Deadlines = {1, 3}
    MaxPrize = 1
    MinDuration = 1
    MaxDuration = 3
    MaxTime = 3
    MaxSeq = 2
    MaxVault = 1
INVARIANT PayoutsSafe
INVARIANT PaidAsSigned
PROPERTY PayoutsSettle
PROPERTY AllocationsConclude
PROPERTY ImplementsLivePrizeEscrow
CHECK_DEADLOCK FALSE
