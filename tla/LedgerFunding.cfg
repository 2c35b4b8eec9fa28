SPECIFICATION FundingSpec
CONSTANTS
    c1 = c1
    alice = alice
    direct = direct
    routed = routed
    r1 = r1
    r2 = r2
    Id = c1
    Operator = operator
    None = none
    NoWorker = nobody
    CampaignIds = {c1}
    References = {r1, r2}
    Accounts = {alice}
    Receivers = {alice}
    Transfers = {t1}
    Specs <- Drafts
    Prizes = {1}
    Deadlines = {1}
    MaxPrize = 1
    MinDuration = 1
    MaxDuration = 5
    MaxTime = 2
    MaxSeq = 1
    MaxVault = 1
    Prize = 1
    Requests = {direct, routed}
    OneClick = {routed}
    ReferenceOf <- References2
    Calls = {k1}
    Keys <- KeysOf
    Workers = {w1}
    MaxAttempts = 2
    QuoteWindow = 1
    ReservationGrace = 1
    DirectGrace = 1
    ExternalGrace = 1
INVARIANT FundingAgrees
INVARIANT FundingCarriedOn
CHECK_DEADLOCK FALSE
