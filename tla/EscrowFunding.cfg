SPECIFICATION Spec
CONSTANTS
    c1 = c1
    c2 = c2
    alice = alice
    bob = bob
    Operator = operator
    None = none
    CampaignIds = {c1, c2}
    References = {r1, r2}
    Accounts = {alice, bob}
    Receivers = {bob}
    Transfers = {t1}
    Specs <- Submitted
    Prizes = {0, 1}
    Deadlines = {3}
    MaxPrize = 1
    MinDuration = 1
    MaxDuration = 3
    MaxTime = 3
    MaxSeq = 1
    MaxVault = 1
INVARIANT TypeOK
INVARIANT Accounting
INVARIANT Solvent
INVARIANT FundingSafe
PROPERTY AllocatedAsAuthorized
PROPERTY ImplementsPrizeEscrow
SYMMETRY Symmetry
CHECK_DEADLOCK FALSE
