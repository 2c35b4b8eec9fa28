SPECIFICATION IssuerSpec
CONSTANTS
    s1 = s1
    s2 = s2
    None = none
    CampaignIds = {1}
    Slots = {0, 1}
    Participants = {p1, p2}
    Sponsors = {ann}
    Recipients = {bob, cat}
    Signers = {s1, s2}
    Terms <- Offers
    Amounts = {1}
    Deadlines = {2}
    Donations = {1}
    MaxTime = 3
    MaxEpoch = 2
    MaxSurplus = 1
    Bound = 1
    Approved <- OneReward
    Users = {u1, u2}
    Calls = {k1, k2}
    Configured = {s1}
    MaxLag = 1
    MaxHeads = 2
INVARIANT TypeOK
INVARIANT RewardsSafe
PROPERTY RotationRevokes
INVARIANT OneRewardPerUser
INVARIANT IssuerSafe
INVARIANT AuthorizedCanClaim
SYMMETRY Symmetry
CHECK_DEADLOCK FALSE
