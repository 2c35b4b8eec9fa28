SPECIFICATION Spec
CONSTANTS
    None = None
    Users = {u1}
    Wallets = {w1, w2}
    OnChainIds = {id1, id2}
    ChallengeIds = {h1, h2}
    Signatures = {s1, s2}
    Calls = {k1, k2}
    StartsAt = 1
    EndsAt = 2
    ClaimDeadline = 3
    MaxClaims = 1
    ProofWindow = 1
    MaxLag = 1
    MaxRevision = 2
    MaxTime = 2
INVARIANT JourneySafe
PROPERTY JourneyKept
SYMMETRY Symmetry
CHECK_DEADLOCK FALSE
