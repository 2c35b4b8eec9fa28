SPECIFICATION FairSpec
CONSTANTS
    i1 = i1
    None = None
    Ids = {i1}
    Headers = {"signed", "resigned"}
    IdOf <- Identifiers
    Bodies = {"b1", "b2"}
    Results = {"d1", "d2"}
    Requests = {"r1", "r2"}
    Campaigns = {"c1", "c2"}
    Faulty <- Tolerated
    MaxMishaps = 3
INVARIANTS PaidSafe OneAnswer
CHECK_DEADLOCK FALSE
PROPERTIES SettledIsDelivered
