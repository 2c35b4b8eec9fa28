SPECIFICATION Spec
CONSTANTS
    x1 = x1
    x2 = x2
    x3 = x3
    s = s
    t = t
    ann = ann
    ben = ben
    k1 = k1
    k2 = k2
    cl1 = cl1
    cl2 = cl2
    r = r
    p = p
    q = q
    h1 = h1
    h2 = h2
    j1 = j1
    j2 = j2
    e = e
    w1 = w1
    w2 = w2
    None = none
    Callers = {c1, c2}
    Campaigns = {x1, x2, x3}
    Slugs = {s, t}
    Creators = {ann, ben}
    OrderKeys = {k1, k2}
    ClaimKeys = {cl1, cl2}
    RecordKeys = {r, p, q}
    PaidKeys = {p, q}
    Requests = {h1, h2}
    JobKeys = {j1, j2}
    EventKeys = {e}
    Actors = {w1, w2}
    MaxAttempts = 2
    Workloads = {"drafts", "funding", "race", "payout", "reservations", "processing", "jobs", "events", "shelf", "papers"}
    Start <- StartOf
    Asked <- AskedIn
    Calls <- CallsAsked
    MaxVersion = 3
    MaxEvents = 1
INVARIANT RepositorySafe
INVARIANT NobodyStuck
PROPERTY ImplementsRepository
CHECK_DEADLOCK FALSE
SYMMETRY Symmetry
