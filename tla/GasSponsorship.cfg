SPECIFICATION Spec
CONSTANTS
    a1 = a1
    a2 = a2
    None = None
    Allocations = {a1, a2}
    AccountOf <- Same
    Requests <- Wallet
    Proxies = {p1, p2}
    p1 = p1
    p2 = p2
    Hashes = {"h1", "h2"}
    Budget = 1
    PerAccount = 1
    MaxAttempts = 3
    MaxEpoch = 1
    Lifetime = 1
    UseMargin = 0
    RenewMargin = 0
    Deadline = 4
    MaxTime = 2
INVARIANT GasSafe
PROPERTY AskedSafely
PROPERTY ManagedKept
SYMMETRY Symmetry
CHECK_DEADLOCK FALSE
