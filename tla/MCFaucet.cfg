SPECIFICATION Spec
CONSTANTS
    Users = {u1, u2}
    Reqs = {r1, r2}
    Claim = 2
    DailyLimit = 5
    MaxDay = 2
    MaxCoin = 5
    MaxBatch = 2
    MaxFaults = 1
SYMMETRY Symmetry
INVARIANTS
    RecordedWithinLimit
    ChargedOnlyIfPaid
    OverdraftBounded
CHECK_DEADLOCK FALSE
