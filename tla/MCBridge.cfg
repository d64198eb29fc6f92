SPECIFICATION Spec
CONSTANTS
    Users = {u1}
    Payers = {a1}
    Reqs = {r1, r2}
    PurchaseIds = {p1, p2}
    RedeemIds = {d1}
    TTL = 1
    MaxTime = 1
    Tabs = {t1, t2}
    Batches = {1, 2}
    MaxNonce = 2
    MaxFaults = 1
INVARIANTS
    UnpaidLockHolds
    PaidOnce
    PaidIsReported
PROPERTIES
    IsASettlement
SYMMETRY Symmetry
