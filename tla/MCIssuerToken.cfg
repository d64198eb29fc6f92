SPECIFICATION Spec
CONSTANTS
    w1 = w1
    w2 = w2
    u1 = u1
    u2 = u2
    Wallets = {w1, w2}
    Users = {u1, u2}
    OwnerOf <- MCOwnerOf
    Events = {e1}
    EventAmount <- MCEventAmount
    Reqs = {r1, r2}
    MaxSupply = 2
    MaxTx = 4
    MaxBuilds = 1
    MaxCutOff = 1
SYMMETRY MCSymmetry
INVARIANTS
    SupplyConserved
    ShownIsOwned
    AuthorizationUsedOnce
CHECK_DEADLOCK FALSE
