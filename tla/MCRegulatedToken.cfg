CONSTANTS
    w1 = w1
    w2 = w2
    r1 = r1
    r2 = r2
    Wallets = {w1, w2}
    Reqs = {r1, r2}
    Updates <- MCUpdates
    MaxEpoch = 3
    MaxTx = 6
    MaxBuilds = 1
    MaxCutOff = 1
SPECIFICATION Spec
INVARIANTS
    EpochNamesPolicy
    ChangeIsAudited
    RecordedIsLive
PROPERTIES
    LineageGrows
SYMMETRY MCSymmetry
CHECK_DEADLOCK FALSE
