CONSTANTS
    w1 = w1
    w2 = w2
    r1 = r1
    r2 = r2
    Anyone = Anyone
    Wallets = {w1, w2}
    Reqs = {r1, r2}
    MaxTx = 4
    MaxBuilds = 1
    MaxUnseen = 1
SPECIFICATION Spec
INVARIANTS
    TrackedIsLive
    MakerCanTakeBack
    OfferTellsTheTruth
PROPERTIES
    IsAnExchange
SYMMETRY MCSymmetry
CHECK_DEADLOCK FALSE
