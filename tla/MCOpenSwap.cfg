SPECIFICATION OpenSpec
CONSTANTS
    Offers = {o1}
    Takers = {t1, t2}
    Reqs = {r1, r2}
    Rids = {i1, i2}
    PrepTTL = 0
    FinalizeTTL = 1
    MaxTime = 2
    MaxFaults = 1
INVARIANTS
    RecordIsTrue
    OffersMatchListings
    SaleWasMade
SYMMETRY Symmetry
