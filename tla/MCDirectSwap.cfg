CONSTANTS
    w1 = w1
    b1 = b1
    r1 = r1
    r2 = r2
    Anyone = Anyone
    Wallets = {w1, b1}
    Brokered = {b1}
    Trades <- MCTrades
    Prices = {1, 2}
    Purses <- MCPurses
    Fee = 1
    MinChange = 3
    Reqs = {r1, r2}
    MaxOffers = 2
    MaxStops = 1
SPECIFICATION Spec
INVARIANTS
    EachListingItsCommit
    FilledWasSold
PROPERTIES
    IsAnExchange
    SaleCostsItsPrice
SYMMETRY MCSymmetry
CHECK_DEADLOCK FALSE
