CONSTANTS
    w1 = w1
    b1 = b1
    t1 = t1
    f1 = f1
    f2 = f2
    None = None
    Wallets = {w1, b1}
    Brokered = {b1}
    Tokens = {t1}
    Flows = {f1, f2}
SPECIFICATION RegistrySpec
SYMMETRY Sym
INVARIANTS
    RecordedHasClaim
    RecordFollowsLedger
    DeployIsRegistered
