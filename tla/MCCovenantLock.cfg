CONSTANTS
    w1 = w1
    w2 = w2
    c1 = c1
    u1 = u1
    r1 = r1
    r2 = r2
    Wallets = {w1, w2}
    Families = {"ProtectKas", "OwnerRelease", "ImmediateRecovery", "DelayedRecovery", "AbsoluteTime", "RelativeSequence", "AllowedDestination", "AbsoluteTimeDestination", "Escrow"}
    Delta = 1
    Users = {u1}
    WalletUser <- OneAccount
    Coins = {c1}
    CoinWallet <- MCCoinWallet
    Reqs = {r1, r2}
    MaxToken = 2
    MaxDaa = 1
    MaxFaults = 1
SPECIFICATION FairSpec
INVARIANTS
    RecordsAreOnChain
    ReleasedRecordIsSpent
    HoldersCanRelease
PROPERTIES
    AcceptedIsRecorded
CHECK_DEADLOCK FALSE
