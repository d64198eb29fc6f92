CONSTANTS
    w1 = w1
    w2 = w2
    z = z
    Wallets = {w1, w2}
    Strangers = {z}
    Families = {"ProtectKas", "OwnerRelease", "ImmediateRecovery", "DelayedRecovery", "AbsoluteTime", "RelativeSequence", "AllowedDestination", "AbsoluteTimeDestination", "Escrow"}
    Delta = 1
    MaxDaa = 2
SPECIFICATION ScriptSpec
INVARIANTS
    OnlyPromisedSpends
    PromisedSpendsAccepted
CHECK_DEADLOCK FALSE
