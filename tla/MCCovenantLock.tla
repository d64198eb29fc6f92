---------------------------- MODULE MCCovenantLock ----------------------------
(* Two wallets of one account; the first one funds every coin.              *)
EXTENDS CovenantLock

CONSTANTS w1, w2, c1, u1, r1, r2

MCCoinWallet == [c \in Coins |-> w1]
OneAccount == [w \in Wallets |-> u1]
=============================================================================
