--------------------------- MODULE MCIssuerToken ---------------------------
\* One wallet for each of two users; authorizations of one unit.  The two users
\* with their wallets may be swapped, and so may the handlers.
EXTENDS IssuerToken, TLC

CONSTANTS w1, w2, u1, u2

MCOwnerOf == [w \in Wallets |-> IF w = w1 THEN u1 ELSE u2]
MCEventAmount == [e \in Events |-> 1]
MCSymmetry == Permutations(Reqs) \cup {(w1 :> w2) @@ (w2 :> w1) @@ (u1 :> u2) @@ (u2 :> u1)}

=============================================================================
