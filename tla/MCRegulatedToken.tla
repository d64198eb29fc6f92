-------------------------- MODULE MCRegulatedToken --------------------------
\* Two wallets of one user; the user freezes one or resets the policy.
\* The wallets may be swapped, and so may the handlers.
EXTENDS RegulatedToken, TLC

MCUpdates ==
    {[governed |-> TRUE, allowed |-> Wallets, frozen |-> F] : F \in {{w} : w \in Wallets}}
MCSymmetry == Permutations(Reqs) \cup Permutations(Wallets)

=============================================================================
