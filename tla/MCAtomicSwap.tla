---------------------------- MODULE MCAtomicSwap ----------------------------
\* Two wallets of one user.  The wallets may be swapped, and so may the
\* requests.
EXTENDS AtomicSwap, TLC

MCSymmetry == Permutations(Reqs) \cup Permutations(Wallets)

=============================================================================
