-------------------------- MODULE MCTokenRegistry --------------------------
\* One token, a standard and a broker wallet, two operations at a time.
EXTENDS TokenRegistry, TLC

Sym == Permutations(Flows)
=============================================================================
