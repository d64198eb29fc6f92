---------------------------- MODULE MCDirectSwap ----------------------------
\* Two wallets, of which a broker keeps one's key: a coin that leaves change,
\* coins of which one is not enough, and a coin that leaves a remainder.
EXTENDS DirectSwap, TLC

CONSTANTS w1, b1

MCPurses == {<<9, 2>>, <<2, 2>>, <<4>>}
MCTrades == {<<w1, b1>>, <<b1, w1>>}
MCSymmetry == Permutations(Reqs)

=============================================================================
