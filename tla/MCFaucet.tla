------------------------------ MODULE MCFaucet ------------------------------
(* Instances of Faucet for TLC: two claims are all the usage file allows    *)
(* in a day, and requests are interchangeable.                              *)
EXTENDS Faucet, TLC

Symmetry == Permutations(Reqs) \cup Permutations(Users)
=============================================================================
