----------------------------- MODULE MCOpenSwap -----------------------------
(* Instances of OpenSwap for TLC: requests, takers and cache slots are      *)
(* interchangeable.                                                         *)
EXTENDS OpenSwap, TLC

Symmetry == Permutations(Reqs) \cup Permutations(Takers) \cup Permutations(Rids)
=============================================================================
