------------------------------ MODULE MCEnergy ------------------------------
(* Instances of Energy for TLC: requests, tabs and site ids are             *)
(* interchangeable.                                                         *)
EXTENDS Energy, TLC

Symmetry == Permutations(Reqs) \cup Permutations(Tabs) \cup Permutations(Sites)
=============================================================================
