------------------------------ MODULE MCBridge ------------------------------
(* Instances of the bridge for TLC: purchases, tabs and requests are        *)
(* interchangeable.                                                         *)
EXTENDS BridgeFulfillment, TLC

Symmetry == Permutations(PurchaseIds) \cup Permutations(Tabs) \cup Permutations(Reqs)
=============================================================================
