-------------------------- MODULE MCCovenantScript --------------------------
(* Every lock of every family, every transaction that may try to spend it. *)
EXTENDS CovenantScript

=============================================================================
