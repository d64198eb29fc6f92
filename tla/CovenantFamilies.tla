-------------------------- MODULE CovenantFamilies --------------------------
(***************************************************************************)
(* The nine kinds of programmable-KAS lock of server.ts: what a lock is,   *)
(* which locks each build route can make, and what the user is promised    *)
(* about who may spend one, when, and to whom (covenants.html 395-680).    *)
(*                                                                         *)
(* Every family has an owner path.  In ImmediateRecovery, DelayedRecovery  *)
(* and Escrow a second party, `other', has a path too; Escrow's owner path *)
(* is the seller's release and its other path the buyer's refund.  In the  *)
(* two destination families `other' is the only address a release may pay. *)
(* A wallet stands for its address0 and its key.                           *)
(***************************************************************************)
EXTENDS Naturals

CONSTANTS
    Wallets,   \* wallets of every user of the server
    Families,  \* the families under study
    Delta,     \* the DAA delta a user enters for a lock with a target
    MaxDaa     \* bound: DAA scores

AllFamilies ==
    {"ProtectKas", "OwnerRelease", "ImmediateRecovery", "DelayedRecovery",
     "AbsoluteTime", "RelativeSequence", "AllowedDestination",
     "AbsoluteTimeDestination", "Escrow"}

ASSUME FamiliesAssumption ==
    /\ Families \subseteq AllFamilies
    /\ Delta \in Nat \ {0} /\ MaxDaa \in Nat

\* creator funds the lock; unlock is a DAA score (0: no time condition).
Lock(f, creator, owner, other, unlock) ==
    [family |-> f, creator |-> creator, owner |-> owner, other |-> other,
     unlock |-> unlock]
Locks ==
    [family: Families, creator: Wallets, owner: Wallets, other: Wallets,
     unlock: Nat]

-----------------------------------------------------------------------------
\* The locks that the build route of a family makes for the active wallet w.
ProtectKasLocks(w) == {Lock("ProtectKas", w, o, o, 0) : o \in Wallets}
OwnerReleaseLocks(w) == {Lock("OwnerRelease", w, o, o, 0) : o \in Wallets}
ImmediateRecoveryLocks(w) ==
    {Lock("ImmediateRecovery", w, o, x, 0) : o, x \in Wallets}
DelayedRecoveryLocks(w, now) ==
    {Lock("DelayedRecovery", w, w, x, now + Delta) : x \in Wallets}
AbsoluteTimeLocks(w, now) ==
    {Lock("AbsoluteTime", w, o, o, now + Delta) : o \in Wallets}
\* The target is relative: it counts from the block that accepts the lock.
RelativeSequenceLocks(w) ==
    {Lock("RelativeSequence", w, o, o, Delta) : o \in Wallets}
AllowedDestinationLocks(w) ==
    {Lock("AllowedDestination", w, w, x, 0) : x \in Wallets}
AbsoluteTimeDestinationLocks(w, now) ==
    {Lock("AbsoluteTimeDestination", w, w, x, now + Delta) : x \in Wallets}
EscrowLocks(w, now) ==
    {Lock("Escrow", w, seller, buyer, now + Delta) : seller, buyer \in Wallets}

NewLocks(w, now) ==
    {l \in ProtectKasLocks(w) \cup OwnerReleaseLocks(w)
           \cup ImmediateRecoveryLocks(w) \cup DelayedRecoveryLocks(w, now)
           \cup AbsoluteTimeLocks(w, now) \cup RelativeSequenceLocks(w)
           \cup AllowedDestinationLocks(w)
           \cup AbsoluteTimeDestinationLocks(w, now) \cup EscrowLocks(w, now) :
        l.family \in Families}

-----------------------------------------------------------------------------
\* What a lock promises.
Paths(l) ==
    IF l.family \in {"ImmediateRecovery", "DelayedRecovery", "Escrow"}
    THEN {"owner", "other"} ELSE {"owner"}

Party(l, path) == IF path = "owner" THEN l.owner ELSE l.other

\* The routes build a release that pays this wallet.
PaidTo(l, path) ==
    IF l.family \in {"AllowedDestination", "AbsoluteTimeDestination"}
    THEN l.other ELSE Party(l, path)

\* The families whose script leaves the outputs of a release free.
AnyOutputs(l) ==
    l.family \in {"ProtectKas", "OwnerRelease", "ImmediateRecovery",
                  "DelayedRecovery", "AbsoluteTime", "RelativeSequence"}

TimeBound(l, path) ==
    \/ l.family \in {"AbsoluteTime", "RelativeSequence", "AbsoluteTimeDestination"}
    \/ l.family \in {"DelayedRecovery", "Escrow"} /\ path = "other"

Mature(l, path, now) == TimeBound(l, path) => now >= l.unlock
=============================================================================
