------------------------------ MODULE Exchange ------------------------------
(***************************************************************************)
(* What an atomic swap promises, apart from wallets, transactions and      *)
(* files.  A maker puts tokens up against a price, for one taker or for    *)
(* anyone.  The tokens go to a taker in the same moment in which the maker *)
(* is paid, or they go back to the maker; and nobody is told that either   *)
(* happened before it did.  AtomicSwap and DirectSwap implement it.        *)
(***************************************************************************)
EXTENDS Naturals

CONSTANTS Wallets, Anyone, MaxDeals

VARIABLES
    deals,    \* the exchanges that were offered
    ended,    \* how they ended: who was paid, and who has the tokens
    told      \* what the maker and the taker were told about that

vars == <<deals, ended, told>>

Deals == [id: 1..MaxDeals, maker: Wallets, taker: Wallets \cup {Anyone}]
Claimed(d, w) == [id |-> d.id, how |-> "claimed", paid |-> d.maker, to |-> w]
Returned(d) == [id |-> d.id, how |-> "refunded", paid |-> Anyone, to |-> d.maker]
IsOpen(d) == d \in deals /\ \A e \in ended : e.id # d.id

Init ==
    /\ deals \in SUBSET Deals /\ ended = {} /\ told = {}
    /\ \A d, x \in deals : d.id = x.id => d = x

Offer(d) ==
    /\ \A x \in deals : x.id # d.id
    /\ deals' = deals \cup {d}
    /\ UNCHANGED <<ended, told>>

\* The exchange proper: one step pays the maker and hands the tokens over.
Settle(d, w) ==
    /\ IsOpen(d) /\ d.taker \in {w, Anyone}
    /\ ended' = ended \cup {Claimed(d, w)}
    /\ UNCHANGED <<deals, told>>

TakeBack(d) ==
    /\ IsOpen(d)
    /\ ended' = ended \cup {Returned(d)}
    /\ UNCHANGED <<deals, told>>

Tell(e) ==
    /\ told' = told \cup {[id |-> e.id, how |-> e.how]}
    /\ UNCHANGED <<deals, ended>>

Next ==
    \/ \E d \in deals : TakeBack(d) \/ \E w \in Wallets : Settle(d, w)
    \/ \E d \in Deals : Offer(d)
    \/ \E e \in ended : Tell(e)

Spec == Init /\ [][Next]_vars

=============================================================================
