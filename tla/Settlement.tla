----------------------------- MODULE Settlement -----------------------------
(***************************************************************************)
(* What the bridge promises, apart from tabs, batches and nonces.  An      *)
(* order is booked, is paid out once, and only what was paid out is told   *)
(* to the control node and shown as submitted.  The control node is asked  *)
(* to pay a hand-back only when that was booked.  BridgeFulfillment        *)
(* implements it.                                                          *)
(***************************************************************************)
CONSTANTS
    Orders,     \* purchases
    HandBacks,  \* redeems
    Names       \* what tells payouts apart

VARIABLES
    booked,     \* what the queue took in, cleared or not
    payouts,    \* the payouts on chain, and of which order each is
    told,       \* orders that the control node knows to be paid
    submitted,  \* orders that the queue shows as submitted
    asked       \* hand-backs that the control node was asked to pay

vars == <<booked, payouts, told, submitted, asked>>

PaidOrders == {x.order : x \in payouts}

Init == booked = {} /\ payouts = {} /\ told = {} /\ submitted = {} /\ asked = {}

Book(i) ==
    /\ i \notin booked
    /\ booked' = booked \cup {i}
    /\ UNCHANGED <<payouts, told, submitted, asked>>

PayOut(p, n) ==
    /\ p \in booked \ PaidOrders
    /\ payouts' = payouts \cup {[order |-> p, name |-> n]}
    /\ UNCHANGED <<booked, told, submitted, asked>>

\* The payouts of a batch are told together.
Tell(batch) ==
    /\ told' = told \cup batch
    /\ UNCHANGED <<booked, payouts, submitted, asked>>

Submit(p) ==
    /\ p \in told
    /\ submitted' = submitted \cup {p}
    /\ UNCHANGED <<booked, payouts, told, asked>>

\* The queue is cleared; what was booked, paid and told stays so.
Clear ==
    /\ submitted' = {}
    /\ UNCHANGED <<booked, payouts, told, asked>>

Ask(d) ==
    /\ d \in booked
    /\ asked' = asked \cup {d}
    /\ UNCHANGED <<booked, payouts, told, submitted>>

Next ==
    \/ \E p \in Orders : Book(p) \/ Submit(p) \/ \E n \in Names : PayOut(p, n)
    \/ \E d \in HandBacks : Book(d) \/ Ask(d)
    \/ \E batch \in SUBSET PaidOrders : Tell(batch)
    \/ Clear

Spec == Init /\ [][Next]_vars

=============================================================================
