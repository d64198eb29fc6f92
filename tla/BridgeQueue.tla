---------------------------- MODULE BridgeQueue ----------------------------
(***************************************************************************)
(* The bridge queue: routes/bridge_queue.ts over                           *)
(* storage/bridgeQueueStore.ts.  Users order wrapped assets (purchases)    *)
(* and hand them back (redeems); the broker's control node, "CN", moves    *)
(* the rows on through the admin routes.                                   *)
(*                                                                         *)
(* A row is what the routes decide on.  A payer stands for the network,    *)
(* asset and payer address that purchaseMatchesUnpaidPayerLock compares.   *)
(* Configuration checks of the request (policy, amounts, decimals) refuse  *)
(* a request without touching the store and are left out.  "new" is a      *)
(* status of rows older than this code and is left out with them.          *)
(*                                                                         *)
(* What the control node sends is not in this repository.  BrokerMove      *)
(* assumes that it moves a row on only from the status it has now; the     *)
(* admin route itself takes any status at any time.                        *)
(***************************************************************************)
EXTENDS RequestTable, Naturals, FiniteSets

CONSTANTS
    Users,        \* account holders
    Payers,       \* network, asset and payer address
    PurchaseIds,  \* bound: purchases ever numbered
    RedeemIds,    \* bound: redeems ever numbered
    TTL,          \* PURCHASE_UNPAID_TTL_MS
    MaxTime       \* bound: the clock

ASSUME BridgeAssumption == TTL \in Nat \ {0} /\ MaxTime \in Nat

VARIABLES
    now,        \* Date.now()
    purchases,  \* the purchases of the queue file, by id
    redeems,    \* the redeems of the queue file, by id
    numbered,   \* ids handed out by newId
    wiped,      \* ids an admin cleared from the file
    asked,      \* redeems the control node was asked to pay
    frozen,     \* users whose account is frozen
    together    \* history: purchases whose requests waited at one time

queueVars == <<now, purchases, redeems, numbered, wiped, req, asked, frozen, together>>

AwaitingPayment == {"awaiting_payment"}
Committed == {"payment_detected", "ready_for_fulfillment", "fulfillment_prepared",
              "fulfillment_executing", "fulfillment_submitted"}
Statuses == AwaitingPayment \cup Committed \cup {"expired_unpaid"}

\* batch and nonce: 0 until a fulfillment is prepared
Purchase == [user: Users, payer: Payers, status: Statuses, expiresAt: Nat, batch: Nat, nonce: Nat]

\* A patched-out field is undefined, and JSON.stringify drops it.
Undefined == "undefined"
RedeemFields == {"status", "payoutTxid"}
Redeem == [user: Users, status: {"source_submitted", "payout_submitted", Undefined},
           payoutTxid: {"txid", Undefined}]

Requests ==
    {Idle} \cup [pc: {"deposit_address"}, id: PurchaseIds, user: Users, payer: Payers]
           \cup [pc: {"redeem_submit"}, id: RedeemIds]

TypeOK ==
    /\ now \in 0..MaxTime
    /\ DOMAIN purchases \subseteq PurchaseIds /\ purchases \in [DOMAIN purchases -> Purchase]
    /\ DOMAIN redeems \subseteq RedeemIds /\ redeems \in [DOMAIN redeems -> Redeem]
    /\ numbered \subseteq PurchaseIds \cup RedeemIds
    /\ DOMAIN purchases \cup DOMAIN redeems \cup wiped \cup asked \subseteq numbered
    /\ req \in [Reqs -> Requests]
    /\ frozen \subseteq Users
    /\ together \subseteq PurchaseIds \X PurchaseIds

QueueInit ==
    /\ now = 0
    /\ purchases = << >> /\ redeems = << >>
    /\ numbered = {} /\ wiped = {} /\ asked = {} /\ frozen = {} /\ together = {}
    /\ req = [r \in Reqs |-> Idle]

(***************************************************************************)
(* The store.                                                              *)
(***************************************************************************)
NormalizeForTime(row) ==
    IF row.status \in AwaitingPayment /\ now >= row.expiresAt
    THEN [row EXCEPT !.status = "expired_unpaid"]
    ELSE row

Normalized == [p \in DOMAIN purchases |-> NormalizeForTime(purchases[p])]

\* {...cur, ...patch}: a field of the patch hides the row's
Patched(row, patch) == [f \in DOMAIN row |-> IF f \in DOMAIN patch THEN patch[f] ELSE row[f]]

With(store, id, row) == [i \in DOMAIN store \cup {id} |-> IF i = id THEN row ELSE store[i]]

\* mutant: the comparison of the times swapped
UnpaidLockSwapped(row, user, payer) ==
    /\ row.status \in AwaitingPayment
    /\ row.expiresAt < now
    /\ row.user = user /\ row.payer = payer

UnpaidLock(row, user, payer) ==
    /\ row.status \in AwaitingPayment
    /\ row.expiresAt > now
    /\ row.user = user /\ row.payer = payer

(***************************************************************************)
(* User requests.  The middleware turns a frozen account away.             *)
(***************************************************************************)

\* the purchases that wait for their addresses
Waiting == {req[q].id : q \in {x \in Reqs : req[x].pc = "deposit_address"}}

\* POST purchase/request up to the await of the deposit address
RequestPurchase(r, user, payer) ==
    /\ req[r] = Idle /\ user \notin frozen
    /\ purchases' = Normalized
    /\ IF \E p \in DOMAIN Normalized : UnpaidLock(Normalized[p], user, payer)
       THEN UNCHANGED <<numbered, req, together>>  \* bridge_purchase_unpaid_payer_lock
       ELSE \E id \in PurchaseIds \ numbered :
               /\ numbered' = numbered \cup {id}
               /\ req' = [req EXCEPT ![r] =
                      [pc |-> "deposit_address", id |-> id, user |-> user, payer |-> payer]]
               /\ together' = together \cup (Waiting \X {id})
    /\ UNCHANGED <<now, redeems, wiped, asked, frozen>>

\* the control node's address arrived: the order is stored and shown
AddPurchase(r) ==
    /\ req[r].pc = "deposit_address"
    /\ purchases' = With(purchases, req[r].id,
           [user |-> req[r].user, payer |-> req[r].payer, status |-> "awaiting_payment",
            expiresAt |-> now + TTL, batch |-> 0, nonce |-> 0])
    /\ req' = [req EXCEPT ![r] = Idle]
    /\ UNCHANGED <<now, redeems, numbered, wiped, asked, frozen, together>>

\* refusal, timeout or an address of another kind: nothing is stored
AddressFails(r) ==
    /\ req[r].pc = "deposit_address"
    /\ req' = [req EXCEPT ![r] = Idle]
    /\ UNCHANGED <<now, purchases, redeems, numbered, wiped, asked, frozen, together>>

\* mutant: the control node is asked before the redeem is stored
AskBeforeRecord(r, user) ==
    /\ req[r] = Idle /\ user \notin frozen
    /\ \E id \in RedeemIds \ numbered :
          /\ numbered' = numbered \cup {id}
          /\ req' = [req EXCEPT ![r] = [pc |-> "redeem_submit", id |-> id]]
          /\ asked' = asked \cup {id}
    /\ UNCHANGED <<now, purchases, redeems, wiped, frozen, together>>

\* POST redeem/request stores the redeem, then awaits submitRedeemToCn
RequestRedeem(r, user) ==
    /\ req[r] = Idle /\ user \notin frozen
    /\ \E id \in RedeemIds \ numbered :
          /\ numbered' = numbered \cup {id}
          /\ redeems' = With(redeems, id,
               [user |-> user, status |-> "source_submitted", payoutTxid |-> Undefined])
          /\ req' = [req EXCEPT ![r] = [pc |-> "redeem_submit", id |-> id]]
    /\ UNCHANGED <<now, purchases, wiped, asked, frozen, together>>

\* the control node receives the redeem; its answer is still to come
RedeemReachesNode(r) ==
    /\ req[r].pc = "redeem_submit"
    /\ asked' = asked \cup {req[r].id}
    /\ UNCHANGED <<now, purchases, redeems, numbered, wiped, req, frozen, together>>

\* answer, error or timeout: the row keeps the status it has in the file
RedeemAnswered(r) ==
    /\ req[r].pc = "redeem_submit"
    /\ req' = [req EXCEPT ![r] = Idle]
    /\ UNCHANGED <<now, purchases, redeems, numbered, wiped, asked, frozen, together>>

(***************************************************************************)
(* Reads and the admin routes.                                             *)
(***************************************************************************)

\* purchase/status, purchase/precheck and admin/queue expire rows as they read
ReadQueue ==
    /\ purchases' = Normalized
    /\ UNCHANGED <<now, redeems, numbered, wiped, req, asked, frozen, together>>

\* admin/purchase/update: normalize, refuse a frozen buyer, patch
UpdatePurchase(p, patch) ==
    /\ p \in DOMAIN purchases
    /\ purchases' = [Normalized EXCEPT ![p] =
           IF @.user \in frozen THEN @ ELSE Patched(@, patch)]
    /\ UNCHANGED <<now, redeems, numbered, wiped, req, asked, frozen, together>>

\* What the control node does with rows before fulfillment.
BrokerMove(from) ==
    CASE from \in AwaitingPayment \cup {"expired_unpaid"} -> {"payment_detected"}
      [] from = "payment_detected" -> {"ready_for_fulfillment"}
      [] OTHER -> {}

BrokerUpdate(p) ==
    /\ p \in DOMAIN purchases
    /\ \E s \in BrokerMove(purchases[p].status) : UpdatePurchase(p, [status |-> s])

\* admin/redeem/update: a field the patch lacks is passed on as undefined, and
\* updateBridgeRedeem overwrites the row's with it
UpdateRedeem(id, patch) ==
    /\ id \in DOMAIN redeems /\ redeems[id].user \notin frozen
    /\ redeems' = [redeems EXCEPT ![id] =
           Patched(@, [f \in RedeemFields |-> IF f \in DOMAIN patch THEN patch[f] ELSE Undefined])]
    /\ UNCHANGED <<now, purchases, numbered, wiped, req, asked, frozen, together>>

NodePatches == {[status |-> "payout_submitted", payoutTxid |-> "txid"],
                [status |-> "payout_submitted"], [payoutTxid |-> "txid"]}

\* admin/queue/clear
ClearQueue ==
    /\ wiped' = wiped \cup DOMAIN purchases \cup DOMAIN redeems
    /\ purchases' = << >> /\ redeems' = << >>
    /\ UNCHANGED <<now, numbered, req, asked, frozen, together>>

\* the account state that readUserState returns changes
Freeze(user) ==
    /\ frozen' = IF user \in frozen THEN frozen \ {user} ELSE frozen \cup {user}
    /\ UNCHANGED <<now, purchases, redeems, numbered, wiped, req, asked, together>>

Tick ==
    /\ now < MaxTime
    /\ now' = now + 1
    /\ UNCHANGED <<purchases, redeems, numbered, wiped, req, asked, frozen, together>>

\* the process restarts: the file stays, the handlers are gone
Crash ==
    /\ req' = [r \in Reqs |-> Idle]
    /\ UNCHANGED <<now, purchases, redeems, numbered, wiped, asked, frozen, together>>

QueueStep ==
    \/ \E r \in Reqs :
          \/ \E user \in Users, payer \in Payers : RequestPurchase(r, user, payer)
          \/ AddPurchase(r) \/ AddressFails(r)
          \/ \E user \in Users : RequestRedeem(r, user)
          \/ RedeemReachesNode(r) \/ RedeemAnswered(r)
    \/ ReadQueue
    \/ \E p \in PurchaseIds : BrokerUpdate(p)
    \/ \E id \in RedeemIds, patch \in NodePatches : UpdateRedeem(id, patch)
    \/ \E user \in Users : Freeze(user)
    \/ Tick

(***************************************************************************)
(* Properties.                                                             *)
(***************************************************************************)

OpenForPayment(row) == row.status \in AwaitingPayment /\ now < row.expiresAt

(* Two orders of one user are open for one payer only if their requests    *)
(* waited for their addresses at one time: the unpaid payer lock of        *)
(* purchase/request turns away whoever comes once an order is in the file, *)
(* and lets in nobody else than those that it cannot know of.              *)
UnpaidLockHolds ==
    \A p, q \in DOMAIN purchases :
        /\ p # q /\ OpenForPayment(purchases[p]) /\ OpenForPayment(purchases[q])
        /\ purchases[p].user = purchases[q].user
        /\ purchases[p].payer = purchases[q].payer
        => <<p, q>> \in together \/ <<q, p>> \in together

(* The control node is never asked to pay a redeem that the queue does not *)
(* hold, across failed calls and restarts: the row is stored first.        *)
AskedIsRecorded == asked \subseteq DOMAIN redeems \cup wiped
=============================================================================
