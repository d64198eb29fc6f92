---------------------------- MODULE BridgeProofs ----------------------------
(***************************************************************************)
(* Theorems about the bridge: whatever the number of purchases, requests,  *)
(* tabs, batches and faults, a purchase is paid out once, what was paid is *)
(* on its way to the control node, and a redeem is stored before it is     *)
(* sent out.                                                               *)
(*                                                                         *)
(* The argument follows a row through its stages.  An early row is in no   *)
(* transfer file.  A prepared row is in files, one line for each nonce it  *)
(* was prepared with, but no tab sends any of them and none was paid.      *)
(* After the claim the row keeps its nonce, and only the one tab that      *)
(* claimed it sends a line of it; until that tab reveals, no line of the   *)
(* purchase was paid, and afterwards exactly the claimed one.  Taken       *)
(* together these survive a cleared queue, because an id that was cleared  *)
(* never returns and its lines cannot be claimed any more.                 *)
(***************************************************************************)
EXTENDS BridgeFulfillment, TLAPS

(***************************************************************************)
(* The inductive invariant.                                                *)
(***************************************************************************)
Early == {"awaiting_payment", "expired_unpaid", "payment_detected", "ready_for_fulfillment"}
Taken == {"fulfillment_executing", "fulfillment_submitted"}
Busy(t) == tab[t] # Resting

\* The id of an order that waits for its address is its own and is new to the
\* file; a redeem that is being sent was stored.
RequestsOK ==
    \A r \in Reqs :
        /\ req[r].pc = "deposit_address" =>
             /\ req[r].id \in numbered
             /\ req[r].id \notin DOMAIN purchases \cup DOMAIN redeems \cup wiped
             /\ \A s \in Reqs : req[s].pc = "deposit_address" /\ req[s].id = req[r].id => s = r
        /\ req[r].pc = "redeem_submit" => req[r].id \in DOMAIN redeems \cup wiped

\* A nonce is in one line of one file, and a line is of a purchase of the queue or
\* of one that was cleared.
FilesOK ==
    /\ \A f, g \in files : f.nonce = g.nonce => f = g
    /\ \A f \in files : f.id \in DOMAIN purchases \cup wiped

\* What the status of a row says about the files, the payouts and the tabs.
RowsOK ==
    \A p \in DOMAIN purchases :
        /\ purchases[p].status \in Early => \A f \in files : f.id # p
        /\ purchases[p].status \notin Early =>
             [id |-> p, batch |-> purchases[p].batch, nonce |-> purchases[p].nonce] \in files
        /\ purchases[p].status = "fulfillment_prepared" =>
             /\ \A f \in files : f.id = p => paid[f.nonce] = 0
             /\ \A t \in Tabs : Busy(t) => tab[t].row.id # p

\* A tab sends a line that it claimed, alone of its purchase, and the payout comes
\* with the reveal.
TabsOK ==
    \A t \in Tabs : Busy(t) =>
        /\ tab[t].row \in files
        /\ tab[t].row.id \in DOMAIN purchases => purchases[tab[t].row.id].nonce = tab[t].row.nonce
        /\ tab[t].pc \in {"built", "committed"} =>
             \A f \in files : f.id = tab[t].row.id => paid[f.nonce] = 0
        /\ tab[t].pc = "revealing" => paid[tab[t].row.nonce] = 1
        /\ \A u \in Tabs : Busy(u) /\ tab[u].row.id = tab[t].row.id => u = t

\* A payout is of a line of a file, and what the control node is told was paid.
PayoutsOK ==
    /\ \A n \in Nonces : paid[n] > 0 => n \in Used
    /\ \A b \in Batches : \A f \in results[b] : f \in files /\ paid[f.nonce] = 1
    /\ \A f \in known : f \in files /\ paid[f.nonce] = 1

BookOK ==
    /\ FilesOK
    /\ RowsOK
    /\ TabsOK
    /\ PayoutsOK
    /\ PaidOnce
    /\ PaidIsReported

IInv ==
    /\ FulfillTypeOK
    /\ RequestsOK
    /\ AskedIsRecorded
    /\ BookOK

-----------------------------------------------------------------------------
(* What the store does to a row. *)

LEMMA NormalizedRow ==
    ASSUME TypeOK, NEW p \in DOMAIN purchases
    PROVE  /\ DOMAIN Normalized = DOMAIN purchases
           /\ purchases[p] \in Purchase
           /\ Normalized[p] \in Purchase
           /\ Normalized[p].user = purchases[p].user
           /\ Normalized[p].payer = purchases[p].payer
           /\ Normalized[p].expiresAt = purchases[p].expiresAt
           /\ Normalized[p].batch = purchases[p].batch
           /\ Normalized[p].nonce = purchases[p].nonce
           /\ \/ Normalized[p].status = purchases[p].status
              \/ /\ purchases[p].status = "awaiting_payment"
                 /\ Normalized[p].status = "expired_unpaid"
           /\ OpenForPayment(purchases[p]) => Normalized[p] = purchases[p]
<1>1. purchases[p] \in Purchase /\ now \in Nat
  BY DEF TypeOK
<1>2. Normalized[p] = NormalizeForTime(purchases[p]) /\ DOMAIN Normalized = DOMAIN purchases
  BY DEF Normalized
<1>3. CASE purchases[p].status \in AwaitingPayment /\ now >= purchases[p].expiresAt
  <2>1. Normalized[p] = [purchases[p] EXCEPT !.status = "expired_unpaid"]
    BY <1>2, <1>3 DEF NormalizeForTime
  <2>2. purchases[p].expiresAt \in Nat
    BY <1>1 DEF Purchase
  <2>3. ~ OpenForPayment(purchases[p])
    BY <1>1, <1>3, <2>2 DEF OpenForPayment
  <2> QED
    BY <1>1, <1>2, <1>3, <2>1, <2>3 DEF Purchase, Statuses, AwaitingPayment
<1>4. CASE ~ (purchases[p].status \in AwaitingPayment /\ now >= purchases[p].expiresAt)
  BY <1>1, <1>2, <1>4 DEF NormalizeForTime
<1> QED
  BY <1>3, <1>4

\* A patch of the status, and the patch of a preparation.
LEMMA PatchedStatus ==
    ASSUME NEW row \in Purchase, NEW s \in Statuses
    PROVE  Patched(row, [status |-> s]) = [row EXCEPT !.status = s]
<1>1. DOMAIN row = {"user", "payer", "status", "expiresAt", "batch", "nonce"}
  BY DEF Purchase
<1>2. row = [f \in DOMAIN row |-> row[f]]
  BY DEF Purchase
<1> QED
  BY <1>1, <1>2 DEF Patched

LEMMA PatchedPreparation ==
    ASSUME NEW row \in Purchase, NEW q, DOMAIN q = {"status", "batch", "nonce"}
    PROVE  Patched(row, q)
             = [row EXCEPT !.status = q.status, !.batch = q.batch, !.nonce = q.nonce]
<1> DEFINE m == [f \in DOMAIN row |-> IF f = "status" THEN q.status ELSE IF f = "batch" THEN q.batch
                                       ELSE IF f = "nonce" THEN q.nonce ELSE row[f]]
<1>1. DOMAIN row = {"user", "payer", "status", "expiresAt", "batch", "nonce"}
  BY DEF Purchase
<1>2. row = [f \in DOMAIN row |-> row[f]]
  BY DEF Purchase
<1>3. Patched(row, q) = m
  BY DEF Patched
<1>4. [row EXCEPT !.status = q.status, !.batch = q.batch, !.nonce = q.nonce] = m
  BY <1>1, <1>2
<1> QED
  BY <1>3, <1>4

LEMMA UpdatedRow ==
    ASSUME TypeOK, NEW p \in DOMAIN purchases, NEW patch, NEW row \in Purchase,
           UpdatePurchase(p, patch), Patched(Normalized[p], patch) = row
    PROVE  /\ DOMAIN purchases' = DOMAIN purchases
           /\ purchases' \in [DOMAIN purchases -> Purchase]
           /\ \A q \in DOMAIN purchases \ {p} : purchases'[q] = Normalized[q]
           /\ purchases'[p] = IF purchases[p].user \in frozen THEN Normalized[p] ELSE row
<1>1. \A q \in DOMAIN purchases : Normalized[q] \in Purchase
  BY NormalizedRow
<1>2. DOMAIN Normalized = DOMAIN purchases /\ Normalized[p].user = purchases[p].user
  BY NormalizedRow
<1>3. purchases' = [Normalized EXCEPT ![p] =
                      IF @.user \in frozen THEN @ ELSE Patched(@, patch)]
  BY DEF UpdatePurchase
<1>4. purchases' = [q \in DOMAIN purchases |->
                      IF q = p THEN IF purchases[p].user \in frozen THEN Normalized[p] ELSE row
                               ELSE Normalized[q]]
  BY <1>2, <1>3 DEF Normalized
<1> QED
  BY <1>1, <1>4

-----------------------------------------------------------------------------
(* Steps of the queue: a row keeps its preparation, and its status unless  *)
(* it was early and stays so; a new row has an id that no file names.      *)

RowKept(p) ==
    /\ purchases'[p].user = purchases[p].user
    /\ purchases'[p].payer = purchases[p].payer
    /\ purchases'[p].batch = purchases[p].batch
    /\ purchases'[p].nonce = purchases[p].nonce
    /\ \/ purchases'[p].status = purchases[p].status
       \/ purchases[p].status \in Early /\ purchases'[p].status \in Early
    /\ purchases'[p].status = "awaiting_payment" => purchases'[p] = purchases[p]

RowsGrow ==
    /\ DOMAIN purchases \subseteq DOMAIN purchases'
    /\ \A p \in DOMAIN purchases : RowKept(p)
    /\ \A p \in DOMAIN purchases' \ DOMAIN purchases :
          p \notin wiped /\ purchases'[p].status \in Early

RowsKept ==
    /\ DOMAIN purchases' = DOMAIN purchases
    /\ purchases' \in [DOMAIN purchases -> Purchase]
    /\ \A p \in DOMAIN purchases : RowKept(p)

\* A row that was only normalized is kept.
LEMMA NormalizedIsKept ==
    ASSUME TypeOK, NEW p \in DOMAIN purchases, purchases'[p] = Normalized[p]
    PROVE  DOMAIN Normalized = DOMAIN purchases /\ Normalized[p] \in Purchase /\ RowKept(p)
<1>1. /\ DOMAIN Normalized = DOMAIN purchases /\ Normalized[p] \in Purchase
      /\ Normalized[p].user = purchases[p].user
      /\ Normalized[p].payer = purchases[p].payer
      /\ Normalized[p].batch = purchases[p].batch
      /\ Normalized[p].nonce = purchases[p].nonce
      /\ \/ Normalized[p].status = purchases[p].status
         \/ /\ purchases[p].status = "awaiting_payment"
            /\ Normalized[p].status = "expired_unpaid"
  BY NormalizedRow
<1>2. Normalized[p].status = "awaiting_payment" => Normalized[p] = purchases[p]
  BY <1>1 DEF Normalized, NormalizeForTime, AwaitingPayment
<1> QED
  BY <1>1, <1>2 DEF RowKept, Early

LEMMA NormalizedKeeps ==
    ASSUME TypeOK, purchases' = Normalized
    PROVE  RowsKept
<1>1. \A p \in DOMAIN purchases :
        DOMAIN Normalized = DOMAIN purchases /\ Normalized[p] \in Purchase /\ RowKept(p)
  BY NormalizedIsKept
<1>2. Normalized = [p \in DOMAIN purchases |-> Normalized[p]]
  BY DEF Normalized
<1> QED
  BY <1>1, <1>2 DEF RowsKept

LEMMA BrokerKeeps ==
    ASSUME TypeOK, NEW p, BrokerUpdate(p)
    PROVE  RowsKept
<1>1. p \in DOMAIN purchases
  BY DEF BrokerUpdate
<1>2. PICK s : s \in BrokerMove(purchases[p].status) /\ UpdatePurchase(p, [status |-> s])
  BY DEF BrokerUpdate
<1>3. purchases[p] \in Purchase /\ Normalized[p] \in Purchase
  BY <1>1, NormalizedRow
<1>4. /\ purchases[p].status \in Early
      /\ s \in {"payment_detected", "ready_for_fulfillment"}
  <2>1. purchases[p].status \in Statuses
    BY <1>3 DEF Purchase
  <2> QED
    BY <1>2, <2>1 DEF BrokerMove, Statuses, AwaitingPayment, Committed, Early
<1>5. Patched(Normalized[p], [status |-> s]) = [Normalized[p] EXCEPT !.status = s]
  BY <1>3, <1>4, PatchedStatus DEF Statuses, Committed
<1>6. [Normalized[p] EXCEPT !.status = s] \in Purchase
  BY <1>3, <1>4 DEF Purchase, Statuses, Committed
<1>7. /\ DOMAIN purchases' = DOMAIN purchases
      /\ purchases' \in [DOMAIN purchases -> Purchase]
      /\ \A q \in DOMAIN purchases \ {p} : purchases'[q] = Normalized[q]
      /\ purchases'[p] = IF purchases[p].user \in frozen THEN Normalized[p]
                         ELSE [Normalized[p] EXCEPT !.status = s]
  BY <1>1, <1>2, <1>5, <1>6, UpdatedRow
<1>8. ASSUME NEW q \in DOMAIN purchases
      PROVE  RowKept(q)
  <2>1. /\ Normalized[q] \in Purchase
        /\ Normalized[q].user = purchases[q].user
        /\ Normalized[q].payer = purchases[q].payer
        /\ Normalized[q].batch = purchases[q].batch
        /\ Normalized[q].nonce = purchases[q].nonce
    BY NormalizedRow
  <2>3. CASE purchases'[q] = Normalized[q]
    BY <2>3, NormalizedIsKept
  <2>4. CASE q = p /\ purchases'[p] = [Normalized[p] EXCEPT !.status = s]
    BY <1>4, <2>1, <2>4 DEF RowKept, Early, Purchase
  <2> QED
    BY <1>7, <2>3, <2>4
<1> QED
  BY <1>7, <1>8 DEF RowsKept

LEMMA SameKeeps ==
    ASSUME TypeOK, UNCHANGED purchases
    PROVE  RowsKept
BY DEF RowsKept, RowKept, TypeOK

LEMMA BookGrows ==
    ASSUME FulfillTypeOK, BookOK, RowsGrow, UNCHANGED wiped, UNCHANGED fulfillVars
    PROVE  BookOK'
<1> USE DEF fulfillVars
<1>1. \A f \in files : f.id \in DOMAIN purchases' => f.id \in DOMAIN purchases
  BY DEF BookOK, FilesOK, RowsGrow
<1>2. FilesOK'
  BY DEF BookOK, FilesOK, RowsGrow
<1>3. RowsOK'
  <2> SUFFICES ASSUME NEW p \in DOMAIN purchases'
               PROVE  /\ purchases'[p].status \in Early => \A f \in files : f.id # p
                      /\ purchases'[p].status \notin Early =>
                           [id |-> p, batch |-> purchases'[p].batch, nonce |-> purchases'[p].nonce]
                             \in files
                      /\ purchases'[p].status = "fulfillment_prepared" =>
                           /\ \A f \in files : f.id = p => paid[f.nonce] = 0
                           /\ \A t \in Tabs : Busy(t) => tab[t].row.id # p
    BY DEF RowsOK, Busy
  <2>1. CASE p \in DOMAIN purchases
    <3>1. RowKept(p)
      BY <2>1 DEF RowsGrow
    <3> QED
      BY <2>1, <3>1 DEF BookOK, RowsOK, RowKept, Early
  <2>2. CASE p \notin DOMAIN purchases
    <3>1. purchases'[p].status \in Early /\ \A f \in files : f.id # p
      BY <1>1, <2>2 DEF RowsGrow
    <3> QED
      BY <3>1 DEF Early
  <2> QED
    BY <2>1, <2>2
<1>4. TabsOK'
  <2>1. ASSUME NEW t \in Tabs, Busy(t), tab[t].row.id \in DOMAIN purchases'
        PROVE  purchases'[tab[t].row.id].nonce = tab[t].row.nonce
    BY <1>1, <2>1 DEF BookOK, TabsOK, RowsGrow, RowKept
  <2> QED
    BY <2>1 DEF BookOK, TabsOK, Busy
<1>5. PayoutsOK'
  BY DEF BookOK, PayoutsOK, Used
<1>6. PaidOnce'
  <2>1. ASSUME NEW f \in files, paid[f.nonce] > 0, f.id \in DOMAIN purchases'
        PROVE  /\ purchases'[f.id].nonce = f.nonce
               /\ purchases'[f.id].status \in Taken
    <3>1. f.id \in DOMAIN purchases
      BY <1>1, <2>1
    <3>2. RowKept(f.id) /\ purchases[f.id].nonce = f.nonce /\ purchases[f.id].status \in Taken
      BY <2>1, <3>1 DEF RowsGrow, BookOK, PaidOnce, Taken
    <3> QED
      BY <3>2 DEF RowKept, Taken, Early
  <2> QED
    BY <2>1 DEF BookOK, PaidOnce, Taken
<1>7. PaidIsReported'
  <2>1. ASSUME NEW p \in DOMAIN purchases', purchases'[p].status = "fulfillment_submitted"
        PROVE  purchases'[p].nonce \in Nonces /\ paid[purchases'[p].nonce] = 1
    <3>1. p \in DOMAIN purchases
      BY <2>1 DEF RowsGrow, Early
    <3>2. RowKept(p)
      BY <3>1 DEF RowsGrow
    <3>3. purchases[p].status = "fulfillment_submitted" /\ purchases'[p].nonce = purchases[p].nonce
      BY <2>1, <3>2 DEF RowKept, Early
    <3> QED
      BY <3>1, <3>3 DEF BookOK, PaidIsReported
  <2> QED
    BY <2>1 DEF BookOK, PaidIsReported, Revealing
<1> QED
  BY <1>2, <1>3, <1>4, <1>5, <1>6, <1>7 DEF BookOK

-----------------------------------------------------------------------------
(* The queue's own part of the invariant, step by step. *)

QueueOK == TypeOK /\ RequestsOK /\ AskedIsRecorded

\* The rows of the purchases change, or the clock, or who is frozen.
LEMMA RowsStep ==
    ASSUME QueueOK, DOMAIN purchases' = DOMAIN purchases,
           purchases' \in [DOMAIN purchases -> Purchase],
           UNCHANGED <<redeems, numbered, wiped, req, asked, together>>,
           now' \in 0..MaxTime, frozen' \subseteq Users
    PROVE  QueueOK'
<1>1. TypeOK'
  BY DEF QueueOK, TypeOK
<1>2. RequestsOK'
  BY DEF QueueOK, RequestsOK
<1>3. AskedIsRecorded'
  BY DEF QueueOK, AskedIsRecorded
<1> QED
  BY <1>1, <1>2, <1>3 DEF QueueOK

\* Handlers end, or are cut off.
LEMMA HandlersEnd ==
    ASSUME QueueOK, UNCHANGED <<now, purchases, redeems, numbered, wiped, asked, frozen, together>>,
           req' \in [Reqs -> Requests], \A r \in Reqs : req'[r] \in {req[r], Idle}
    PROVE  QueueOK'
<1>1. TypeOK'
  BY DEF QueueOK, TypeOK
<1>2. RequestsOK'
  <2>1. \A r \in Reqs : req'[r].pc \in {"deposit_address", "redeem_submit"} => req'[r] = req[r]
    BY DEF Idle
  <2> QED
    BY <2>1 DEF QueueOK, RequestsOK
<1>3. AskedIsRecorded'
  BY DEF QueueOK, AskedIsRecorded
<1> QED
  BY <1>1, <1>2, <1>3 DEF QueueOK

LEMMA RequestPurchaseKeeps ==
    ASSUME QueueOK, NEW r \in Reqs, NEW user \in Users, NEW payer \in Payers,
           RequestPurchase(r, user, payer)
    PROVE  QueueOK' /\ RowsKept
<1>1. RowsKept
  BY NormalizedKeeps DEF QueueOK, RequestPurchase
<1>2. CASE UNCHANGED <<numbered, req, together>>
  <2>1. QueueOK'
    BY <1>1, <1>2, RowsStep DEF RequestPurchase, RowsKept, QueueOK, TypeOK
  <2> QED
    BY <1>1, <2>1
<1>3. ASSUME NEW id \in PurchaseIds \ numbered,
             numbered' = numbered \cup {id},
             req' = [req EXCEPT ![r] =
                       [pc |-> "deposit_address", id |-> id, user |-> user, payer |-> payer]],
             together' = together \cup (Waiting \X {id})
      PROVE  QueueOK'
  <2> USE DEF RequestPurchase
  <2>1. TypeOK'
    <3>1. Waiting \subseteq PurchaseIds
      BY DEF QueueOK, TypeOK, Waiting, Requests, Idle
    <3>2. together' \subseteq PurchaseIds \X PurchaseIds
      BY <1>3, <3>1 DEF QueueOK, TypeOK
    <3> QED
      BY <1>1, <1>3, <3>2 DEF QueueOK, TypeOK, RowsKept, Requests
  <2>2. RequestsOK'
    BY <1>1, <1>3 DEF QueueOK, TypeOK, RequestsOK, RowsKept
  <2>3. AskedIsRecorded'
    BY DEF QueueOK, AskedIsRecorded
  <2> QED
    BY <2>1, <2>2, <2>3 DEF QueueOK
<1> QED
  BY <1>1, <1>2, <1>3 DEF RequestPurchase

LEMMA AddPurchaseKeeps ==
    ASSUME QueueOK, NEW r \in Reqs, AddPurchase(r)
    PROVE  QueueOK' /\ RowsGrow /\ UNCHANGED wiped
<1> USE DEF AddPurchase
<1>1. PICK e : e = req[r]
  OBVIOUS
<1>2. /\ e.pc = "deposit_address" /\ e.id \in PurchaseIds /\ e.user \in Users /\ e.payer \in Payers
      /\ e.id \in numbered /\ e.id \notin DOMAIN purchases \cup DOMAIN redeems \cup wiped
  BY <1>1 DEF QueueOK, TypeOK, RequestsOK, Requests, Idle
<1>3. PICK row : row = [user |-> e.user, payer |-> e.payer, status |-> "awaiting_payment",
                        expiresAt |-> now + TTL, batch |-> 0, nonce |-> 0]
  OBVIOUS
<1>4. row \in Purchase /\ row.status = "awaiting_payment"
  BY <1>2, <1>3, BridgeAssumption DEF QueueOK, TypeOK, Purchase, Statuses, AwaitingPayment
<1>5. purchases' = [i \in DOMAIN purchases \cup {e.id} |-> IF i = e.id THEN row ELSE purchases[i]]
  BY <1>1, <1>3 DEF With
<1>6. /\ DOMAIN purchases' = DOMAIN purchases \cup {e.id}
      /\ purchases' \in [DOMAIN purchases' -> Purchase]
      /\ purchases'[e.id] = row
      /\ \A p \in DOMAIN purchases : purchases'[p] = purchases[p]
  BY <1>2, <1>4, <1>5 DEF QueueOK, TypeOK
<1>7. TypeOK'
  BY <1>2, <1>6 DEF QueueOK, TypeOK, Requests
<1>8. RequestsOK'
  <2>1. \A s \in Reqs : req'[s] = IF s = r THEN Idle ELSE req[s]
    BY DEF QueueOK, TypeOK
  <2>2. \A s \in Reqs : req'[s].pc = "deposit_address" => req'[s].id # e.id
    BY <1>1, <1>2, <2>1 DEF QueueOK, RequestsOK, Idle
  <2> QED
    BY <1>6, <2>1, <2>2 DEF QueueOK, RequestsOK, Idle
<1>9. AskedIsRecorded'
  BY DEF QueueOK, AskedIsRecorded
<1>10. RowsGrow
  BY <1>2, <1>4, <1>6 DEF RowsGrow, RowKept, Early
<1> QED
  BY <1>7, <1>8, <1>9, <1>10 DEF QueueOK

LEMMA RequestRedeemKeeps ==
    ASSUME QueueOK, NEW r \in Reqs, NEW user \in Users, RequestRedeem(r, user)
    PROVE  QueueOK'
<1> USE DEF RequestRedeem
<1>1. PICK id \in RedeemIds \ numbered :
        /\ numbered' = numbered \cup {id}
        /\ redeems' = With(redeems, id,
             [user |-> user, status |-> "source_submitted", payoutTxid |-> Undefined])
        /\ req' = [req EXCEPT ![r] = [pc |-> "redeem_submit", id |-> id]]
  OBVIOUS
<1>2. [user |-> user, status |-> "source_submitted", payoutTxid |-> Undefined] \in Redeem
  BY DEF Redeem
<1>3. /\ DOMAIN redeems' = DOMAIN redeems \cup {id}
      /\ redeems' \in [DOMAIN redeems' -> Redeem]
  BY <1>1, <1>2 DEF With, QueueOK, TypeOK
<1>4. TypeOK'
  BY <1>1, <1>3 DEF QueueOK, TypeOK, Requests
<1>5. RequestsOK'
  BY <1>1, <1>3 DEF QueueOK, TypeOK, RequestsOK
<1>6. AskedIsRecorded'
  BY <1>3 DEF QueueOK, AskedIsRecorded
<1> QED
  BY <1>4, <1>5, <1>6 DEF QueueOK

LEMMA RedeemReachesNodeKeeps ==
    ASSUME QueueOK, NEW r \in Reqs, RedeemReachesNode(r)
    PROVE  QueueOK'
<1> USE DEF RedeemReachesNode
<1>1. req[r].id \in DOMAIN redeems \cup wiped
  BY DEF QueueOK, RequestsOK
<1>2. TypeOK'
  BY <1>1 DEF QueueOK, TypeOK
<1>3. RequestsOK' /\ AskedIsRecorded'
  BY <1>1 DEF QueueOK, RequestsOK, AskedIsRecorded
<1> QED
  BY <1>2, <1>3 DEF QueueOK

LEMMA UpdateRedeemKeeps ==
    ASSUME QueueOK, NEW id \in RedeemIds, NEW patch \in NodePatches, UpdateRedeem(id, patch)
    PROVE  QueueOK'
<1> USE DEF UpdateRedeem
<1>1. PICK row : row = redeems[id]
  OBVIOUS
<1>2. row \in Redeem /\ DOMAIN row = {"user", "status", "payoutTxid"}
  BY <1>1 DEF QueueOK, TypeOK, Redeem
<1>3. PICK q : q = [f \in RedeemFields |-> IF f \in DOMAIN patch THEN patch[f] ELSE Undefined]
  OBVIOUS
<1>4. /\ DOMAIN q = {"status", "payoutTxid"}
      /\ q["status"] \in {"payout_submitted", Undefined} /\ q["payoutTxid"] \in {"txid", Undefined}
  BY <1>3 DEF RedeemFields, NodePatches
<1>5. PICK new : new = Patched(row, q)
  OBVIOUS
<1>6. new = [f \in {"user", "status", "payoutTxid"} |-> IF f \in DOMAIN q THEN q[f] ELSE row[f]]
  BY <1>2, <1>5 DEF Patched
<1>7. new = [user |-> row.user, status |-> q["status"], payoutTxid |-> q["payoutTxid"]]
  BY <1>4, <1>6
<1>8. new \in Redeem
  BY <1>2, <1>4, <1>7 DEF Redeem
<1>9. redeems' = [redeems EXCEPT ![id] = new]
  BY <1>1, <1>3, <1>5
<1>10. DOMAIN redeems' = DOMAIN redeems /\ redeems' \in [DOMAIN redeems' -> Redeem]
  BY <1>8, <1>9 DEF QueueOK, TypeOK
<1>11. TypeOK'
  BY <1>10 DEF QueueOK, TypeOK
<1>12. RequestsOK' /\ AskedIsRecorded'
  BY <1>10 DEF QueueOK, RequestsOK, AskedIsRecorded
<1> QED
  BY <1>11, <1>12 DEF QueueOK

LEMMA QueueStepKeeps ==
    ASSUME QueueOK, QueueStep
    PROVE  QueueOK' /\ RowsGrow /\ UNCHANGED wiped
<1> USE DEF QueueOK
<1>1. ASSUME NEW r \in Reqs, NEW user \in Users, NEW payer \in Payers,
             RequestPurchase(r, user, payer)
      PROVE  QueueOK' /\ RowsGrow /\ UNCHANGED wiped
  BY <1>1, RequestPurchaseKeeps DEF RequestPurchase, RowsKept, RowsGrow
<1>2. ASSUME NEW r \in Reqs, AddPurchase(r)
      PROVE  QueueOK' /\ RowsGrow /\ UNCHANGED wiped
  BY <1>2, AddPurchaseKeeps
<1>3. ASSUME NEW r \in Reqs, AddressFails(r) \/ RedeemAnswered(r)
      PROVE  QueueOK' /\ UNCHANGED purchases /\ UNCHANGED wiped
  <2>1. req' \in [Reqs -> Requests] /\ \A s \in Reqs : req'[s] \in {req[s], Idle}
    BY <1>3 DEF AddressFails, RedeemAnswered, TypeOK, Requests
  <2> QED
    BY <1>3, <2>1, HandlersEnd DEF AddressFails, RedeemAnswered
<1>4. ASSUME NEW r \in Reqs, NEW user \in Users, RequestRedeem(r, user)
      PROVE  QueueOK' /\ UNCHANGED purchases /\ UNCHANGED wiped
  BY <1>4, RequestRedeemKeeps DEF RequestRedeem
<1>5. ASSUME NEW r \in Reqs, RedeemReachesNode(r)
      PROVE  QueueOK' /\ UNCHANGED purchases /\ UNCHANGED wiped
  BY <1>5, RedeemReachesNodeKeeps DEF RedeemReachesNode
<1>6. CASE ReadQueue
  <2>1. RowsKept
    BY <1>6, NormalizedKeeps DEF ReadQueue
  <2> QED
    BY <1>6, <2>1, RowsStep DEF ReadQueue, RowsKept, RowsGrow, TypeOK
<1>7. ASSUME NEW p \in PurchaseIds, BrokerUpdate(p)
      PROVE  QueueOK' /\ RowsGrow /\ UNCHANGED wiped
  <2>1. RowsKept
    BY <1>7, BrokerKeeps
  <2>2. UNCHANGED <<now, redeems, numbered, wiped, req, asked, frozen, together>>
    BY <1>7 DEF BrokerUpdate, UpdatePurchase
  <2> QED
    BY <2>1, <2>2, RowsStep DEF RowsKept, RowsGrow, TypeOK
<1>8. ASSUME NEW id \in RedeemIds, NEW patch \in NodePatches, UpdateRedeem(id, patch)
      PROVE  QueueOK' /\ UNCHANGED purchases /\ UNCHANGED wiped
  BY <1>8, UpdateRedeemKeeps DEF UpdateRedeem
<1>9. ASSUME NEW user \in Users, Freeze(user)
      PROVE  QueueOK' /\ UNCHANGED purchases /\ UNCHANGED wiped
  BY <1>9, RowsStep DEF Freeze, TypeOK
<1>10. UNCHANGED purchases => RowsGrow
  BY SameKeeps DEF RowsKept, RowsGrow
<1>11. CASE Tick
  <2>1. QueueOK'
    BY <1>11, RowsStep, BridgeAssumption DEF Tick, TypeOK
  <2> QED
    BY <1>10, <1>11, <2>1 DEF Tick
<1> QED
  BY <1>1, <1>2, <1>3, <1>4, <1>5, <1>6, <1>7, <1>8, <1>9, <1>10, <1>11 DEF QueueStep, Tick

-----------------------------------------------------------------------------
(* The control node's steps. *)

LEMMA PrepareKeeps ==
    ASSUME QueueOK, FulfillTypeOK, BookOK, NEW p \in PurchaseIds, NEW b \in Batches, Prepare(p, b)
    PROVE  QueueOK' /\ FulfillTypeOK' /\ BookOK'
<1>1. PICK n \in Nonces \ Used :
        /\ UpdatePurchase(p, [status |-> "fulfillment_prepared", batch |-> b, nonce |-> n])
        /\ files' = files \cup {[id |-> p, batch |-> b, nonce |-> n]}
  BY DEF Prepare
<1>2. PICK line : line = [id |-> p, batch |-> b, nonce |-> n]
  OBVIOUS
<1>3. line \in FileRow /\ line.id = p /\ line.nonce = n /\ files' = files \cup {line}
  BY <1>1, <1>2 DEF FileRow
<1>4. /\ p \in DOMAIN purchases /\ purchases[p].user \notin frozen
      /\ purchases[p].status \in {"ready_for_fulfillment", "fulfillment_prepared"}
      /\ UNCHANGED <<tab, paid, results, known, lost, faults>>
      /\ UNCHANGED <<now, redeems, numbered, wiped, req, asked, frozen, together>>
  BY <1>1 DEF Prepare, UpdatePurchase
<1>5. n \in Nat /\ b \in Nat
  BY FulfillmentAssumption DEF Nonces
<1>6. PICK row : row = [Normalized[p] EXCEPT !.status = "fulfillment_prepared", !.batch = b, !.nonce = n]
  OBVIOUS
<1>7. /\ row \in Purchase /\ row.status = "fulfillment_prepared" /\ row.batch = b /\ row.nonce = n
      /\ Patched(Normalized[p], [status |-> "fulfillment_prepared", batch |-> b, nonce |-> n]) = row
  <2>1. Normalized[p] \in Purchase
    BY <1>4, NormalizedRow DEF QueueOK
  <2>2. "fulfillment_prepared" \in Statuses
    BY DEF Statuses, Committed
  <2>3. Patched(Normalized[p], [status |-> "fulfillment_prepared", batch |-> b, nonce |-> n]) = row
    <3>1. PICK q : q = [status |-> "fulfillment_prepared", batch |-> b, nonce |-> n]
      OBVIOUS
    <3>2. /\ DOMAIN q = {"status", "batch", "nonce"}
          /\ q.status = "fulfillment_prepared" /\ q.batch = b /\ q.nonce = n
      BY <3>1
    <3>3. Patched(Normalized[p], q)
            = [Normalized[p] EXCEPT !.status = q.status, !.batch = q.batch, !.nonce = q.nonce]
      BY <2>1, <3>2, PatchedPreparation
    <3> QED
      BY <1>6, <3>1, <3>2, <3>3
  <2> QED
    BY <1>5, <1>6, <2>1, <2>2, <2>3 DEF Purchase
<1>8. /\ DOMAIN purchases' = DOMAIN purchases
      /\ purchases' \in [DOMAIN purchases -> Purchase]
      /\ \A q \in DOMAIN purchases \ {p} : RowKept(q)
      /\ purchases'[p] = row
  BY <1>1, <1>4, <1>7, UpdatedRow, NormalizedIsKept DEF QueueOK
<1>9. QueueOK'
  BY <1>4, <1>8, RowsStep DEF QueueOK, TypeOK
<1>10. FulfillTypeOK'
  BY <1>3, <1>4, <1>9 DEF FulfillTypeOK, QueueOK
\* No line of the purchase was paid or is being sent.
<1>11. /\ paid[n] = 0 /\ \A f \in files : f.nonce # n
       /\ \A f \in files : f.id = p => paid[f.nonce] = 0
       /\ \A t \in Tabs : Busy(t) => tab[t].row \in files /\ tab[t].row.id # p
  <2>1. paid[n] = 0 /\ \A f \in files : f.nonce # n
    BY <1>1 DEF BookOK, PayoutsOK, FulfillTypeOK, Used
  <2>2. CASE purchases[p].status = "ready_for_fulfillment"
    BY <1>4, <2>1, <2>2 DEF BookOK, RowsOK, TabsOK, Early
  <2>3. CASE purchases[p].status = "fulfillment_prepared"
    BY <1>4, <2>1, <2>3 DEF BookOK, RowsOK, TabsOK
  <2> QED
    BY <1>4, <2>2, <2>3
<1>12. FilesOK'
  BY <1>3, <1>4, <1>8, <1>11 DEF BookOK, FilesOK
<1>13. RowsOK'
  <2> SUFFICES ASSUME NEW q \in DOMAIN purchases
               PROVE  /\ purchases'[q].status \in Early => \A f \in files' : f.id # q
                      /\ purchases'[q].status \notin Early =>
                           [id |-> q, batch |-> purchases'[q].batch, nonce |-> purchases'[q].nonce]
                             \in files'
                      /\ purchases'[q].status = "fulfillment_prepared" =>
                           /\ \A f \in files' : f.id = q => paid[f.nonce] = 0
                           /\ \A t \in Tabs : Busy(t) => tab[t].row.id # q
    BY <1>4, <1>8 DEF RowsOK, Busy
  <2>1. CASE q = p
    BY <1>2, <1>3, <1>7, <1>8, <1>11, <2>1 DEF Early
  <2>2. CASE q # p
    <3>1. RowKept(q)
      BY <1>8, <2>2
    <3> QED
      BY <1>3, <2>2, <3>1 DEF BookOK, RowsOK, RowKept, Early
  <2> QED
    BY <2>1, <2>2
<1>14. TabsOK'
  <2>1. ASSUME NEW t \in Tabs, Busy(t)
        PROVE  /\ tab[t].row \in files'
               /\ tab[t].row.id \in DOMAIN purchases =>
                    purchases'[tab[t].row.id].nonce = tab[t].row.nonce
               /\ tab[t].pc \in {"built", "committed"} =>
                    \A f \in files' : f.id = tab[t].row.id => paid[f.nonce] = 0
    BY <1>3, <1>8, <1>11, <2>1 DEF BookOK, TabsOK, RowKept
  <2> QED
    BY <1>4, <1>8, <2>1 DEF BookOK, TabsOK, Busy
<1>15. PayoutsOK'
  BY <1>3, <1>4 DEF BookOK, PayoutsOK, Used
<1>16. PaidOnce'
  <2>1. ASSUME NEW f \in files', paid[f.nonce] > 0
        PROVE  f \in files /\ f.id # p
    BY <1>3, <1>11, <2>1
  <2>2. ASSUME NEW f \in files', paid[f.nonce] > 0, f.id \in DOMAIN purchases
        PROVE  purchases'[f.id].nonce = f.nonce /\ purchases'[f.id].status \in Taken
    <3>1. f \in files /\ RowKept(f.id)
      BY <1>8, <2>1, <2>2
    <3> QED
      BY <2>2, <3>1 DEF BookOK, PaidOnce, RowKept, Early, Taken
  <2> QED
    BY <1>4, <1>8, <2>1, <2>2 DEF BookOK, PaidOnce, Taken
<1>17. PaidIsReported'
  <2>1. ASSUME NEW f \in files', paid[f.nonce] > 0
        PROVE  f \in files
    BY <1>3, <1>11, <2>1
  <2>2. ASSUME NEW q \in DOMAIN purchases, purchases'[q].status = "fulfillment_submitted"
        PROVE  purchases'[q].nonce \in Nonces /\ paid[purchases'[q].nonce] = 1
    <3>1. q # p /\ RowKept(q)
      BY <1>7, <1>8, <2>2
    <3> QED
      BY <2>2, <3>1 DEF BookOK, PaidIsReported, RowKept, Early
  <2> QED
    BY <1>4, <1>8, <2>1, <2>2 DEF BookOK, PaidIsReported, Revealing
<1> QED
  BY <1>9, <1>10, <1>12, <1>13, <1>14, <1>15, <1>16, <1>17 DEF BookOK

LEMMA CollectKeeps ==
    ASSUME QueueOK, FulfillTypeOK, BookOK, NEW b \in Batches, Collect(b)
    PROVE  QueueOK' /\ FulfillTypeOK' /\ BookOK'
<1> USE DEF Collect, queueVars
<1>1. QueueOK'
  BY DEF QueueOK, TypeOK, RequestsOK, AskedIsRecorded
<1>2. FulfillTypeOK'
  BY <1>1 DEF FulfillTypeOK, QueueOK
<1>3. \A c \in Batches : results'[c] = IF c = b THEN {} ELSE results[c]
  BY DEF FulfillTypeOK
<1>4. FilesOK' /\ RowsOK' /\ TabsOK' /\ PaidOnce'
  BY DEF BookOK, FilesOK, RowsOK, TabsOK, PaidOnce, Busy
<1>5. PayoutsOK'
  BY <1>3 DEF BookOK, PayoutsOK, Used
<1>6. PaidIsReported'
  <2>1. \A f \in files : f.batch \in Batches
    BY DEF FulfillTypeOK, FileRow
  <2> QED
    BY <1>3, <2>1 DEF BookOK, PaidIsReported, Revealing
<1> QED
  BY <1>1, <1>2, <1>4, <1>5, <1>6 DEF BookOK

LEMMA MarkSubmittedKeeps ==
    ASSUME QueueOK, FulfillTypeOK, BookOK, NEW f \in files, MarkSubmitted(f)
    PROVE  QueueOK' /\ FulfillTypeOK' /\ BookOK'
<1> USE DEF fulfillVars
<1>1. /\ f \in known /\ f.id \in DOMAIN purchases
      /\ purchases[f.id].status = "fulfillment_executing" /\ purchases[f.id].nonce = f.nonce
      /\ UpdatePurchase(f.id, [status |-> "fulfillment_submitted"])
      /\ UNCHANGED <<files, tab, paid, results, known, lost, faults>>
      /\ UNCHANGED <<now, redeems, numbered, wiped, req, asked, frozen, together>>
  BY DEF MarkSubmitted, UpdatePurchase
<1>2. f.nonce \in Nonces /\ paid[f.nonce] = 1
  BY <1>1 DEF BookOK, PayoutsOK, FulfillTypeOK, FileRow
<1>3. PICK row : row = [Normalized[f.id] EXCEPT !.status = "fulfillment_submitted"]
  OBVIOUS
<1>4. /\ row \in Purchase /\ row.status = "fulfillment_submitted"
      /\ row.batch = purchases[f.id].batch /\ row.nonce = f.nonce
      /\ Patched(Normalized[f.id], [status |-> "fulfillment_submitted"]) = row
  <2>1. /\ Normalized[f.id] \in Purchase
        /\ Normalized[f.id].batch = purchases[f.id].batch
        /\ Normalized[f.id].nonce = purchases[f.id].nonce
    BY <1>1, NormalizedRow DEF QueueOK
  <2>2. "fulfillment_submitted" \in Statuses
    BY DEF Statuses, Committed
  <2>3. Patched(Normalized[f.id], [status |-> "fulfillment_submitted"]) = row
    BY <1>3, <2>1, <2>2, PatchedStatus
  <2> QED
    BY <1>1, <1>3, <2>1, <2>2, <2>3 DEF Purchase
<1>5. /\ DOMAIN purchases' = DOMAIN purchases
      /\ purchases' \in [DOMAIN purchases -> Purchase]
      /\ \A q \in DOMAIN purchases : RowKept(q) \/ (q = f.id /\ purchases'[f.id] = row)
  <2>1. /\ DOMAIN purchases' = DOMAIN purchases
        /\ purchases' \in [DOMAIN purchases -> Purchase]
        /\ \A q \in DOMAIN purchases \ {f.id} : purchases'[q] = Normalized[q]
        /\ purchases'[f.id] \in {Normalized[f.id], row}
    BY <1>1, <1>4, UpdatedRow DEF QueueOK
  <2>2. \A q \in DOMAIN purchases : purchases'[q] = Normalized[q] => RowKept(q)
    BY NormalizedIsKept DEF QueueOK
  <2> QED
    BY <2>1, <2>2
<1>6. ASSUME NEW q \in DOMAIN purchases
      PROVE  /\ purchases'[q].batch = purchases[q].batch
             /\ purchases'[q].nonce = purchases[q].nonce
             /\ \/ RowKept(q)
                \/ /\ q = f.id /\ purchases[q].status = "fulfillment_executing"
                   /\ purchases'[q].status = "fulfillment_submitted"
  BY <1>1, <1>4, <1>5 DEF RowKept
<1>7. QueueOK'
  BY <1>1, <1>5, RowsStep DEF QueueOK, TypeOK
<1>8. FulfillTypeOK'
  BY <1>1, <1>7 DEF FulfillTypeOK, QueueOK
<1>9. FilesOK' /\ PayoutsOK' /\ TabsOK'
  BY <1>1, <1>5, <1>6 DEF BookOK, FilesOK, PayoutsOK, TabsOK, Busy, Used
<1>10. RowsOK'
  <2>1. \A q \in DOMAIN purchases :
          /\ purchases'[q].status \in Early <=> purchases[q].status \in Early
          /\ purchases'[q].status = "fulfillment_prepared" =>
               purchases[q].status = "fulfillment_prepared"
    BY <1>6 DEF RowKept, Early
  <2> QED
    BY <1>1, <1>5, <1>6, <2>1 DEF BookOK, RowsOK, Busy
<1>11. PaidOnce'
  <2>1. \A q \in DOMAIN purchases : purchases[q].status \in Taken => purchases'[q].status \in Taken
    BY <1>6 DEF RowKept, Early, Taken
  <2> QED
    BY <1>1, <1>5, <1>6, <2>1 DEF BookOK, PaidOnce, Taken
<1>12. PaidIsReported'
  <2>1. ASSUME NEW q \in DOMAIN purchases, purchases'[q].status = "fulfillment_submitted"
        PROVE  purchases'[q].nonce \in Nonces /\ paid[purchases'[q].nonce] = 1
    <3>1. CASE q = f.id
      BY <1>1, <1>2, <1>6, <3>1
    <3>2. CASE q # f.id
      BY <1>6, <2>1, <3>2 DEF BookOK, PaidIsReported, RowKept, Early
    <3> QED
      BY <3>1, <3>2
  <2> QED
    BY <1>1, <1>5, <2>1 DEF BookOK, PaidIsReported, Revealing
<1> QED
  BY <1>7, <1>8, <1>9, <1>10, <1>11, <1>12 DEF BookOK

-----------------------------------------------------------------------------
(* The wallet's steps. *)

LEMMA BuildKeeps ==
    ASSUME QueueOK, FulfillTypeOK, BookOK, NEW t \in Tabs, NEW f \in files, Build(t, f)
    PROVE  QueueOK' /\ FulfillTypeOK' /\ BookOK'
<1> USE DEF Build
<1>1. PICK row : row = [purchases[f.id] EXCEPT !.status = "fulfillment_executing"]
  OBVIOUS
<1>2. /\ f.id \in DOMAIN purchases /\ purchases[f.id] \in Purchase /\ f \in FileRow
      /\ purchases[f.id].status = "fulfillment_prepared"
      /\ purchases[f.id].batch = f.batch /\ purchases[f.id].nonce = f.nonce
  BY DEF Matches, QueueOK, TypeOK, FulfillTypeOK
<1>3. /\ row \in Purchase /\ row.status = "fulfillment_executing"
      /\ row.batch = f.batch /\ row.nonce = f.nonce
      /\ Patched(purchases[f.id], [status |-> "fulfillment_executing"]) = row
  <2>1. "fulfillment_executing" \in Statuses
    BY DEF Statuses, Committed
  <2>2. Patched(purchases[f.id], [status |-> "fulfillment_executing"]) = row
    BY <1>1, <1>2, <2>1, PatchedStatus
  <2> QED
    BY <1>1, <1>2, <2>1, <2>2 DEF Purchase
<1>4. /\ DOMAIN purchases' = DOMAIN purchases
      /\ purchases' \in [DOMAIN purchases -> Purchase]
      /\ \A q \in DOMAIN purchases : purchases'[q] = IF q = f.id THEN row ELSE purchases[q]
  BY <1>3 DEF QueueOK, TypeOK
<1>5. \A u \in Tabs : tab'[u] = IF u = t THEN [pc |-> "built", row |-> f] ELSE tab[u]
  BY DEF FulfillTypeOK
<1>6. /\ \A g \in files : g.id = f.id => paid[g.nonce] = 0
      /\ \A u \in Tabs : Busy(u) => tab[u].row.id # f.id
  BY <1>2 DEF BookOK, RowsOK
<1>7. QueueOK'
  BY <1>4, RowsStep DEF QueueOK, TypeOK
<1>8. FulfillTypeOK'
  BY <1>2, <1>7 DEF FulfillTypeOK, QueueOK, Sending
<1>9. FilesOK' /\ PayoutsOK'
  BY <1>4 DEF BookOK, FilesOK, PayoutsOK, Used
<1>10. RowsOK'
  <2> SUFFICES ASSUME NEW q \in DOMAIN purchases
               PROVE  /\ purchases'[q].status \in Early => \A g \in files : g.id # q
                      /\ purchases'[q].status \notin Early =>
                           [id |-> q, batch |-> purchases'[q].batch, nonce |-> purchases'[q].nonce]
                             \in files
                      /\ purchases'[q].status = "fulfillment_prepared" =>
                           /\ \A g \in files : g.id = q => paid[g.nonce] = 0
                           /\ \A u \in Tabs : Busy(u)' => tab'[u].row.id # q
    BY <1>4 DEF RowsOK, Busy
  <2>1. CASE q = f.id
    <3>1. [id |-> q, batch |-> f.batch, nonce |-> f.nonce] \in files
      BY <1>2, <2>1 DEF FileRow
    <3> QED
      BY <1>3, <1>4, <2>1, <3>1 DEF Early
  <2>2. CASE q # f.id
    BY <1>4, <1>5, <2>2 DEF BookOK, RowsOK, Busy
  <2> QED
    BY <2>1, <2>2
<1>11. TabsOK'
  <2> SUFFICES ASSUME NEW u \in Tabs, Busy(u)'
               PROVE  /\ tab'[u].row \in files
                      /\ tab'[u].row.id \in DOMAIN purchases =>
                           purchases'[tab'[u].row.id].nonce = tab'[u].row.nonce
                      /\ tab'[u].pc \in {"built", "committed"} =>
                           \A g \in files : g.id = tab'[u].row.id => paid[g.nonce] = 0
                      /\ tab'[u].pc = "revealing" => paid[tab'[u].row.nonce] = 1
                      /\ \A w \in Tabs : Busy(w)' /\ tab'[w].row.id = tab'[u].row.id => w = u
    BY <1>4 DEF TabsOK, Busy
  <2>1. CASE u = t
    BY <1>2, <1>3, <1>4, <1>5, <1>6, <2>1 DEF Busy
  <2>2. CASE u # t
    BY <1>4, <1>5, <1>6, <2>2 DEF BookOK, TabsOK, Busy
  <2> QED
    BY <2>1, <2>2
<1>12. PaidOnce'
  <2>1. \A g \in files : paid[g.nonce] > 0 => g.id # f.id
    BY <1>6
  <2> QED
    BY <1>4, <2>1 DEF BookOK, PaidOnce
<1>13. PaidIsReported'
  <2>1. \A u \in Revealing : u \in Revealing' /\ tab'[u] = tab[u]
    BY <1>5 DEF Revealing, Resting
  <2>2. \A q \in DOMAIN purchases : purchases'[q].status = "fulfillment_submitted" =>
          purchases'[q] = purchases[q]
    BY <1>3, <1>4
  <2> QED
    BY <1>4, <2>1, <2>2 DEF BookOK, PaidIsReported
<1> QED
  BY <1>7, <1>8, <1>9, <1>10, <1>11, <1>12, <1>13 DEF BookOK

\* A tab goes on to the commit or ends; a reveal that ends is told of or is lost.
LEMMA TabsMove ==
    ASSUME FulfillTypeOK, BookOK, UNCHANGED <<purchases, wiped, files, paid, known>>,
           PayoutsOK',
           \A t \in Tabs : \/ tab'[t] \in {tab[t], Resting}
                           \/ tab[t].pc = "built" /\ tab'[t] = [tab[t] EXCEPT !.pc = "committed"],
           \A f \in files : paid[f.nonce] > 0 =>
              \/ f \in results[f.batch] => f \in results'[f.batch]
              \/ f.nonce \in lost',
           \A f \in files : paid[f.nonce] > 0 => (f.nonce \in lost => f.nonce \in lost'),
           \A t \in Revealing : \/ tab'[t] = tab[t]
                                \/ tab[t].row.nonce \in lost'
                                \/ tab[t].row \in results'[tab[t].row.batch]
    PROVE  BookOK'
<1>1. ASSUME NEW t \in Tabs, Busy(t)'
      PROVE  /\ Busy(t) /\ tab'[t].row = tab[t].row
             /\ \/ tab'[t].pc = tab[t].pc
                \/ tab[t].pc = "built" /\ tab'[t].pc = "committed"
  <2>1. CASE tab'[t] = tab[t]
    BY <1>1, <2>1 DEF Busy
  <2>2. CASE tab[t].pc = "built" /\ tab'[t] = [tab[t] EXCEPT !.pc = "committed"]
    <3>1. tab[t] \in Sending
      BY <2>2 DEF FulfillTypeOK, Resting
    <3> QED
      BY <2>2, <3>1 DEF Busy, Sending, Resting
  <2> QED
    BY <1>1, <2>1, <2>2 DEF Busy
<1>2. FilesOK' /\ PaidOnce'
  BY DEF BookOK, FilesOK, PaidOnce
<1>3. RowsOK'
  BY <1>1 DEF BookOK, RowsOK
<1>4. TabsOK'
  BY <1>1 DEF BookOK, TabsOK
<1>5. PaidIsReported'
  <2>1. ASSUME NEW f \in files, paid[f.nonce] > 0
        PROVE  \/ f \in results'[f.batch] \cup known
               \/ f.nonce \in lost'
               \/ \E t \in Revealing' : tab'[t].row = f
    <3>1. CASE f \in results[f.batch] \cup known \/ f.nonce \in lost
      BY <2>1, <3>1
    <3>2. ASSUME NEW t \in Revealing, tab[t].row = f
          PROVE  \/ f \in results'[f.batch]
                 \/ f.nonce \in lost'
                 \/ t \in Revealing' /\ tab'[t].row = f
      BY <3>2 DEF Revealing
    <3> QED
      BY <2>1, <3>1, <3>2 DEF BookOK, PaidIsReported
  <2> QED
    BY <2>1 DEF BookOK, PaidIsReported
<1> QED
  BY <1>2, <1>3, <1>4, <1>5 DEF BookOK

LEMMA RevealKeeps ==
    ASSUME QueueOK, FulfillTypeOK, BookOK, NEW t \in Tabs, Reveal(t)
    PROVE  QueueOK' /\ FulfillTypeOK' /\ BookOK'
<1> USE DEF Reveal, queueVars
<1>1. PICK f : f = tab[t].row
  OBVIOUS
<1>2. /\ tab[t] \in Sending /\ Busy(t) /\ tab[t].pc = "committed" /\ f \in FileRow
      /\ f.nonce \in Nonces
  <2>1. tab[t] \in Sending
    BY DEF FulfillTypeOK, Resting
  <2> QED
    BY <1>1, <2>1 DEF Sending, FileRow, Busy, Resting
<1>3. /\ f \in files /\ paid[f.nonce] = 0
      /\ \A g \in files : g.id = f.id => paid[g.nonce] = 0
      /\ \A g \in files : g.nonce = f.nonce => g = f
  BY <1>1, <1>2 DEF BookOK, TabsOK, FilesOK
<1>4. \A n \in Nonces : paid'[n] = IF n = f.nonce THEN 1 ELSE paid[n]
  BY <1>1, <1>2, <1>3 DEF FulfillTypeOK
<1>5. \A u \in Tabs : IF u = t THEN tab'[u].pc = "revealing" /\ tab'[u].row = f
                               ELSE tab'[u] = tab[u]
  BY <1>1, <1>2 DEF FulfillTypeOK, Sending
<1>6. \A u \in Tabs : (Busy(u)' <=> Busy(u)) /\ (Busy(u) => tab'[u].row = tab[u].row)
  BY <1>1, <1>2, <1>5 DEF Busy, Resting
<1>7. \A g \in files : g.nonce \in Nonces /\ (g # f => paid'[g.nonce] = paid[g.nonce])
  BY <1>3, <1>4 DEF FulfillTypeOK, FileRow
<1>8. QueueOK'
  BY DEF QueueOK, TypeOK, RequestsOK, AskedIsRecorded
<1>9. FulfillTypeOK'
  <2>1. tab' \in [Tabs -> {Resting} \cup Sending]
    <3>1. [tab[t] EXCEPT !.pc = "revealing"] \in Sending
      BY <1>2 DEF Sending
    <3> QED
      BY <3>1 DEF FulfillTypeOK
  <2>2. paid' \in [Nonces -> Nat]
    BY <1>1, <1>2 DEF FulfillTypeOK
  <2> QED
    BY <1>8, <2>1, <2>2 DEF FulfillTypeOK, QueueOK
<1>10. FilesOK'
  BY DEF BookOK, FilesOK
<1>11. RowsOK'
  <2>1. ASSUME NEW p \in DOMAIN purchases, purchases[p].status = "fulfillment_prepared"
        PROVE  /\ \A g \in files : g.id = p => paid'[g.nonce] = 0
               /\ \A u \in Tabs : Busy(u)' => tab'[u].row.id # p
    <3>1. \A u \in Tabs : Busy(u) => tab[u].row.id # p
      BY <2>1 DEF BookOK, RowsOK
    <3>2. \A g \in files : g.id = p => g # f /\ paid[g.nonce] = 0
      BY <1>1, <1>2, <2>1, <3>1 DEF BookOK, RowsOK
    <3> QED
      BY <1>6, <1>7, <3>1, <3>2
  <2> QED
    BY <2>1 DEF BookOK, RowsOK
<1>12. TabsOK'
  <2> SUFFICES ASSUME NEW u \in Tabs, Busy(u)
               PROVE  /\ tab'[u].row \in files
                      /\ tab'[u].row.id \in DOMAIN purchases =>
                           purchases[tab'[u].row.id].nonce = tab'[u].row.nonce
                      /\ tab'[u].pc \in {"built", "committed"} =>
                           \A g \in files : g.id = tab'[u].row.id => paid'[g.nonce] = 0
                      /\ tab'[u].pc = "revealing" => paid'[tab'[u].row.nonce] = 1
                      /\ \A w \in Tabs : Busy(w) /\ tab'[w].row.id = tab'[u].row.id => w = u
    BY <1>6 DEF TabsOK
  <2>1. CASE u = t
    BY <1>1, <1>2, <1>3, <1>4, <1>5, <1>6, <2>1 DEF BookOK, TabsOK
  <2>2. CASE u # t
    <3>1. tab[u].row \in files /\ tab[u].row.id # f.id
      BY <1>1, <1>2, <2>2 DEF BookOK, TabsOK
    <3> QED
      BY <1>5, <1>6, <1>7, <2>2, <3>1 DEF BookOK, TabsOK
  <2> QED
    BY <2>1, <2>2
<1>13. PayoutsOK'
  <2>1. \A g \in files : paid[g.nonce] = 1 => paid'[g.nonce] = 1
    BY <1>3, <1>7
  <2> QED
    BY <1>3, <1>4, <2>1 DEF BookOK, PayoutsOK, Used, FulfillTypeOK
<1>14. PaidOnce'
  <2>1. \A n \in Nonces : paid'[n] <= 1
    BY <1>4 DEF BookOK, PaidOnce
  <2>2. \A g \in files : g # f /\ paid'[g.nonce] > 0 => paid[g.nonce] > 0 /\ g.id # f.id
    BY <1>3, <1>7
  <2>3. f.id \in DOMAIN purchases => purchases[f.id].nonce = f.nonce /\ purchases[f.id].status \in Taken
    <3>1. f.id \in DOMAIN purchases => purchases[f.id] \in Purchase
      BY DEF QueueOK, TypeOK
    <3>2. f.id \in DOMAIN purchases => /\ purchases[f.id].status \notin Early
                                       /\ purchases[f.id].status # "fulfillment_prepared"
                                       /\ purchases[f.id].nonce = f.nonce
      BY <1>1, <1>2, <1>3 DEF BookOK, RowsOK, TabsOK
    <3> QED
      BY <3>1, <3>2 DEF Purchase, Statuses, AwaitingPayment, Committed, Early, Taken
  <2> QED
    BY <2>1, <2>2, <2>3 DEF BookOK, PaidOnce, Taken
<1>15. PaidIsReported'
  <2>1. t \in Revealing' /\ tab'[t].row = f
    BY <1>5 DEF Revealing
  <2>2. \A u \in Revealing : u \in Revealing' /\ tab'[u].row = tab[u].row
    BY <1>2, <1>5 DEF Revealing
  <2>3. \A g \in files : paid'[g.nonce] > 0 => g = f \/ paid[g.nonce] > 0
    BY <1>7
  <2>4. \A p \in DOMAIN purchases : purchases[p].status = "fulfillment_submitted" =>
          purchases[p].nonce \in Nonces /\ paid'[purchases[p].nonce] = 1
    BY <1>3, <1>4 DEF BookOK, PaidIsReported
  <2> QED
    BY <2>1, <2>2, <2>3, <2>4 DEF BookOK, PaidIsReported
<1> QED
  BY <1>8, <1>9, <1>10, <1>11, <1>12, <1>13, <1>14, <1>15 DEF BookOK

LEMMA CommitOrGiveUpKeeps ==
    ASSUME QueueOK, FulfillTypeOK, BookOK, NEW t \in Tabs, Commit(t) \/ GiveUp(t)
    PROVE  QueueOK' /\ FulfillTypeOK' /\ BookOK'
<1> USE DEF Commit, GiveUp, queueVars
<1>1. QueueOK'
  BY DEF QueueOK, TypeOK, RequestsOK, AskedIsRecorded
<1>2. tab[t] \in Sending /\ t \notin Revealing
  BY DEF FulfillTypeOK, Resting, Revealing
<1>3. tab' \in [Tabs -> {Resting} \cup Sending]
  <2>1. [tab[t] EXCEPT !.pc = "committed"] \in Sending
    BY <1>2 DEF Sending
  <2> QED
    BY <2>1 DEF FulfillTypeOK
<1>4. FulfillTypeOK'
  BY <1>1, <1>3 DEF FulfillTypeOK, QueueOK
<1>5. PayoutsOK'
  BY DEF BookOK, PayoutsOK, Used
<1>6. \A u \in Tabs : \/ tab'[u] \in {tab[u], Resting}
                      \/ tab[u].pc = "built" /\ tab'[u] = [tab[u] EXCEPT !.pc = "committed"]
  BY DEF FulfillTypeOK
<1>7. \A u \in Revealing : tab'[u] = tab[u]
  BY <1>2 DEF FulfillTypeOK, Revealing
<1>8. BookOK'
  BY <1>5, <1>6, <1>7, TabsMove
<1> QED
  BY <1>1, <1>4, <1>8

\* The result of one line joins those of its batch; what it replaces was not paid.
LEMMA PersistKeeps ==
    ASSUME QueueOK, FulfillTypeOK, BookOK, NEW t \in Tabs, Persist(t)
    PROVE  QueueOK' /\ FulfillTypeOK' /\ BookOK'
<1> USE DEF Persist, queueVars
<1>1. PICK f : f = tab[t].row
  OBVIOUS
<1>2. tab[t] \in Sending /\ Busy(t) /\ f \in FileRow
  <2>1. tab[t] \in Sending
    BY DEF FulfillTypeOK, Resting
  <2> QED
    BY <1>1, <2>1 DEF Sending, Busy, Resting
<1>3. f \in files /\ paid[f.nonce] = 1 /\ f.batch \in Batches /\ f.nonce \in Nonces
  BY <1>1, <1>2 DEF BookOK, TabsOK, FileRow
<1>4. \/ /\ results' = [results EXCEPT ![f.batch] = Upserted(@, f)]
         /\ lost' = lost
      \/ /\ results' = results
         /\ lost' = lost \cup {f.nonce}
  BY <1>1
<1>5. /\ \A b \in Batches : results'[b] \subseteq results[b] \cup {f}
      /\ \A g \in files : paid[g.nonce] > 0 /\ g \in results[g.batch] => g \in results'[g.batch]
      /\ f \in results'[f.batch] \/ f.nonce \in lost'
      /\ results' \in [Batches -> SUBSET FileRow]
      /\ lost \subseteq lost' /\ lost' \subseteq Nonces
  <2>1. CASE /\ results' = [results EXCEPT ![f.batch] = Upserted(@, f)]
             /\ lost' = lost
    <3>1. Upserted(results[f.batch], f) \subseteq results[f.batch] \cup {f}
      BY DEF Upserted
    <3>2. f \in Upserted(results[f.batch], f)
      BY DEF Upserted
    <3>3. \A g \in files : paid[g.nonce] > 0 /\ g \in results[f.batch] => g \in Upserted(results[f.batch], f)
      BY <1>3 DEF Upserted, BookOK, PaidOnce
    <3>4. \A b \in Batches : results'[b] = IF b = f.batch THEN Upserted(results[f.batch], f) ELSE results[b]
      BY <1>3, <2>1 DEF FulfillTypeOK
    <3>5. results' \in [Batches -> SUBSET FileRow]
      <4>1. results[f.batch] \subseteq FileRow
        BY <1>3 DEF FulfillTypeOK
      <4>2. Upserted(results[f.batch], f) \in SUBSET FileRow
        BY <1>2, <3>1, <4>1
      <4> QED
        BY <1>3, <2>1, <4>2 DEF FulfillTypeOK
    <3>6. \A g \in files : g.batch \in Batches
      BY DEF FulfillTypeOK, FileRow
    <3> QED
      BY <1>3, <2>1, <3>1, <3>2, <3>3, <3>4, <3>5, <3>6 DEF FulfillTypeOK
  <2>2. CASE /\ results' = results
             /\ lost' = lost \cup {f.nonce}
    BY <1>3, <2>2 DEF FulfillTypeOK
  <2> QED
    BY <1>4, <2>1, <2>2
<1>6. QueueOK'
  BY DEF QueueOK, TypeOK, RequestsOK, AskedIsRecorded
<1>7. FulfillTypeOK'
  BY <1>5, <1>6 DEF FulfillTypeOK, QueueOK
<1>8. PayoutsOK'
  BY <1>3, <1>5 DEF BookOK, PayoutsOK, Used
<1>9. \A u \in Tabs : tab'[u] \in {tab[u], Resting}
  BY DEF FulfillTypeOK
<1>10. \A u \in Revealing : \/ tab'[u] = tab[u]
                            \/ tab[u].row.nonce \in lost'
                            \/ tab[u].row \in results'[tab[u].row.batch]
  BY <1>1, <1>5 DEF FulfillTypeOK, Revealing
<1>11. BookOK'
  BY <1>5, <1>8, <1>9, <1>10, TabsMove
<1> QED
  BY <1>6, <1>7, <1>11

LEMMA LoseResultKeeps ==
    ASSUME QueueOK, FulfillTypeOK, BookOK, NEW t \in Tabs, LoseResult(t)
    PROVE  QueueOK' /\ FulfillTypeOK' /\ BookOK'
<1> USE DEF LoseResult, queueVars
<1>1. tab[t].row.nonce \in Nonces
  BY DEF FulfillTypeOK, Resting, Sending, FileRow
<1>2. QueueOK'
  BY DEF QueueOK, TypeOK, RequestsOK, AskedIsRecorded
<1>3. FulfillTypeOK'
  BY <1>1, <1>2, FulfillmentAssumption DEF FulfillTypeOK, QueueOK
<1>4. PayoutsOK'
  BY DEF BookOK, PayoutsOK, Used
<1>5. \A u \in Tabs : tab'[u] \in {tab[u], Resting}
  BY DEF FulfillTypeOK
<1>6. \A u \in Revealing : tab'[u] = tab[u] \/ tab[u].row.nonce \in lost'
  BY DEF FulfillTypeOK, Revealing
<1>7. BookOK'
  BY <1>4, <1>5, <1>6, TabsMove
<1> QED
  BY <1>2, <1>3, <1>7

LEMMA RestartKeeps ==
    ASSUME QueueOK, FulfillTypeOK, BookOK, RestartServer
    PROVE  QueueOK' /\ FulfillTypeOK' /\ BookOK'
<1> USE DEF RestartServer, Crash
<1>1. \A t \in Revealing : tab[t].row.nonce \in Nonces
  BY DEF Revealing, FulfillTypeOK, Resting, Sending, FileRow
<1>2. QueueOK'
  <2>1. req' \in [Reqs -> Requests] /\ \A r \in Reqs : req'[r] \in {req[r], Idle}
    BY DEF Requests
  <2> QED
    BY <2>1, HandlersEnd
<1>3. FulfillTypeOK'
  BY <1>1, <1>2, FulfillmentAssumption DEF FulfillTypeOK, QueueOK
<1>4. PayoutsOK'
  BY DEF BookOK, PayoutsOK, Used
<1>5. \A u \in Tabs : tab'[u] \in {tab[u], Resting}
  BY DEF FulfillTypeOK
<1>6. \A u \in Revealing : tab[u].row.nonce \in lost'
  OBVIOUS
<1>7. BookOK'
  BY <1>4, <1>5, <1>6, TabsMove
<1> QED
  BY <1>2, <1>3, <1>7

LEMMA ClearKeeps ==
    ASSUME QueueOK, FulfillTypeOK, BookOK, Clear
    PROVE  QueueOK' /\ FulfillTypeOK' /\ BookOK'
<1> USE DEF Clear, ClearQueue
<1>1. DOMAIN purchases' = {} /\ DOMAIN redeems' = {}
  OBVIOUS
<1>2. TypeOK'
  BY <1>1 DEF QueueOK, TypeOK
<1>3. RequestsOK'
  BY <1>1 DEF QueueOK, RequestsOK
<1>4. AskedIsRecorded'
  BY <1>1 DEF QueueOK, AskedIsRecorded
<1>5. FulfillTypeOK'
  BY <1>2, FulfillmentAssumption DEF FulfillTypeOK
<1>6. FilesOK'
  BY <1>1 DEF BookOK, FilesOK
<1>7. RowsOK'
  BY <1>1 DEF RowsOK
<1>8. TabsOK'
  BY <1>1 DEF BookOK, TabsOK, Busy
<1>9. PayoutsOK'
  BY DEF BookOK, PayoutsOK, Used
<1>10. PaidOnce'
  BY <1>1 DEF BookOK, PaidOnce
<1>11. PaidIsReported'
  BY <1>1 DEF BookOK, PaidIsReported, Revealing
<1> QED
  BY <1>2, <1>3, <1>4, <1>5, <1>6, <1>7, <1>8, <1>9, <1>10, <1>11 DEF QueueOK, BookOK

-----------------------------------------------------------------------------
(* The theorems. *)

LEMMA InitHolds == Init => IInv
<1> SUFFICES ASSUME Init
             PROVE  IInv
  OBVIOUS
<1> USE DEF Init, QueueInit
<1>1. DOMAIN purchases = {} /\ DOMAIN redeems = {}
  OBVIOUS
<1>2. TypeOK
  BY <1>1, BridgeAssumption DEF TypeOK, Requests
<1>3. FulfillTypeOK
  BY <1>2, FulfillmentAssumption DEF FulfillTypeOK
<1>4. RequestsOK /\ AskedIsRecorded
  BY DEF RequestsOK, AskedIsRecorded, Idle
<1>5. FilesOK /\ RowsOK /\ TabsOK /\ PayoutsOK
  BY <1>1 DEF FilesOK, RowsOK, TabsOK, PayoutsOK, Busy
<1>6. PaidOnce /\ PaidIsReported
  BY <1>1 DEF PaidOnce, PaidIsReported
<1> QED
  BY <1>3, <1>4, <1>5, <1>6 DEF IInv, BookOK

LEMMA StepKeeps == IInv /\ [Next]_vars => IInv'
<1> SUFFICES ASSUME IInv, [Next]_vars
             PROVE  IInv'
  OBVIOUS
<1>1. QueueOK /\ FulfillTypeOK /\ BookOK
  BY DEF IInv, QueueOK, FulfillTypeOK
<1>2. CASE QueueStep /\ UNCHANGED fulfillVars
  <2>1. QueueOK' /\ RowsGrow /\ UNCHANGED wiped
    BY <1>1, <1>2, QueueStepKeeps
  <2>2. BookOK'
    BY <1>1, <1>2, <2>1, BookGrows
  <2>3. FulfillTypeOK'
    BY <1>1, <1>2, <2>1 DEF FulfillTypeOK, fulfillVars, QueueOK
  <2> QED
    BY <2>1, <2>2, <2>3 DEF IInv, QueueOK
<1>3. ASSUME NEW b \in Batches, Collect(b)
      PROVE  IInv'
  BY <1>1, <1>3, CollectKeeps DEF IInv, QueueOK
<1>4. ASSUME NEW b \in Batches, NEW p \in PurchaseIds, Prepare(p, b)
      PROVE  IInv'
  BY <1>1, <1>4, PrepareKeeps DEF IInv, QueueOK
<1>5. ASSUME NEW f \in files, MarkSubmitted(f)
      PROVE  IInv'
  BY <1>1, <1>5, MarkSubmittedKeeps DEF IInv, QueueOK
<1>6. ASSUME NEW f \in files, NEW t \in Tabs, Build(t, f)
      PROVE  IInv'
  BY <1>1, <1>6, BuildKeeps DEF IInv, QueueOK
<1>7. ASSUME NEW t \in Tabs, Commit(t) \/ GiveUp(t)
      PROVE  IInv'
  BY <1>1, <1>7, CommitOrGiveUpKeeps DEF IInv, QueueOK
<1>8. ASSUME NEW t \in Tabs, Reveal(t)
      PROVE  IInv'
  BY <1>1, <1>8, RevealKeeps DEF IInv, QueueOK
<1>9. ASSUME NEW t \in Tabs, Persist(t)
      PROVE  IInv'
  BY <1>1, <1>9, PersistKeeps DEF IInv, QueueOK
<1>10. ASSUME NEW t \in Tabs, LoseResult(t)
       PROVE  IInv'
  BY <1>1, <1>10, LoseResultKeeps DEF IInv, QueueOK
<1>11. CASE RestartServer
  BY <1>1, <1>11, RestartKeeps DEF IInv, QueueOK
<1>12. CASE Clear
  BY <1>1, <1>12, ClearKeeps DEF IInv, QueueOK
<1>13. CASE UNCHANGED vars
  BY <1>13 DEF vars, queueVars, fulfillVars, IInv, FulfillTypeOK, TypeOK, RequestsOK, AskedIsRecorded,
       BookOK, FilesOK, RowsOK, TabsOK, PayoutsOK, PaidOnce, PaidIsReported, Busy, Used, Revealing
<1> QED
  BY <1>2, <1>3, <1>4, <1>5, <1>6, <1>7, <1>8, <1>9, <1>10, <1>11, <1>12, <1>13 DEF Next

\* The invariant holds of every behaviour of the bridge.
THEOREM Invariance == Spec => []IInv
<1> QED
  BY InitHolds, StepKeeps, PTL DEF Spec

\* However many tabs load a transfer file, however often a purchase is prepared
\* again, the claim and its nonce let one payout through, and the row shows it.
THEOREM PaidOnceAlways == Spec => []PaidOnce
<1>1. IInv => PaidOnce
  BY DEF IInv, BookOK
<1> QED
  BY <1>1, Invariance, PTL

\* A payout is under way to the control node or known to it, unless a fault came
\* between the payout and the write of its result.
THEOREM PayoutsAreReported == Spec => []PaidIsReported
<1>1. IInv => PaidIsReported
  BY DEF IInv, BookOK
<1> QED
  BY <1>1, Invariance, PTL

\* A redeem is in the queue file before the control node hears of it.
THEOREM RedeemsAreStoredFirst == Spec => []AskedIsRecorded
<1>1. IInv => AskedIsRecorded
  BY DEF IInv
<1> QED
  BY <1>1, Invariance, PTL

-----------------------------------------------------------------------------
(* The refinement of Settlement.  Every step of the bridge books a row,    *)
(* pays an order out, tells of payouts, shows one as submitted, clears the *)
(* queue, asks for a redeem, or is none of these to Settlement.            *)

SettlementKept == UNCHANGED <<Booked, PayoutsMade, Told, Submitted, asked>>

\* A row is Submitted if its status says so, and only MarkSubmitted and Clear
\* change that.
LEMMA GrownRowsKeepSubmitted ==
    ASSUME RowsGrow
    PROVE  UNCHANGED Submitted
BY DEF RowsGrow, RowKept, Submitted, Early

LEMMA KeptRowsKeepSubmitted ==
    ASSUME RowsKept
    PROVE  UNCHANGED Submitted /\ DOMAIN purchases' = DOMAIN purchases
BY DEF RowsKept, RowKept, Submitted, Early

\* A patch with a status sets it, unless the row's user is frozen.
LEMMA UpdateSets ==
    ASSUME TypeOK, NEW p \in DOMAIN purchases, NEW patch, "status" \in DOMAIN patch,
           UpdatePurchase(p, patch)
    PROVE  /\ DOMAIN purchases' = DOMAIN purchases
           /\ \A q \in DOMAIN purchases \ {p} : q \in Submitted' <=> q \in Submitted
           /\ IF purchases[p].user \in frozen THEN p \in Submitted' <=> p \in Submitted
              ELSE p \in Submitted' <=> patch["status"] = "fulfillment_submitted"
<1>1. DOMAIN Normalized = DOMAIN purchases
  BY DEF Normalized
<1>2. \A q \in DOMAIN purchases :
          /\ Normalized[q] \in Purchase /\ Normalized[q].user = purchases[q].user
          /\ Normalized[q].status = "fulfillment_submitted"
                <=> purchases[q].status = "fulfillment_submitted"
  BY NormalizedRow
<1>3. purchases' = [Normalized EXCEPT ![p] =
                      IF purchases[p].user \in frozen THEN Normalized[p]
                      ELSE Patched(Normalized[p], patch)]
  BY <1>1, <1>2 DEF UpdatePurchase
<1>4. /\ DOMAIN purchases' = DOMAIN purchases
      /\ \A q \in DOMAIN purchases \ {p} : purchases'[q] = Normalized[q]
      /\ purchases'[p] = IF purchases[p].user \in frozen THEN Normalized[p]
                         ELSE Patched(Normalized[p], patch)
  BY <1>1, <1>3 DEF Normalized
<1>5. "status" \in DOMAIN Normalized[p]
  BY <1>2 DEF Purchase
<1>6. Patched(Normalized[p], patch).status = patch["status"]
  BY <1>5 DEF Patched
<1> QED
  BY <1>2, <1>4, <1>6 DEF Submitted

LEMMA QueueStepSettles ==
    ASSUME IInv, QueueStep, UNCHANGED fulfillVars
    PROVE  SettlementKept \/ TheSettlement!Next
<1>1. QueueOK
  BY DEF IInv, QueueOK, FulfillTypeOK
<1>2. UNCHANGED <<PayoutsMade, Told>>
  BY DEF PayoutsMade, Told, fulfillVars
<1>3. ASSUME NEW r \in Reqs, NEW user \in Users, NEW payer \in Payers,
             RequestPurchase(r, user, payer)
      PROVE  SettlementKept
  <2>1. UNCHANGED Submitted /\ DOMAIN purchases' = DOMAIN purchases
    BY <1>1, <1>3, RequestPurchaseKeeps, KeptRowsKeepSubmitted
  <2> QED
    BY <1>2, <1>3, <2>1 DEF SettlementKept, Booked, RequestPurchase
<1>4. ASSUME NEW r \in Reqs, AddPurchase(r)
      PROVE  TheSettlement!Next
  <2>1. PICK id : id = req[r].id
    OBVIOUS
  <2>2. id \in PurchaseIds /\ id \notin Booked
    BY <1>1, <1>4, <2>1 DEF AddPurchase, QueueOK, TypeOK, RequestsOK, Requests, Idle, Booked
  <2>3. Booked' = Booked \cup {id}
    BY <1>4, <2>1 DEF AddPurchase, With, Booked
  <2>4. UNCHANGED Submitted
    BY <1>1, <1>4, AddPurchaseKeeps, GrownRowsKeepSubmitted
  <2>5. UNCHANGED asked
    BY <1>4 DEF AddPurchase
  <2> QED
    BY <1>2, <2>2, <2>3, <2>4, <2>5 DEF TheSettlement!Next, TheSettlement!Book
<1>5. ASSUME NEW r \in Reqs, NEW user \in Users, RequestRedeem(r, user)
      PROVE  TheSettlement!Next
  <2>1. PICK id \in RedeemIds \ numbered : DOMAIN redeems' = DOMAIN redeems \cup {id}
    BY <1>5 DEF RequestRedeem, With
  <2>2. id \notin Booked /\ Booked' = Booked \cup {id}
    BY <1>1, <1>5, <2>1 DEF QueueOK, TypeOK, Booked, RequestRedeem
  <2>3. UNCHANGED <<Submitted, asked>>
    BY <1>5 DEF RequestRedeem, Submitted
  <2> QED
    BY <1>2, <2>1, <2>2, <2>3 DEF TheSettlement!Next, TheSettlement!Book
<1>6. ASSUME NEW r \in Reqs, RedeemReachesNode(r)
      PROVE  TheSettlement!Next
  <2>1. req[r].id \in RedeemIds /\ req[r].id \in Booked
    BY <1>1, <1>6 DEF RedeemReachesNode, QueueOK, TypeOK, RequestsOK, Requests, Idle, Booked
  <2>2. asked' = asked \cup {req[r].id} /\ UNCHANGED <<Booked, Submitted>>
    BY <1>6 DEF RedeemReachesNode, Booked, Submitted
  <2> QED
    BY <1>2, <2>1, <2>2 DEF TheSettlement!Next, TheSettlement!Ask
<1>7. ASSUME NEW p \in PurchaseIds, BrokerUpdate(p)
      PROVE  SettlementKept
  <2>1. UNCHANGED Submitted /\ DOMAIN purchases' = DOMAIN purchases
    BY <1>1, <1>7, BrokerKeeps, KeptRowsKeepSubmitted DEF QueueOK
  <2> QED
    BY <1>2, <1>7, <2>1 DEF SettlementKept, Booked, BrokerUpdate, UpdatePurchase
<1>8. CASE ReadQueue
  <2>1. UNCHANGED Submitted /\ DOMAIN purchases' = DOMAIN purchases
    BY <1>1, <1>8, NormalizedKeeps, KeptRowsKeepSubmitted DEF QueueOK, ReadQueue
  <2> QED
    BY <1>2, <1>8, <2>1 DEF SettlementKept, Booked, ReadQueue
<1>9. ASSUME NEW id \in RedeemIds, NEW patch \in NodePatches, UpdateRedeem(id, patch)
      PROVE  SettlementKept
  BY <1>2, <1>9 DEF SettlementKept, Booked, Submitted, UpdateRedeem
<1>10. ASSUME UNCHANGED <<purchases, redeems, wiped, asked>>
       PROVE  SettlementKept
  BY <1>2, <1>10 DEF SettlementKept, Booked, Submitted
<1>11. CASE \/ \E r \in Reqs : AddressFails(r) \/ RedeemAnswered(r)
            \/ \E user \in Users : Freeze(user)
            \/ Tick
  BY <1>10, <1>11 DEF AddressFails, RedeemAnswered, Freeze, Tick
<1> QED
  BY <1>3, <1>4, <1>5, <1>6, <1>7, <1>8, <1>9, <1>11 DEF QueueStep

\* A new line of a transfer file has a nonce of its own, under which nothing was
\* paid; the reveal pays the one line of its purchase.
LEMMA PrepareSettles ==
    ASSUME IInv, NEW p \in PurchaseIds, NEW b \in Batches, Prepare(p, b)
    PROVE  SettlementKept
<1>1. PICK n \in Nonces \ Used :
        /\ UpdatePurchase(p, [status |-> "fulfillment_prepared", batch |-> b, nonce |-> n])
        /\ files' = files \cup {[id |-> p, batch |-> b, nonce |-> n]}
  BY DEF Prepare
<1>2. paid[n] = 0
  BY <1>1 DEF IInv, BookOK, PayoutsOK, FulfillTypeOK
<1>3. UNCHANGED PayoutsMade
  <2> DEFINE Of(f) == {[order |-> f.id, name |-> <<f.nonce, k>>] : k \in 1..paid[f.nonce]}
             line == [id |-> p, batch |-> b, nonce |-> n]
  <2>1. Of(line) = {}
    BY <1>2
  <2>2. PayoutsMade = UNION {Of(f) : f \in files}
    BY DEF PayoutsMade
  <2>3. PayoutsMade' = UNION {Of(f) : f \in files'}
    BY DEF PayoutsMade, Prepare
  <2>4. files' = files \cup {line}
    BY <1>1
  <2> HIDE DEF Of, line
  <2> QED
    BY <2>1, <2>2, <2>3, <2>4
<1>4. p \in DOMAIN purchases /\ p \notin Submitted /\ purchases[p].user \notin frozen
  BY DEF Prepare, Submitted
<1>5. DOMAIN purchases' = DOMAIN purchases /\ UNCHANGED Submitted
  <2>1. PICK patch : patch = [status |-> "fulfillment_prepared", batch |-> b, nonce |-> n]
    OBVIOUS
  <2>2. "status" \in DOMAIN patch /\ patch["status"] = "fulfillment_prepared"
    BY <2>1
  <2>3. UpdatePurchase(p, patch) /\ TypeOK
    BY <1>1, <2>1 DEF IInv, FulfillTypeOK
  <2>4. /\ DOMAIN purchases' = DOMAIN purchases
        /\ \A q \in DOMAIN purchases : q \in Submitted' <=> q \in Submitted
    BY <1>4, <2>2, <2>3, UpdateSets
  <2>5. Submitted \subseteq DOMAIN purchases /\ Submitted' \subseteq DOMAIN purchases'
    BY DEF Submitted
  <2> QED
    BY <2>4, <2>5
<1>6. UNCHANGED <<redeems, wiped, asked, known>>
  BY <1>1 DEF Prepare, UpdatePurchase
<1> QED
  BY <1>3, <1>5, <1>6 DEF SettlementKept, Booked, Told

LEMMA RevealSettles ==
    ASSUME IInv, NEW t \in Tabs, Reveal(t)
    PROVE  TheSettlement!Next
<1>1. PICK f : f = tab[t].row
  OBVIOUS
<1>2. /\ Busy(t) /\ tab[t].pc = "committed" /\ f \in FileRow /\ f \in files
      /\ f.id \in PurchaseIds /\ f.nonce \in Nonces
  <2>1. tab[t] \in Sending
    BY DEF IInv, FulfillTypeOK, Resting, Reveal
  <2> QED
    BY <1>1, <2>1 DEF Sending, FileRow, Busy, Resting, Reveal, IInv, BookOK, TabsOK
<1>3. /\ \A g \in files : g.id = f.id => paid[g.nonce] = 0
      /\ \A g \in files : g.nonce = f.nonce => g = f
      /\ f.id \in Booked
  BY <1>1, <1>2 DEF IInv, BookOK, TabsOK, FilesOK, Booked
<1>4. \A g \in files : paid'[g.nonce] = IF g = f THEN 1 ELSE paid[g.nonce]
  <2>1. \A g \in files : g.nonce \in Nonces
    BY DEF IInv, FulfillTypeOK, FileRow
  <2> QED
    BY <1>1, <1>2, <1>3, <2>1 DEF Reveal, IInv, FulfillTypeOK
<1> DEFINE new == [order |-> f.id, name |-> <<f.nonce, 1>>]
           Of(g, m) == {[order |-> g.id, name |-> <<g.nonce, k>>] : k \in 1..m}
<1>5. PayoutsMade' = PayoutsMade \cup {new}
  <2>1. PayoutsMade = UNION {Of(g, paid[g.nonce]) : g \in files}
    BY DEF PayoutsMade
  <2>2. PayoutsMade' = UNION {Of(g, paid'[g.nonce]) : g \in files}
    BY DEF PayoutsMade, Reveal
  <2>3. Of(f, paid[f.nonce]) = {}
    BY <1>2, <1>3
  <2>4. Of(f, paid'[f.nonce]) = {new}
    BY <1>2, <1>4
  <2>5. \A g \in files : g # f => paid'[g.nonce] = paid[g.nonce]
    BY <1>4
  <2> HIDE DEF Of, new
  <2> QED
    BY <1>2, <2>1, <2>2, <2>3, <2>4, <2>5
<1>6. f.id \notin TheSettlement!PaidOrders
  <2> SUFFICES ASSUME NEW x \in PayoutsMade
               PROVE  x.order # f.id
    BY DEF TheSettlement!PaidOrders
  <2>1. PICK g \in files : \E k \in 1..paid[g.nonce] : x = [order |-> g.id, name |-> <<g.nonce, k>>]
    BY DEF PayoutsMade
  <2>2. x.order = g.id /\ paid[g.nonce] # 0
    BY <2>1
  <2> QED
    BY <1>3, <2>2
<1>7. UNCHANGED <<Booked, Told, Submitted, asked>>
  BY DEF Reveal, queueVars, Booked, Told, Submitted
<1>8. TheSettlement!PayOut(f.id, <<f.nonce, 1>>)
  BY <1>3, <1>5, <1>6, <1>7 DEF TheSettlement!PayOut
<1> QED
  BY <1>2, <1>8 DEF TheSettlement!Next

\* What is collected was paid.
LEMMA CollectSettles ==
    ASSUME IInv, NEW b \in Batches, Collect(b)
    PROVE  TheSettlement!Next
<1> DEFINE batch == {f.id : f \in results[b]}
<1>1. batch \subseteq TheSettlement!PaidOrders
  <2> SUFFICES ASSUME NEW f \in results[b]
               PROVE  \E x \in PayoutsMade : x.order = f.id
    BY DEF TheSettlement!PaidOrders
  <2>1. f \in files /\ paid[f.nonce] = 1
    BY DEF IInv, BookOK, PayoutsOK
  <2>2. [order |-> f.id, name |-> <<f.nonce, 1>>] \in PayoutsMade
    BY <2>1 DEF PayoutsMade
  <2> QED
    BY <2>2
<1>2. Told' = Told \cup batch
  BY DEF Collect, Told
<1>3. UNCHANGED <<Booked, PayoutsMade, Submitted, asked>>
  BY DEF Collect, queueVars, Booked, PayoutsMade, Submitted
<1> QED
  BY <1>1, <1>2, <1>3 DEF TheSettlement!Next, TheSettlement!Tell

\* What is marked as submitted is known.
LEMMA MarkSubmittedSettles ==
    ASSUME IInv, NEW f \in files, MarkSubmitted(f)
    PROVE  SettlementKept \/ TheSettlement!Next
<1>1. f.id \in PurchaseIds /\ f.id \in Told /\ f.id \in DOMAIN purchases
  BY DEF MarkSubmitted, Told, IInv, FulfillTypeOK, FileRow
<1>2. PICK patch : patch = [status |-> "fulfillment_submitted"]
  OBVIOUS
<1>3. "status" \in DOMAIN patch /\ patch["status"] = "fulfillment_submitted"
  BY <1>2
<1>4. UpdatePurchase(f.id, patch) /\ TypeOK
  BY <1>2 DEF MarkSubmitted, IInv, FulfillTypeOK
<1>5. /\ DOMAIN purchases' = DOMAIN purchases
      /\ \A q \in DOMAIN purchases \ {f.id} : q \in Submitted' <=> q \in Submitted
      /\ (f.id \in Submitted' <=> f.id \in Submitted) \/ f.id \in Submitted'
  BY <1>1, <1>3, <1>4, UpdateSets
<1>6. Submitted \subseteq DOMAIN purchases /\ Submitted' \subseteq DOMAIN purchases'
  BY DEF Submitted
<1>7. Submitted' = Submitted \/ Submitted' = Submitted \cup {f.id}
  BY <1>5, <1>6
<1>8. UNCHANGED <<Booked, PayoutsMade, Told, asked>>
  BY <1>5 DEF MarkSubmitted, UpdatePurchase, fulfillVars, Booked, PayoutsMade, Told
<1> QED
  BY <1>1, <1>7, <1>8 DEF SettlementKept, TheSettlement!Next, TheSettlement!Submit

LEMMA StepSettles ==
    ASSUME IInv, [Next]_vars
    PROVE  [TheSettlement!Next]_(TheSettlement!vars)
<1>1. SettlementKept => UNCHANGED TheSettlement!vars
  BY DEF SettlementKept, TheSettlement!vars
<1>2. ASSUME NEW t \in Tabs, NEW f \in files, Build(t, f)
      PROVE  SettlementKept
  <2>1. PICK row : row = Patched(purchases[f.id], [status |-> "fulfillment_executing"])
    OBVIOUS
  <2>2. purchases' = [purchases EXCEPT ![f.id] = row]
    BY <1>2, <2>1 DEF Build
  <2>3. row.status = "fulfillment_executing" /\ purchases[f.id].status = "fulfillment_prepared"
    <3>1. purchases[f.id] \in Purchase
      BY <1>2 DEF Build, IInv, FulfillTypeOK, TypeOK
    <3>2. "fulfillment_executing" \in Statuses
      BY DEF Statuses, Committed
    <3> QED
      BY <1>2, <2>1, <3>1, <3>2, PatchedStatus DEF Build, Matches, Purchase
  <2>4. DOMAIN purchases' = DOMAIN purchases /\ UNCHANGED Submitted
    BY <2>2, <2>3 DEF Submitted
  <2> QED
    BY <1>2, <2>4 DEF Build, SettlementKept, Booked, PayoutsMade, Told
<1>3. ASSUME UNCHANGED <<purchases, redeems, wiped, asked, files, paid, known>>
      PROVE  SettlementKept
  BY <1>3 DEF SettlementKept, Booked, PayoutsMade, Told, Submitted
<1>4. ASSUME NEW t \in Tabs, Commit(t) \/ GiveUp(t) \/ Persist(t) \/ LoseResult(t)
      PROVE  SettlementKept
  BY <1>3, <1>4 DEF Commit, GiveUp, Persist, LoseResult, queueVars
<1>5. CASE RestartServer \/ UNCHANGED vars
  BY <1>1, <1>3, <1>5 DEF RestartServer, Crash, vars, queueVars, fulfillVars
<1>6. CASE Clear
  <2>1. Booked' = Booked /\ Submitted' = {}
    BY <1>6 DEF Clear, ClearQueue, Booked, Submitted
  <2>2. UNCHANGED <<PayoutsMade, Told, asked>>
    BY <1>6 DEF Clear, ClearQueue, PayoutsMade, Told
  <2> QED
    BY <2>1, <2>2 DEF TheSettlement!Next, TheSettlement!Clear
<1> QED
  BY <1>1, <1>2, <1>4, <1>5, <1>6, QueueStepSettles, PrepareSettles, RevealSettles,
     CollectSettles, MarkSubmittedSettles DEF Next

\* The bridge implements module Settlement, whatever the number of purchases, redeems,
\* tabs, batches, requests and faults: an order is booked, paid out once, told of and
\* shown as submitted, in this order, and no redeem is asked for before it is stored.
THEOREM BridgeSettles == Spec => IsASettlement
<1>1. Init => TheSettlement!Init
  BY DEF Init, QueueInit, TheSettlement!Init, Booked, PayoutsMade, Told, Submitted
<1> QED
  BY <1>1, StepSettles, Invariance, PTL DEF Spec, IsASettlement, TheSettlement!Spec

-----------------------------------------------------------------------------
(* The unpaid payer lock.  It is tested before the handler waits for the   *)
(* address and the order is added after, so that the orders of requests    *)
(* that wait at one time do not see each other.  All others do.            *)

Met(pairs, p, q) == <<p, q>> \in pairs \/ <<q, p>> \in pairs

\* What a handler waits for waited together with what other handlers wait for,
\* and with the orders that are open for its payer.
WaitersOK ==
    \A r \in Reqs : req[r].pc = "deposit_address" =>
        /\ \A s \in Reqs : req[s].pc = "deposit_address" /\ s # r =>
              Met(together, req[r].id, req[s].id)
        /\ \A p \in DOMAIN purchases :
              /\ OpenForPayment(purchases[p])
              /\ purchases[p].user = req[r].user
              /\ purchases[p].payer = req[r].payer
              => Met(together, p, req[r].id)

LockOK == UnpaidLockHolds /\ WaitersOK

\* No row becomes an order that is open.
OrdersKept ==
    /\ now \in Nat /\ now' \in Nat /\ now <= now'
    /\ \A p \in DOMAIN purchases' : purchases'[p].status = "awaiting_payment" =>
          /\ p \in DOMAIN purchases
          /\ purchases'[p] = purchases[p]
          /\ purchases[p].expiresAt \in Nat

LEMMA OpenWasOpen ==
    ASSUME OrdersKept, NEW p \in DOMAIN purchases', OpenForPayment(purchases[p])'
    PROVE  p \in DOMAIN purchases /\ purchases'[p] = purchases[p] /\ OpenForPayment(purchases[p])
BY DEF OrdersKept, OpenForPayment, AwaitingPayment

LEMMA UpdateKeepsOrders ==
    ASSUME TypeOK, NEW p \in DOMAIN purchases, NEW patch, UpdatePurchase(p, patch),
           "status" \in DOMAIN patch, patch["status"] # "awaiting_payment"
    PROVE  OrdersKept
<1>1. \A q \in DOMAIN purchases : /\ Normalized[q] \in Purchase /\ purchases[q] \in Purchase
                                  /\ DOMAIN Normalized = DOMAIN purchases
  BY NormalizedRow
<1>2. \A q \in DOMAIN purchases : Normalized[q].status = "awaiting_payment" =>
        Normalized[q] = purchases[q]
  BY <1>1 DEF Normalized, NormalizeForTime, AwaitingPayment
<1>3. Patched(Normalized[p], patch).status # "awaiting_payment"
  <2>1. "status" \in DOMAIN Normalized[p]
    BY <1>1 DEF Purchase
  <2> QED
    BY <2>1 DEF Patched
<1>4. /\ DOMAIN purchases' = DOMAIN purchases
      /\ \A q \in DOMAIN purchases :
            \/ purchases'[q] = Normalized[q]
            \/ purchases'[q].status # "awaiting_payment"
  <2>1. purchases' = [q \in DOMAIN purchases |->
           IF q = p THEN IF Normalized[p].user \in frozen THEN Normalized[p]
                         ELSE Patched(Normalized[p], patch)
                    ELSE Normalized[q]]
    BY <1>1 DEF UpdatePurchase, Normalized
  <2> QED
    BY <1>3, <2>1
<1>5. now' = now /\ now \in Nat /\ \A q \in DOMAIN purchases : purchases[q].expiresAt \in Nat
  BY <1>1 DEF TypeOK, UpdatePurchase, Purchase
<1> QED
  BY <1>2, <1>4, <1>5 DEF OrdersKept

LEMMA SameKeepsOrders ==
    ASSUME TypeOK, UNCHANGED purchases, now' \in Nat, now <= now'
    PROVE  OrdersKept
<1>1. \A q \in DOMAIN purchases : purchases[q].expiresAt \in Nat
  BY DEF TypeOK, Purchase
<1> QED
  BY <1>1 DEF OrdersKept, TypeOK

LEMMA NormalizedKeepsOrders ==
    ASSUME TypeOK, purchases' = Normalized, UNCHANGED now
    PROVE  OrdersKept
<1>1. \A q \in DOMAIN purchases : /\ DOMAIN Normalized = DOMAIN purchases
                                  /\ purchases[q].expiresAt \in Nat
  BY NormalizedRow DEF Purchase
<1>2. DOMAIN Normalized = DOMAIN purchases
  BY DEF Normalized
<1>3. \A q \in DOMAIN purchases : Normalized[q].status = "awaiting_payment" =>
        Normalized[q] = purchases[q]
  BY DEF Normalized, NormalizeForTime, AwaitingPayment
<1> QED
  BY <1>1, <1>2, <1>3 DEF OrdersKept, TypeOK

LEMMA OpenPairsKept ==
    ASSUME UnpaidLockHolds, OrdersKept, together \subseteq together'
    PROVE  UnpaidLockHolds'
<1> SUFFICES ASSUME NEW p \in DOMAIN purchases', NEW q \in DOMAIN purchases', p # q,
                    OpenForPayment(purchases[p])', OpenForPayment(purchases[q])',
                    purchases'[p].user = purchases'[q].user,
                    purchases'[p].payer = purchases'[q].payer
             PROVE  <<p, q>> \in together' \/ <<q, p>> \in together'
  BY DEF UnpaidLockHolds
<1> QED
  BY OpenWasOpen DEF UnpaidLockHolds

\* A step that opens no order and starts no handler.
LEMMA LockKept ==
    ASSUME LockOK, OrdersKept, UNCHANGED together,
           \A r \in Reqs : req'[r].pc = "deposit_address" => req'[r] = req[r]
    PROVE  LockOK'
<1>1. UnpaidLockHolds'
  BY OpenPairsKept DEF LockOK
<1>2. ASSUME NEW r \in Reqs, req'[r].pc = "deposit_address",
             NEW s \in Reqs, req'[s].pc = "deposit_address", s # r
      PROVE  Met(together', req'[r].id, req'[s].id)
  BY <1>2 DEF LockOK, WaitersOK
<1>3. ASSUME NEW r \in Reqs, req'[r].pc = "deposit_address",
             NEW p \in DOMAIN purchases', OpenForPayment(purchases[p])',
             purchases'[p].user = req'[r].user, purchases'[p].payer = req'[r].payer
      PROVE  Met(together', p, req'[r].id)
  BY <1>3, OpenWasOpen DEF LockOK, WaitersOK
<1>4. WaitersOK'
  BY <1>2, <1>3 DEF WaitersOK
<1> QED
  BY <1>1, <1>4 DEF LockOK

LEMMA RequestKeepsLock ==
    ASSUME TypeOK, LockOK, NEW r \in Reqs, NEW user \in Users, NEW payer \in Payers,
           RequestPurchase(r, user, payer)
    PROVE  LockOK'
<1> USE DEF RequestPurchase
<1>1. OrdersKept
  BY NormalizedKeepsOrders
<1>2. CASE \E p \in DOMAIN Normalized : UnpaidLock(Normalized[p], user, payer)
  BY <1>1, <1>2, LockKept
<1>3. CASE ~ \E p \in DOMAIN Normalized : UnpaidLock(Normalized[p], user, payer)
  <2>1. PICK id : /\ req' = [req EXCEPT ![r] =
                       [pc |-> "deposit_address", id |-> id, user |-> user, payer |-> payer]]
                  /\ together' = together \cup (Waiting \X {id})
    BY <1>3
  <2>2. \A s \in Reqs : IF s = r THEN /\ req'[s].user = user /\ req'[s].payer = payer
                                      /\ req'[s].id = id
                                 ELSE req'[s] = req[s]
    BY <2>1 DEF TypeOK
  <2>3. together \subseteq together'
    BY <2>1
  <2>4. UnpaidLockHolds'
    BY <1>1, <2>3, OpenPairsKept DEF LockOK
  <2>5. ASSUME NEW s \in Reqs \ {r}, req[s].pc = "deposit_address"
        PROVE  <<req[s].id, id>> \in together'
    <3>1. req[s].id \in Waiting
      BY <2>5 DEF Waiting
    <3> QED
      BY <2>1, <3>1
  <2>6. ASSUME NEW s \in Reqs, req'[s].pc = "deposit_address",
               NEW u \in Reqs, req'[u].pc = "deposit_address", u # s
        PROVE  Met(together', req'[s].id, req'[u].id)
    BY <2>2, <2>3, <2>5, <2>6 DEF LockOK, WaitersOK, Met
  <2>7. ASSUME NEW p \in DOMAIN purchases', OpenForPayment(purchases[p])'
        PROVE  ~ (purchases'[p].user = user /\ purchases'[p].payer = payer)
    <3>1. purchases'[p] = Normalized[p] /\ p \in DOMAIN Normalized /\ now' = now
      BY <2>7
    <3>2. ~ UnpaidLock(Normalized[p], user, payer)
      BY <1>3, <3>1
    <3>3. now \in Nat /\ purchases'[p].expiresAt \in Nat
      BY <1>1, <2>7, OpenWasOpen DEF OrdersKept, OpenForPayment, AwaitingPayment
    <3> QED
      BY <2>7, <3>1, <3>2, <3>3 DEF UnpaidLock, OpenForPayment
  <2>8. ASSUME NEW s \in Reqs, req'[s].pc = "deposit_address",
               NEW p \in DOMAIN purchases', OpenForPayment(purchases[p])',
               purchases'[p].user = req'[s].user, purchases'[p].payer = req'[s].payer
        PROVE  Met(together', p, req'[s].id)
    <3>1. s # r /\ req'[s] = req[s]
      BY <2>2, <2>7, <2>8
    <3> QED
      BY <1>1, <2>3, <2>8, <3>1, OpenWasOpen DEF LockOK, WaitersOK, Met
  <2>9. WaitersOK'
    BY <2>6, <2>8 DEF WaitersOK
  <2> QED
    BY <2>4, <2>9 DEF LockOK
<1> QED
  BY <1>2, <1>3

LEMMA AddKeepsLock ==
    ASSUME TypeOK, RequestsOK, LockOK, NEW r \in Reqs, AddPurchase(r)
    PROVE  LockOK'
<1> USE DEF AddPurchase
<1>1. PICK e : e = req[r]
  OBVIOUS
<1>2. e.pc = "deposit_address" /\ e.id \notin DOMAIN purchases
  BY <1>1 DEF RequestsOK
<1>3. /\ DOMAIN purchases' = DOMAIN purchases \cup {e.id}
      /\ purchases'[e.id].user = e.user /\ purchases'[e.id].payer = e.payer
      /\ \A p \in DOMAIN purchases : purchases'[p] = purchases[p]
  BY <1>1, <1>2 DEF With
<1>4. \A s \in Reqs : req'[s].pc = "deposit_address" => req'[s] = req[s] /\ s # r
  BY <1>1 DEF TypeOK, Idle
<1>5. ASSUME NEW p \in DOMAIN purchases, OpenForPayment(purchases[p])'
      PROVE  OpenForPayment(purchases[p])
  BY <1>3, <1>5 DEF OpenForPayment
<1>6. ASSUME NEW p \in DOMAIN purchases, OpenForPayment(purchases[p]),
             purchases[p].user = e.user, purchases[p].payer = e.payer
      PROVE  Met(together, p, e.id)
  BY <1>1, <1>2, <1>6 DEF LockOK, WaitersOK
<1>7. UnpaidLockHolds'
  <2> SUFFICES ASSUME NEW p \in DOMAIN purchases', NEW q \in DOMAIN purchases', p # q,
                      OpenForPayment(purchases[p])', OpenForPayment(purchases[q])',
                      purchases'[p].user = purchases'[q].user,
                      purchases'[p].payer = purchases'[q].payer
               PROVE  Met(together, p, q)
    BY DEF UnpaidLockHolds, Met
  <2>1. CASE p \in DOMAIN purchases /\ q \in DOMAIN purchases
    BY <1>3, <1>5, <2>1 DEF LockOK, UnpaidLockHolds, Met
  <2>2. CASE p = e.id \/ q = e.id
    BY <1>3, <1>5, <1>6, <2>2 DEF Met
  <2> QED
    BY <1>3, <2>1, <2>2
<1>8. ASSUME NEW s \in Reqs, req'[s].pc = "deposit_address",
             NEW p \in DOMAIN purchases', OpenForPayment(purchases[p])',
             purchases'[p].user = req'[s].user, purchases'[p].payer = req'[s].payer
      PROVE  Met(together, p, req[s].id)
  <2>1. CASE p \in DOMAIN purchases
    BY <1>3, <1>4, <1>5, <1>8, <2>1 DEF LockOK, WaitersOK
  <2>2. CASE p = e.id
    BY <1>1, <1>2, <1>4, <1>8, <2>2 DEF LockOK, WaitersOK
  <2> QED
    BY <1>3, <2>1, <2>2
<1>9. WaitersOK'
  BY <1>4, <1>8 DEF LockOK, WaitersOK
<1> QED
  BY <1>7, <1>9 DEF LockOK

LEMMA StepKeepsLock ==
    ASSUME IInv, LockOK, [Next]_vars
    PROVE  LockOK'
<1>1. TypeOK /\ RequestsOK /\ now \in Nat
  BY DEF IInv, FulfillTypeOK, TypeOK
<1>2. ASSUME OrdersKept, UNCHANGED together,
             \A r \in Reqs : req'[r].pc = "deposit_address" => req'[r] = req[r]
      PROVE  LockOK'
  BY <1>2, LockKept
<1>3. CASE QueueStep
  <2>1. ASSUME NEW r \in Reqs, NEW user \in Users, NEW payer \in Payers,
               RequestPurchase(r, user, payer)
        PROVE  LockOK'
    BY <1>1, <2>1, RequestKeepsLock
  <2>2. ASSUME NEW r \in Reqs, AddPurchase(r)
        PROVE  LockOK'
    BY <1>1, <2>2, AddKeepsLock
  <2>3. ASSUME NEW r \in Reqs, AddressFails(r) \/ RedeemAnswered(r) \/ RedeemReachesNode(r)
        PROVE  LockOK'
    <3>1. UNCHANGED <<now, purchases, together>>
      BY <2>3 DEF AddressFails, RedeemAnswered, RedeemReachesNode
    <3>2. OrdersKept
      BY <1>1, <3>1, SameKeepsOrders
    <3>3. \A s \in Reqs : req'[s].pc = "deposit_address" => req'[s] = req[s]
      BY <1>1, <2>3 DEF AddressFails, RedeemAnswered, RedeemReachesNode, TypeOK, Idle
    <3> QED
      BY <1>2, <3>1, <3>2, <3>3
  <2>4. ASSUME NEW r \in Reqs, NEW user \in Users, RequestRedeem(r, user)
        PROVE  LockOK'
    <3>1. UNCHANGED <<now, purchases, together>>
      BY <2>4 DEF RequestRedeem
    <3>2. OrdersKept
      BY <1>1, <3>1, SameKeepsOrders
    <3>3. PICK id : req' = [req EXCEPT ![r] = [pc |-> "redeem_submit", id |-> id]]
      BY <2>4 DEF RequestRedeem
    <3>4. \A s \in Reqs : req'[s].pc = "deposit_address" => req'[s] = req[s]
      BY <1>1, <3>3 DEF TypeOK
    <3> QED
      BY <1>2, <3>1, <3>2, <3>4
  <2>5. CASE ReadQueue
    BY <1>1, <1>2, <2>5, NormalizedKeepsOrders DEF ReadQueue
  <2>6. ASSUME NEW p \in PurchaseIds, BrokerUpdate(p)
        PROVE  LockOK'
    <3>1. PICK s \in BrokerMove(purchases[p].status) : UpdatePurchase(p, [status |-> s])
      BY <2>6 DEF BrokerUpdate
    <3>2. p \in DOMAIN purchases /\ s # "awaiting_payment"
      BY <2>6 DEF BrokerUpdate, BrokerMove
    <3>3. OrdersKept
      BY <1>1, <3>1, <3>2, UpdateKeepsOrders
    <3> QED
      BY <1>2, <3>1, <3>3 DEF UpdatePurchase
  <2>7. ASSUME UNCHANGED <<purchases, req, together>>, now' \in Nat, now <= now'
        PROVE  LockOK'
    BY <1>1, <1>2, <2>7, SameKeepsOrders
  <2>8. ASSUME NEW id \in RedeemIds, NEW patch \in NodePatches, UpdateRedeem(id, patch)
        PROVE  UNCHANGED <<now, purchases, req, together>>
    BY <2>8 DEF UpdateRedeem
  <2>9. ASSUME NEW user \in Users, Freeze(user)
        PROVE  UNCHANGED <<now, purchases, req, together>>
    BY <2>9 DEF Freeze
  <2>10. CASE Tick
    BY <1>1, <2>7, <2>10 DEF Tick
  <2>11. CASE UNCHANGED <<now, purchases, req, together>>
    BY <1>1, <2>7, <2>11
  <2> QED
    BY <1>3, <2>1, <2>2, <2>3, <2>5, <2>6, <2>4, <2>8, <2>9, <2>10, <2>11 DEF QueueStep
<1>4. ASSUME NEW b \in Batches, NEW p \in PurchaseIds, Prepare(p, b)
      PROVE  LockOK'
  <2>1. PICK n : UpdatePurchase(p, [status |-> "fulfillment_prepared", batch |-> b, nonce |-> n])
    BY <1>4 DEF Prepare
  <2>2. OrdersKept
    BY <1>1, <1>4, <2>1, UpdateKeepsOrders DEF Prepare
  <2> QED
    BY <1>2, <2>1, <2>2 DEF UpdatePurchase
<1>5. ASSUME NEW f \in files, MarkSubmitted(f)
      PROVE  LockOK'
  <2>1. OrdersKept
    BY <1>1, <1>5, UpdateKeepsOrders DEF MarkSubmitted
  <2> QED
    BY <1>2, <1>5, <2>1 DEF MarkSubmitted, UpdatePurchase
<1>6. ASSUME NEW f \in files, NEW t \in Tabs, Build(t, f)
      PROVE  LockOK'
  <2>1. f.id \in DOMAIN purchases /\ purchases[f.id] \in Purchase
    BY <1>1, <1>6 DEF Build, TypeOK
  <2>2. Patched(purchases[f.id], [status |-> "fulfillment_executing"]).status = "fulfillment_executing"
    BY <2>1 DEF Patched, Purchase
  <2>3. \A q \in DOMAIN purchases : purchases[q].expiresAt \in Nat
    BY <1>1 DEF TypeOK, Purchase
  <2>4. OrdersKept
    BY <1>1, <1>6, <2>2, <2>3 DEF Build, OrdersKept
  <2> QED
    BY <1>2, <1>6, <2>4 DEF Build
<1>7. CASE RestartServer
  <2>1. OrdersKept
    BY <1>1, <1>7, SameKeepsOrders DEF RestartServer, Crash
  <2> QED
    BY <1>2, <1>7, <2>1 DEF RestartServer, Crash, Idle
<1>8. CASE Clear
  <2>1. OrdersKept
    BY <1>1, <1>8 DEF Clear, ClearQueue, OrdersKept
  <2> QED
    BY <1>2, <1>8, <2>1 DEF Clear, ClearQueue
<1>9. ASSUME UNCHANGED queueVars
      PROVE  LockOK'
  <2>1. UNCHANGED <<now, purchases, req, together>>
    BY <1>9 DEF queueVars
  <2> QED
    BY <1>1, <1>2, <2>1, SameKeepsOrders
<1>10. ASSUME NEW t \in Tabs, Commit(t) \/ Reveal(t) \/ GiveUp(t) \/ Persist(t) \/ LoseResult(t)
       PROVE  UNCHANGED queueVars
  BY <1>10 DEF Commit, Reveal, GiveUp, Persist, LoseResult
<1>11. ASSUME NEW b \in Batches, Collect(b)
       PROVE  UNCHANGED queueVars
  BY <1>11 DEF Collect
<1>12. UNCHANGED vars => UNCHANGED queueVars
  BY DEF vars
<1> QED
  BY <1>3, <1>4, <1>5, <1>6, <1>7, <1>8, <1>9, <1>10, <1>11, <1>12 DEF Next

\* Two orders of a user are open for one payer only if their requests waited for
\* their addresses at one time, whatever expires, is cleared or is cut off, and
\* whatever other requests overlap.
THEOREM UnpaidLockAlwaysHolds == Spec => []UnpaidLockHolds
<1>1. Init => LockOK
  BY DEF Init, QueueInit, LockOK, UnpaidLockHolds, WaitersOK, Idle
<1>2. IInv /\ LockOK /\ [Next]_vars => LockOK'
  BY StepKeepsLock
<1>3. LockOK => UnpaidLockHolds
  BY DEF LockOK
<1> QED
  BY <1>1, <1>2, <1>3, Invariance, PTL DEF Spec
=============================================================================
