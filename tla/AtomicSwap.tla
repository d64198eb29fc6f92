----------------------------- MODULE AtomicSwap -----------------------------
(***************************************************************************)
(* Atomic swaps of KCC20 tokens (server.ts 5238-5829, 27717-33375).  The   *)
(* maker locks holder outputs in an output that a script releases in two   *)
(* ways: to a taker, in a transaction that pays the maker, or back to the  *)
(* maker.  A direct swap names its taker, an open one is taken by anyone   *)
(* who finds its offer.                                                    *)
(*                                                                         *)
(* Locks, claims and refunds are built and cached, and submitted in steps: *)
(* the checks up to the first await, the reply of the node, and the        *)
(* records: the swap's, the tracked holders', and the offer's, one write   *)
(* after the other.  Wallets are wallets of one user: the records are in   *)
(* the user's own files.  Amounts and the token's controller are module    *)
(* IssuerToken's; one token, one price.                                    *)
(***************************************************************************)
EXTENDS RequestTable, Naturals, FiniteSets

CONSTANTS
    Wallets, Anyone, \* Anyone: in place of the taker of an open swap
    MaxTx,        \* bound: transactions, of which Init has two
    MaxBuilds,    \* bound: builds cached together
    MaxUnseen     \* bound: stops, and claims of other programs

ASSUME AtomicSwapAssumption ==
    /\ MaxTx \in Nat \ {0, 1} /\ MaxBuilds \in Nat /\ MaxUnseen \in Nat /\ Anyone \notin Wallets

VARIABLES
    made, spent,  \* the swap-locked outputs, and how they were spent
    lots, pays,   \* unspent holder outputs and payments
    ntx,
    named,        \* history: the open offers that accepted claims named
    records, tracked, offers,  \* the user's swap and holder records; open offers
    late,         \* the swaps whose offer has run out
    cache, unseen

vars == <<made, spent, lots, pays, ntx, named, records, tracked, offers, late, cache, req, unseen>>
chain == <<made, spent, lots, pays, ntx, named>>
files == <<records, tracked, offers>>

\* An output is named by the transaction that made it.
Txs == 1..MaxTx
Locks == [id: Txs, maker: Wallets, taker: Wallets \cup {Anyone}]
Statuses == {"locked", "lock_pending", "claimed", "claim_pending", "refunded", "refund_pending"}
\* srcs: the holder outputs locked; change: some of them came back
Records == [id: Txs, maker: Wallets, taker: Wallets \cup {Anyone}, srcs: SUBSET Txs,
            change: BOOLEAN, status: Statuses, tx: Txs]
OfferStates == {"none", "open", "filled", "cancelled"}
\* lock: the output that is spent, or 0; paid: the maker to pay, or Anyone;
\* offer: the open offer that a claim names, or 0
Entries == [op: {"lock", "claim", "refund"}, wallet: Wallets, lock: 0..MaxTx,
            taker: Wallets \cup {Anyone}, paid: Wallets \cup {Anyone}, srcs: SUBSET Txs,
            change: BOOLEAN, offer: 0..MaxTx]
Entry(op, w, lock, taker, paid, srcs, change, offer) ==
    [op |-> op, wallet |-> w, lock |-> lock, taker |-> taker, paid |-> paid,
     srcs |-> srcs, change |-> change, offer |-> offer]

TypeOK ==
    /\ made \subseteq Locks
    /\ spent \subseteq [id: Txs, how: {"claimed", "refunded"},
                        paid: Wallets \cup {Anyone}, to: Wallets]
    /\ lots \subseteq [tx: Txs, wallet: Wallets] /\ pays \subseteq Txs /\ ntx \in 0..MaxTx
    /\ named \subseteq [swap: Txs, offer: Txs]
    /\ records \subseteq Records /\ tracked \subseteq Txs /\ offers \in [Txs -> OfferStates]
    /\ \A rec, other \in records : rec.id = other.id => rec = other
    /\ late \subseteq Txs /\ cache \subseteq Entries /\ unseen \in 0..MaxUnseen
    /\ \A r \in Reqs :
          \/ req[r] = Idle
          \/ /\ req[r].pc \in {"sent", "accepted"} /\ req[r].entry \in Entries
             /\ req[r].rec \subseteq Records /\ req[r].tx \in 0..MaxTx
          \/ req[r].pc \in {"finalizing", "repairing"} /\ req[r].todo \subseteq Records

\* A tracked lot, and a swap that was locked and recorded.
Init ==
    /\ ntx = 2 /\ spent = {} /\ pays = {} /\ named = {} /\ late = {} /\ cache = {} /\ unseen = 0
    /\ req = [r \in Reqs |-> Idle]
    /\ \E w, v \in Wallets : \E taker \in (Wallets \ {v}) \cup {Anyone} :
          /\ lots = {[tx |-> 1, wallet |-> w]} /\ tracked = {1}
          /\ made = {[id |-> 2, maker |-> v, taker |-> taker]}
          /\ records = {[id |-> 2, maker |-> v, taker |-> taker, srcs |-> {},
                         change |-> FALSE, status |-> "locked", tx |-> 2]}
          /\ offers = [t \in Txs |-> IF t = 2 /\ taker = Anyone THEN "open" ELSE "none"]

IsLive(id) == (\E l \in made : l.id = id) /\ \A s \in spent : s.id # id
LotIsLive(tx) == \E l \in lots : l.tx = tx
RecordOf(id) == {rec \in records : rec.id = id}
\* upsertKcc20AtomicSwapMakerLockRecord
Upserted(rec) == {x \in records : x.id # rec.id} \cup {rec}

(***************************************************************************)
(* Builds.                                                                 *)
(***************************************************************************)
Busy == {r \in Reqs : req[r] # Idle}
\* Nothing is built that no request is left for.
Cached(e) ==
    /\ Cardinality(cache) < MaxBuilds /\ ntx < MaxTx
    /\ Cardinality(cache) + Cardinality(Busy) < Cardinality(Reqs)
    /\ cache' = cache \cup {e}
    /\ UNCHANGED <<chain, files, late, req, unseen>>

Expire(e) ==
    /\ cache' = cache \ {e}
    /\ UNCHANGED <<chain, files, late, req, unseen>>

Sources(w) == {l.tx : l \in {x \in lots : x.wallet = w /\ x.tx \in tracked}}

\* Tracked lots of the wallet that are live; one that covers the amount, or more.
BuildOpenLock(w, change) ==
    \E srcs \in SUBSET Sources(w) \ {{}} : Cached(Entry("lock", w, 0, Anyone, Anyone, srcs, change, 0))

BuildDirectLock(w, taker, change) ==
    \E srcs \in SUBSET Sources(w) \ {{}} : Cached(Entry("lock", w, 0, taker, Anyone, srcs, change, 0))

\* kcc20AtomicSwapLockRecordIsOfferExpired
InTime(rec) == rec.id \notin late
IsOpenSwap(rec) == rec.taker = Anyone

\* A claim need not name an offer.
OfferIsOpen(offer) == offer # 0 => offers[offer] = "open" /\ offer \notin late

OpenClaimAllowed(rec, offer) ==
    IsOpenSwap(rec) /\ rec.status = "locked" /\ InTime(rec) /\ OfferIsOpen(offer)

DirectClaimAllowed(w, rec) == rec.taker = w /\ rec.status = "locked" /\ InTime(rec)

\* The transaction is built from the record.
ClaimEntry(w, rec, offer) == Entry("claim", w, rec.id, w, rec.maker, {}, FALSE, offer)

\* The offer that is named is not compared with the output that is claimed.
BuildOpenClaim(w, rec, offer) ==
    /\ OpenClaimAllowed(rec, offer) /\ IsLive(rec.id)
    /\ Cached(ClaimEntry(w, rec, offer))

BuildDirectClaim(w, rec) ==
    /\ DirectClaimAllowed(w, rec) /\ IsLive(rec.id)
    /\ Cached(ClaimEntry(w, rec, 0))

\* mutant: an offer that has run out is not found
OpenRefundAllowedInTime(w, rec) ==
    /\ IsOpenSwap(rec) /\ rec.status = "locked" /\ rec.maker = w
    /\ offers[rec.id] = "open" /\ InTime(rec)

\* Before and after the offer has run out.
OpenRefundAllowed(w, rec) ==
    /\ IsOpenSwap(rec) /\ rec.status = "locked" /\ rec.maker = w
    /\ offers[rec.id] = "open"

DirectRefundAllowed(w, rec) == ~ IsOpenSwap(rec) /\ rec.status = "locked" /\ rec.maker = w

RefundEntry(w, rec) == Entry("refund", w, rec.id, w, Anyone, {}, FALSE, 0)

BuildOpenRefund(w, rec) ==
    /\ OpenRefundAllowed(w, rec) /\ IsLive(rec.id)
    /\ Cached(RefundEntry(w, rec))

BuildDirectRefund(w, rec) ==
    /\ DirectRefundAllowed(w, rec) /\ IsLive(rec.id)
    /\ Cached(RefundEntry(w, rec))

\* The offer of a swap runs out.
RunOut(id) ==
    /\ IsLive(id) /\ id \notin late /\ \E rec \in RecordOf(id) : rec.status = "locked" /\ late' = late \cup {id}
    /\ UNCHANGED <<chain, files, cache, req, unseen>>

(***************************************************************************)
(* Submits.                                                                *)
(***************************************************************************)
Submitted(r, e, rec) ==
    /\ req[r] = Idle /\ ntx < MaxTx
    /\ Become(r, [pc |-> "sent", entry |-> e, rec |-> rec, tx |-> 0])
    /\ UNCHANGED <<chain, files, late, cache, unseen>>

SubmitOpenLock(r, e) == e.op = "lock" /\ e.taker = Anyone /\ Submitted(r, e, {})
SubmitDirectLock(r, e) == e.op = "lock" /\ e.taker # Anyone /\ Submitted(r, e, {})

\* The record that is read here is the one that is written afterwards.
SubmitOpenClaim(r, e) ==
    /\ e.op = "claim"
    /\ \E rec \in RecordOf(e.lock) : OpenClaimAllowed(rec, e.offer) /\ Submitted(r, e, {rec})

SubmitDirectClaim(r, e) ==
    /\ e.op = "claim"
    /\ \E rec \in RecordOf(e.lock) : DirectClaimAllowed(e.wallet, rec) /\ Submitted(r, e, {rec})

\* The offer is looked at again; the status of the record is not.
SubmitOpenRefund(r, e) ==
    /\ e.op = "refund" /\ offers[e.lock] = "open"
    /\ Submitted(r, e, {})

SubmitDirectRefund(r, e) ==
    /\ e.op = "refund" /\ \E rec \in RecordOf(e.lock) : ~ IsOpenSwap(rec)
    /\ Submitted(r, e, {})

Refused(r) ==
    /\ req[r].pc = "sent"
    /\ Become(r, Idle)
    /\ UNCHANGED <<chain, files, late, cache, unseen>>

(***************************************************************************)
(* The node, and the script of the locked output: three outputs, of which  *)
(* the first pays the maker the price and the second is the taker's holder *)
(* output; or one, the maker's, signed by the maker.                       *)
(***************************************************************************)
\* mutant: the script does not look at the first output
OpenPolicyUnpaid(l, e) == l.taker = Anyone /\ e.taker # Anyone
\* omaBuildKcc20AtomicOpenSwapPolicyBody: whoever claims names the holder.
OpenPolicy(l, e) == l.taker = Anyone /\ e.taker # Anyone /\ e.paid = l.maker

DirectPolicy(l, e) == l.taker = e.taker /\ e.paid = l.maker

RefundPolicy(l, e) == e.wallet = l.maker /\ e.taker = l.maker

Unlocks(l, e) ==
    \/ e.op = "claim" /\ (OpenPolicy(l, e) \/ DirectPolicy(l, e))
    \/ e.op = "refund" /\ RefundPolicy(l, e)

Ends(e) ==
    [id |-> e.lock, how |-> IF e.op = "claim" THEN "claimed" ELSE "refunded",
     paid |-> e.paid, to |-> e.taker]

Release(e, n) ==
    /\ \E l \in made : l.id = e.lock /\ IsLive(l.id) /\ Unlocks(l, e)
    /\ spent' = spent \cup {Ends(e)}
    /\ lots' = lots \cup {[tx |-> n, wallet |-> e.taker]}
    /\ pays' = IF e.op = "claim" THEN pays \cup {n} ELSE pays
    /\ UNCHANGED made

Lock(e, n) ==
    /\ \A s \in e.srcs : LotIsLive(s)
    /\ made' = made \cup {[id |-> n, maker |-> e.wallet, taker |-> e.taker]}
    /\ lots' = {l \in lots : l.tx \notin e.srcs}
                \cup {[tx |-> n, wallet |-> w] : w \in {x \in {e.wallet} : e.change}}
    /\ UNCHANGED <<spent, pays>>

OnChain(e) ==
    /\ ntx < MaxTx /\ ntx' = ntx + 1
    /\ named' = named \cup {[swap |-> e.lock, offer |-> o] : o \in {e.offer} \ {0}}
    /\ IF e.op = "lock" THEN Lock(e, ntx + 1) ELSE Release(e, ntx + 1)

Accept(r) ==
    /\ req[r].pc = "sent" /\ OnChain(req[r].entry)
    /\ cache' = cache \ {req[r].entry}
    /\ req' = [req EXCEPT ![r].pc = "accepted", ![r].tx = ntx + 1]
    /\ UNCHANGED <<files, late, unseen>>

Unseen(n) == unseen' = unseen + n /\ unseen' <= MaxUnseen

\* A claim needs no signature of the maker: any program can make one.
ClaimElsewhere(l) ==
    /\ \E w, paid \in Wallets : OnChain(Entry("claim", w, l.id, w, paid, {}, FALSE, 0))
    /\ Unseen(1)
    /\ UNCHANGED <<files, late, cache, req>>

\* The maker spends what the claim paid.
SpendPayment(tx) ==
    /\ \E rec \in records : rec.status = "claim_pending" /\ rec.tx = tx
    /\ pays' = pays \ {tx}
    /\ UNCHANGED <<made, spent, lots, ntx, named, files, late, cache, req, unseen>>

(***************************************************************************)
(* Records, when the outputs were looked for: seen, all of them; holder,   *)
(* the holder output.  Of the three writes the first n are made.           *)
(***************************************************************************)
\* kcc20AtomicSwapMakerChangeTemplateRecord: a holder record is made after
\* another one of the token, and there may be none.
WithTemplate(new) == IF tracked = {} THEN {} ELSE new

LockRecord(h, seen) ==
    [id |-> h.tx, maker |-> h.entry.wallet, taker |-> h.entry.taker, srcs |-> h.entry.srcs,
     change |-> h.entry.change, status |-> IF seen THEN "locked" ELSE "lock_pending",
     tx |-> h.tx]

\* mutant: the sources stay
ReplacedByChangeKept(srcs, new) == tracked \cup WithTemplate(new)
\* kcc20AtomicSwapReplaceSourceHoldersWithMakerChange
ReplacedByChange(srcs, new) == (tracked \ srcs) \cup WithTemplate(new)

\* The swap's record and the holder records of a lock.
LockWritten(h, seen, n) ==
    /\ h.entry.op = "lock"
    /\ records' = IF n >= 1 THEN Upserted(LockRecord(h, seen)) ELSE records
    /\ tracked' = IF n >= 2
                  THEN ReplacedByChange(h.entry.srcs, {t \in {h.tx} : h.entry.change})
                  ELSE tracked

\* An open swap is offered to everyone if its output was seen.
RecordOpenLock(h, seen, n) ==
    /\ h.entry.taker = Anyone /\ LockWritten(h, seen, n) /\ (seen => IsLive(h.tx))
    /\ offers' = IF n >= 3
                 THEN [offers EXCEPT ![h.tx] = IF seen THEN "open" ELSE "cancelled"]
                 ELSE offers

RecordDirectLock(h, seen, n) ==
    /\ h.entry.taker # Anyone /\ LockWritten(h, seen, n) /\ (seen => IsLive(h.tx))
    /\ UNCHANGED offers

Marked(rec, how, seen, e, tx) ==
    [rec EXCEPT !.status = IF seen THEN how[1] ELSE how[2], !.tx = tx,
                !.taker = IF e.op = "claim" THEN e.taker ELSE @]
ClaimedRecord(rec, h, seen) == Marked(rec, <<"claimed", "claim_pending">>, seen, h.entry, h.tx)
RefundedRecord(rec, h, seen) == Marked(rec, <<"refunded", "refund_pending">>, seen, h.entry, h.tx)
\* kcc20AtomicSwapTrackTakerClaimHolder
TrackedClaim(tx) == tracked \cup WithTemplate({tx})
\* kcc20AtomicSwapTrackMakerRefundHolder
TrackedRefund(tx) == tracked \cup WithTemplate({tx})

ClaimWritten(h, seen, holder, n) ==
    /\ h.entry.op = "claim"
    /\ records' = IF n >= 1 THEN UNION {Upserted(ClaimedRecord(rec, h, seen)) : rec \in h.rec}
                  ELSE records
    /\ tracked' = IF n >= 2 /\ holder THEN TrackedClaim(h.tx) ELSE tracked

\* All outputs of the claim were seen, or only the holder output.
ClaimSeen(h, seen, holder) ==
    /\ seen => holder /\ h.tx \in pays
    /\ holder => LotIsLive(h.tx)

\* The offer that was named is closed, if one was.
RecordOpenClaim(h, seen, holder, n) ==
    /\ ClaimWritten(h, seen, holder, n) /\ \E rec \in h.rec : IsOpenSwap(rec)
    /\ ClaimSeen(h, seen, holder)
    /\ offers' = IF n >= 3 /\ h.entry.offer # 0 THEN [offers EXCEPT ![h.entry.offer] = "filled"]
                 ELSE offers

RecordDirectClaim(h, seen, holder, n) ==
    /\ ClaimWritten(h, seen, holder, n) /\ \A rec \in h.rec : ~ IsOpenSwap(rec)
    /\ ClaimSeen(h, seen, holder)
    /\ UNCHANGED offers

\* The record is read again.
RefundWritten(h, seen, n) ==
    /\ h.entry.op = "refund"
    /\ records' = IF n >= 1
                  THEN UNION {Upserted(RefundedRecord(rec, h, seen)) : rec \in RecordOf(h.entry.lock)}
                  ELSE records
    /\ tracked' = IF n >= 2 /\ seen THEN TrackedRefund(h.tx) ELSE tracked

\* mutant: the offer is closed only by a claim
RecordOpenRefundOnly(h, seen, n) ==
    /\ RefundWritten(h, seen, n) /\ offers[h.entry.lock] # "none" /\ (seen => LotIsLive(h.tx))
    /\ UNCHANGED offers

\* The offer is closed if the refund was seen.
RecordOpenRefund(h, seen, n) ==
    /\ RefundWritten(h, seen, n) /\ offers[h.entry.lock] # "none" /\ (seen => LotIsLive(h.tx))
    /\ offers' = IF n >= 3 /\ seen THEN [offers EXCEPT ![h.entry.lock] = "cancelled"] ELSE offers

RecordDirectRefund(h, seen, n) ==
    /\ RefundWritten(h, seen, n) /\ offers[h.entry.lock] = "none" /\ (seen => LotIsLive(h.tx))
    /\ UNCHANGED offers

Recorded(r, n) ==
    /\ req[r].pc = "accepted"
    /\ \E seen \in BOOLEAN :
          \/ RecordOpenLock(req[r], seen, n) \/ RecordDirectLock(req[r], seen, n)
          \/ RecordOpenRefund(req[r], seen, n) \/ RecordDirectRefund(req[r], seen, n)
          \/ \E holder \in BOOLEAN :
                \/ RecordOpenClaim(req[r], seen, holder, n)
                \/ RecordDirectClaim(req[r], seen, holder, n)

Record(r) ==
    /\ Recorded(r, 3) /\ Become(r, Idle)
    /\ UNCHANGED <<chain, late, cache, unseen>>

\* The process stops, maybe after the node took a transaction, or between two
\* of the writes of a request.
Stop ==
    /\ \/ \E r \in Reqs, n \in 1..2 : Recorded(r, n)
       \/ UNCHANGED files
    /\ Unseen(1) /\ cache' = {} /\ req' = [r \in Reqs |-> Idle]
    /\ UNCHANGED <<chain, late>>

(***************************************************************************)
(* Repairs of the records.                                                 *)
(***************************************************************************)
\* One repair at a time is enough: none reads what another one writes.
NoRepair == \A r \in Busy : req[r].pc \in {"sent", "accepted"}

\* direct/taker-claim/finalize-pending: a claim that was not seen yet, or one
\* that is asked for.  The records are read before the first await, and each
\* is written as it was read: a request for one of them stands for all.
StartFinalize(r, w) ==
    /\ req[r] = Idle /\ NoRepair
    /\ \E rec \in records : /\ rec.taker = w /\ rec.status \in {"claimed", "claim_pending"}
                           /\ Become(r, [pc |-> "finalizing", todo |-> {rec}])
    /\ UNCHANGED <<chain, files, late, cache, unseen>>

Finalize(r) ==
    /\ req[r].pc = "finalizing"
    /\ \E rec \in req[r].todo :
          IF LotIsLive(rec.tx) /\ rec.tx \in pays
          THEN /\ records' = Upserted([rec EXCEPT !.status = "claimed"])
               /\ tracked' = tracked \cup WithTemplate({rec.tx})
          ELSE UNCHANGED <<records, tracked>>
    /\ Become(r, Idle)
    /\ UNCHANGED <<chain, offers, late, cache, unseen>>

\* direct/maker-lock/repair-change-ledger
StartRepair(r, w) ==
    /\ req[r] = Idle /\ NoRepair
    /\ LET todo == {rec \in records : /\ rec.status = "locked" /\ rec.taker # Anyone
                                      /\ rec.maker = w /\ rec.change}
       IN  todo # {} /\ Become(r, [pc |-> "repairing", todo |-> todo])
    /\ UNCHANGED <<chain, files, late, cache, unseen>>

\* mutant: the change is put back without a look at the chain
VisibleChangeAll(todo) == todo
VisibleChange(todo) == {rec \in todo : LotIsLive(rec.id)}

Repair(r) ==
    /\ req[r].pc = "repairing"
    /\ LET found == VisibleChange(req[r].todo)
       IN  tracked' = ReplacedByChange(UNION {rec.srcs : rec \in found}, {rec.id : rec \in found})
    /\ Become(r, Idle)
    /\ UNCHANGED <<chain, records, offers, late, cache, unseen>>

Builds ==
    \E w \in Wallets :
       \/ \E change \in BOOLEAN :
             BuildOpenLock(w, change) \/ \E taker \in Wallets \ {w} : BuildDirectLock(w, taker, change)
       \/ \E rec \in records :
             \/ \E offer \in 0..MaxTx : BuildOpenClaim(w, rec, offer)
             \/ BuildDirectClaim(w, rec)
             \/ BuildOpenRefund(w, rec) \/ BuildDirectRefund(w, rec)

Next ==
    \/ Builds \/ Stop
    \/ \E e \in cache : Expire(e)
    \/ \E tx \in Txs : RunOut(tx)
    \/ \E tx \in pays : SpendPayment(tx)
    \/ \E l \in made : ClaimElsewhere(l)
    \/ \E r \in Reqs :
          \/ \E e \in cache :
                \/ SubmitOpenLock(r, e) \/ SubmitDirectLock(r, e)
                \/ SubmitOpenClaim(r, e) \/ SubmitDirectClaim(r, e)
                \/ SubmitOpenRefund(r, e) \/ SubmitDirectRefund(r, e)
          \/ Refused(r) \/ Accept(r) \/ Record(r) \/ Finalize(r) \/ Repair(r)
          \/ \E w \in Wallets : StartFinalize(r, w) \/ StartRepair(r, w)

Spec == Init /\ [][Next]_vars

(***************************************************************************)
(* Properties.                                                             *)
(***************************************************************************)
\* The swaps on the chain are exchanges, and a record of the user says only
\* what has happened.
TheExchange == INSTANCE Exchange WITH
    MaxDeals <- MaxTx, deals <- made, ended <- spent,
    told <- {[id |-> rec.id, how |-> "claimed"] :
                rec \in {x \in records : x.status \in {"claimed", "claim_pending"}}}
            \cup {[id |-> rec.id, how |-> "refunded"] :
                     rec \in {x \in records : x.status \in {"refunded", "refund_pending"}}}

\* Whoever builds and sends a release, and in whatever order: the maker is
\* paid in the transaction that gives the tokens away, to the taker that was
\* named if one was, or has them back; and no record is ahead of the chain.
IsAnExchange == TheExchange!Spec

Releasing(id) == \E r \in Reqs : req[r].pc = "accepted" /\ req[r].entry.lock = id
Locking(tx) == \E r \in Reqs : req[r].pc = "accepted" /\ tx \in req[r].entry.srcs

\* The tracked holder records name live outputs, though locks, claims, late
\* claims and repairs of the records all write them.
TrackedIsLive == unseen = 0 => \A tx \in tracked : LotIsLive(tx) \/ Locking(tx)

Named(swap, offer) == [swap |-> swap, offer |-> offer] \in named

\* Whatever else is asked meanwhile, the maker of a swap that shows as locked
\* can take it back, also after its offer has run out; unless a claim of another
\* swap named its offer.
MakerCanTakeBack ==
    unseen = 0 => \A rec \in records :
        rec.status = "locked" /\ ~ Releasing(rec.id) =>
            /\ IsLive(rec.id)
            /\ \/ OpenRefundAllowed(rec.maker, rec) \/ DirectRefundAllowed(rec.maker, rec)
               \/ \E swap \in Txs \ {rec.id} : Named(swap, rec.id)

\* An offer that shows as filled was named by a claim that the chain took, one
\* that shows as cancelled was refunded or its lock was never seen, and one that
\* shows as open can be taken, unless its swap was claimed without naming it or a
\* refund was not seen in time.
OfferTellsTheTruth ==
    \A id \in Txs :
       /\ offers[id] = "filled" => \E s \in spent : s.how = "claimed" /\ Named(s.id, id)
       /\ offers[id] = "cancelled" =>
             \/ \E s \in spent : s.id = id /\ s.how = "refunded"
             \/ \E rec \in RecordOf(id) : rec.status = "lock_pending"
       /\ offers[id] = "open" /\ unseen = 0 =>
             \/ IsLive(id) \/ Releasing(id)
             \/ ~ Named(id, id) /\ \E s \in spent : s.id = id /\ s.how = "claimed"
             \/ \E rec \in RecordOf(id) : rec.status = "refund_pending"

=============================================================================
