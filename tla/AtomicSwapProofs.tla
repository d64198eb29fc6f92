-------------------------- MODULE AtomicSwapProofs --------------------------
(***************************************************************************)
(* The atomic swaps implement module Exchange, and the user's records,     *)
(* holder list and offers tell the truth, for any number of wallets,       *)
(* requests, builds and transactions.                                      *)
(*                                                                         *)
(* None of these is inductive.  A record is written from what a request    *)
(* carries since it was submitted, and the swap may have been released,    *)
(* recorded or repaired meanwhile.  IInv says what such a request knows:   *)
(* that the chain has what the node accepted for it, that its record is    *)
(* still there and was seen on the chain, and that the transaction of a    *)
(* lock is known to nobody else before its record is written.  As a swap   *)
(* is released once, no late write can contradict an earlier one.  A claim *)
(* that carries an offer is of an open swap, so that its record marks it.  *)
(***************************************************************************)
EXTENDS AtomicSwap, TLAPS

Ended(id, how) == \E s \in spent : s.id = id /\ s.how = how
MadeFor(id, taker) == \E l \in made : l.id = id /\ l.taker = taker
\* A claim that was taken named the offer ...
Filled(id) == \E s \in spent : s.how = "claimed" /\ Named(s.id, id)
\* ... and one of the offer's own swap did not.
ClaimedUnnamed(id) == ~ Named(id, id) /\ Ended(id, "claimed")
\* A claim of another swap named the offer.
NamedElsewhere(id) == \E swap \in Txs \ {id} : Named(swap, id)
\* The swap is recorded, and its output was seen.
Recognised(id) == RecordOf(id) # {} /\ \A rec \in RecordOf(id) : rec.status # "lock_pending"

ClaimedStatus == {"claimed", "claim_pending"}
RefundedStatus == {"refunded", "refund_pending"}

Sending == [pc: {"sent"}, entry: Entries, rec: SUBSET Records, tx: {0}]
Accepted == [pc: {"accepted"}, entry: Entries, rec: SUBSET Records, tx: Txs]
Reading == [pc: {"finalizing", "repairing"}, todo: SUBSET Records]
Handlers == {Idle} \cup Sending \cup Accepted \cup Reading

InFlight(h) == h.pc \in {"sent", "accepted"}
IsAccepted(h) == h.pc = "accepted"
LockSent(h) == h.pc = "accepted" /\ h.entry.op = "lock"

\* Outputs are numbered in their order, and released once.
ChainOK ==
    /\ made \subseteq Locks /\ lots \subseteq [tx: Txs, wallet: Wallets] /\ pays \subseteq Txs
    /\ spent \subseteq [id: Txs, how: {"claimed", "refunded"},
                        paid: Wallets \cup {Anyone}, to: Wallets]
    /\ ntx \in 0..MaxTx /\ \A l \in made : l.id <= ntx
    /\ \A s, t \in spent : s.id = t.id => s = t
    /\ \A l, k \in made : l.id = k.id => l = k
    /\ named \subseteq [swap: Txs, offer: Txs] /\ \A x \in named : Ended(x.swap, "claimed")

\* A record is of an output that was made, and says only what happened to it.
RecordsOK ==
    /\ records \subseteq Records /\ \A rec, other \in records : rec.id = other.id => rec = other
    /\ \A rec \in records :
          /\ rec.id <= ntx /\ rec.tx <= ntx /\ \E l \in made : l.id = rec.id
          /\ rec.status \in ClaimedStatus => Ended(rec.id, "claimed")
          /\ rec.status \in RefundedStatus => Ended(rec.id, "refunded")
          /\ rec.status = "locked" => MadeFor(rec.id, rec.taker)
    /\ tracked \subseteq Txs /\ \A t \in tracked : t <= ntx
    /\ late \subseteq Txs /\ unseen \in 0..MaxUnseen

OffersOK ==
    /\ offers \in [Txs -> OfferStates]
    /\ \A id \in Txs :
          /\ offers[id] = "filled" => Filled(id)
          /\ offers[id] = "cancelled" =>
                Ended(id, "refunded") \/ \E rec \in RecordOf(id) : rec.status = "lock_pending"

\* What a build route puts into an entry.
EntryOK(e) ==
    /\ e.op = "claim" => e.taker \in Wallets
    /\ e.op = "refund" => e.paid = Anyone
    /\ e.op = "lock" => e.lock = 0
    /\ e.op # "lock" => e.srcs = {} /\ Recognised(e.lock)
    /\ \A t \in e.srcs : t <= ntx
    /\ e.offer # 0 => e.op = "claim" /\ MadeFor(e.lock, Anyone)

\* The record that a claim carries is of an open swap if an offer is named.
ClaimsOf(h) ==
    \E rec \in Records :
       h.rec = {rec} /\ rec.id = h.entry.lock /\ (h.entry.offer # 0 => IsOpenSwap(rec))

\* What a request knows of the chain and of the records ...
HandlerOK(h) ==
    /\ InFlight(h) => EntryOK(h.entry)
    /\ InFlight(h) /\ h.entry.op = "claim" => ClaimsOf(h)
    /\ IsAccepted(h) =>
          /\ h.tx <= ntx
          /\ h.entry.op = "claim" =>
                /\ Ended(h.entry.lock, "claimed")
                /\ \A offer \in Txs : Named(h.entry.lock, offer) <=> offer = h.entry.offer
          /\ h.entry.op = "refund" => Ended(h.entry.lock, "refunded")
    /\ h.pc \in {"finalizing", "repairing"} => \A rec \in h.todo : Recognised(rec.id) /\ rec.tx <= ntx
    /\ h.pc = "finalizing" => \A rec \in h.todo : Ended(rec.id, "claimed")

\* ... and what nobody else knows of the transaction of its lock.
LockIsOwn(h) ==
    /\ MadeFor(h.tx, h.entry.taker)
    /\ RecordOf(h.tx) = {} /\ h.tx \notin tracked
    /\ \A rec \in records : rec.tx # h.tx
    /\ \A e \in cache : h.tx \notin e.srcs
    /\ \A q \in Reqs : InFlight(req[q]) => h.tx \notin req[q].entry.srcs
    /\ \A q \in Reqs : req[q].pc = "finalizing" => \A rec \in req[q].todo : rec.tx # h.tx
    /\ h.entry.change => LotIsLive(h.tx)

RequestsOK ==
    /\ cache \subseteq Entries /\ \A e \in cache : EntryOK(e)
    /\ req \in [Reqs -> Handlers] /\ \A r \in Reqs : HandlerOK(req[r])
    /\ \A r \in Reqs : LockSent(req[r]) => LockIsOwn(req[r])
    /\ \A r, q \in Reqs : IsAccepted(req[r]) /\ IsAccepted(req[q]) /\ req[r].tx = req[q].tx => r = q

\* Without stops and without claims of other programs: what was spent was
\* recorded, or is about to be.
QuietOK ==
    unseen = 0 =>
        /\ \A s \in spent : RecordOf(s.id) # {}
        /\ \A s \in spent : \A rec \in RecordOf(s.id) : rec.status = "locked" => Releasing(s.id)
        /\ \A rec \in records : rec.status = "locked" /\ IsOpenSwap(rec) =>
              offers[rec.id] = "open" \/ NamedElsewhere(rec.id)
        /\ \A id \in Txs : offers[id] = "open" =>
              \/ IsLive(id) \/ Releasing(id) \/ ClaimedUnnamed(id)
              \/ \E rec \in RecordOf(id) : rec.status = "refund_pending"
        /\ TrackedIsLive

IInv == ChainOK /\ RecordsOK /\ OffersOK /\ RequestsOK /\ QuietOK

-----------------------------------------------------------------------------
\* What the types say of a request by what it waits for.
LEMMA HandlerTyped ==
    ASSUME req \in [Reqs -> Handlers], NEW r \in Reqs
    PROVE  /\ req[r].pc = "sent" => req[r] \in Sending
           /\ req[r].pc = "accepted" => req[r] \in Accepted
           /\ req[r].pc \in {"finalizing", "repairing"} => req[r] \in Reading
           /\ req[r].pc = "idle" => req[r] = Idle
BY DEF Handlers, Idle, Sending, Accepted, Reading

LEMMA IdleOK == Idle \in Handlers /\ HandlerOK(Idle) /\ Idle.pc = "idle"
BY DEF Handlers, Idle, HandlerOK, InFlight, IsAccepted

\* The fields of an entry, and of an entry that is made.
LEMMA EntryTyped ==
    ASSUME NEW op \in {"lock", "claim", "refund"}, NEW w \in Wallets, NEW lock \in 0..MaxTx,
           NEW taker \in Wallets \cup {Anyone}, NEW paid \in Wallets \cup {Anyone},
           NEW srcs \in SUBSET Txs, NEW change \in BOOLEAN, NEW offer \in 0..MaxTx
    PROVE  LET e == Entry(op, w, lock, taker, paid, srcs, change, offer)
           IN  /\ e \in Entries /\ e.op = op /\ e.wallet = w /\ e.lock = lock
               /\ e.taker = taker /\ e.paid = paid /\ e.srcs = srcs /\ e.change = change /\ e.offer = offer
BY DEF Entry, Entries

\* A record that shows as locked names a swap that was seen.
LEMMA LockedIsRecognised ==
    ASSUME RecordsOK, NEW rec \in records, rec.status # "lock_pending"
    PROVE  Recognised(rec.id) /\ rec.id \in Txs /\ rec \in Records
BY DEF RecordsOK, Recognised, RecordOf, Records

\* IInv implies what the runs check.
LEMMA InvariantImplies ==
    ASSUME IInv
    PROVE  TypeOK /\ TrackedIsLive /\ MakerCanTakeBack /\ OfferTellsTheTruth
<1>1. \A r \in Reqs :
          \/ req[r] = Idle
          \/ /\ req[r].pc \in {"sent", "accepted"} /\ req[r].entry \in Entries
             /\ req[r].rec \subseteq Records /\ req[r].tx \in 0..MaxTx
          \/ req[r].pc \in {"finalizing", "repairing"} /\ req[r].todo \subseteq Records
  <2> SUFFICES ASSUME NEW h \in Handlers
               PROVE  \/ h = Idle
                      \/ /\ h.pc \in {"sent", "accepted"} /\ h.entry \in Entries
                         /\ h.rec \subseteq Records /\ h.tx \in 0..MaxTx
                      \/ h.pc \in {"finalizing", "repairing"} /\ h.todo \subseteq Records
    BY DEF IInv, RequestsOK
  <2>1. CASE h \in Sending
    BY <2>1, AtomicSwapAssumption DEF Sending
  <2>2. CASE h \in Accepted
    BY <2>2, AtomicSwapAssumption DEF Accepted, Txs
  <2>3. CASE h \in Reading
    BY <2>3 DEF Reading
  <2> QED
    BY <2>1, <2>2, <2>3 DEF Handlers
<1>2. TypeOK
  BY <1>1 DEF IInv, ChainOK, RecordsOK, OffersOK, RequestsOK, TypeOK
<1>3. OfferTellsTheTruth
  BY DEF IInv, OffersOK, QuietOK, OfferTellsTheTruth, Filled, ClaimedUnnamed, Ended
<1>4. MakerCanTakeBack
  <2> SUFFICES ASSUME unseen = 0, NEW rec \in records, rec.status = "locked", ~ Releasing(rec.id)
               PROVE  /\ IsLive(rec.id)
                      /\ \/ OpenRefundAllowed(rec.maker, rec) \/ DirectRefundAllowed(rec.maker, rec)
                         \/ NamedElsewhere(rec.id)
    BY DEF MakerCanTakeBack, NamedElsewhere
  <2>1. IsLive(rec.id)
    BY DEF IInv, RecordsOK, QuietOK, RecordOf, IsLive
  <2> QED
    BY <2>1 DEF IInv, QuietOK, OpenRefundAllowed, DirectRefundAllowed
<1> QED
  BY <1>2, <1>3, <1>4 DEF IInv, QuietOK, TrackedIsLive

-----------------------------------------------------------------------------
\* Steps that leave the chain and the files as they are.

LEMMA CachedKept ==
    ASSUME IInv, NEW e \in Entries, EntryOK(e),
           \A r \in Reqs : LockSent(req[r]) => req[r].tx \notin e.srcs, Cached(e)
    PROVE  IInv'
<1>1. UNCHANGED <<made, spent, lots, pays, ntx, named, records, tracked, offers, late, req, unseen>>
      /\ cache' = cache \cup {e}
  BY DEF Cached, chain, files
<1>2. RequestsOK'
  BY <1>1 DEF IInv, RequestsOK, HandlerOK, EntryOK, LockIsOwn, Recognised, Ended, RecordOf, LotIsLive,
     Named, MadeFor
<1>3. QuietOK'
  BY <1>1 DEF IInv, QuietOK, Ended, RecordOf, IsLive, Releasing, Locking, LotIsLive, TrackedIsLive,
     Named, ClaimedUnnamed, NamedElsewhere
<1> QED
  BY <1>1, <1>2, <1>3 DEF IInv, ChainOK, RecordsOK, OffersOK, Ended, RecordOf, Named, MadeFor, Filled

\* A request that is not accepted comes to be another one.
LEMMA BecomeKept ==
    ASSUME IInv, NEW r \in Reqs, ~ IsAccepted(req[r]), NEW h \in Handlers, HandlerOK(h), ~ IsAccepted(h),
           \A q \in Reqs : LockSent(req[q]) =>
              /\ InFlight(h) => req[q].tx \notin h.entry.srcs
              /\ h.pc = "finalizing" => \A rec \in h.todo : rec.tx # req[q].tx,
           Become(r, h), UNCHANGED <<chain, files, late, cache, unseen>>
    PROVE  IInv'
<1>1. UNCHANGED <<made, spent, lots, pays, ntx, named, records, tracked, offers, late, cache, unseen>>
  BY DEF chain, files
<1>2. /\ req' \in [Reqs -> Handlers] /\ req'[r] = h /\ req \in [Reqs -> Handlers]
      /\ \A q \in Reqs : q # r => req'[q] = req[q]
  BY DEF Become, IInv, RequestsOK
<1>3. \A q \in Reqs : IsAccepted(req'[q]) => q # r /\ req'[q] = req[q]
  BY <1>2
<1>4. \A q \in Reqs : HandlerOK(req[q])'
  BY <1>1, <1>2 DEF IInv, RequestsOK, HandlerOK, EntryOK, Recognised, Ended, RecordOf, Named, MadeFor
<1>5. \A q \in Reqs : LockSent(req'[q]) => LockIsOwn(req[q])'
  <2> SUFFICES ASSUME NEW q \in Reqs, LockSent(req'[q]) PROVE LockIsOwn(req[q])'
    OBVIOUS
  <2>1. req'[q] = req[q] /\ LockSent(req[q]) /\ LockIsOwn(req[q])
    BY <1>3 DEF LockSent, IsAccepted, IInv, RequestsOK
  <2> QED
    BY <1>1, <1>2, <2>1 DEF LockIsOwn, RecordOf, LotIsLive, MadeFor
<1>6. RequestsOK'
  BY <1>1, <1>2, <1>3, <1>4, <1>5 DEF IInv, RequestsOK, EntryOK, Recognised, RecordOf, MadeFor
<1>7. (\A id \in Txs : Releasing(id)' <=> Releasing(id)) /\ (\A t \in Txs : Locking(t)' <=> Locking(t))
  BY <1>2, <1>3 DEF Releasing, Locking, IsAccepted
<1>8. QuietOK'
  <2> SUFFICES ASSUME unseen = 0 PROVE QuietOK'
    BY <1>1 DEF QuietOK
  <2>1. \A s \in spent : s.id \in Txs
    BY DEF IInv, ChainOK
  <2>2. TrackedIsLive'
    BY <1>1, <1>7 DEF IInv, RecordsOK, QuietOK, TrackedIsLive, LotIsLive
  <2> QED
    BY <1>1, <1>7, <2>1, <2>2 DEF IInv, QuietOK, RecordOf, IsLive, Ended, Named, ClaimedUnnamed,
       NamedElsewhere
<1> QED
  BY <1>1, <1>6, <1>8 DEF IInv, ChainOK, RecordsOK, OffersOK, Ended, RecordOf, Named, MadeFor, Filled

\* A build is made of tracked outputs, or of a record that shows as locked.
LEMMA BuildLockKept ==
    ASSUME IInv, NEW w \in Wallets, NEW taker \in Wallets \cup {Anyone}, NEW change \in BOOLEAN,
           NEW srcs \in SUBSET Sources(w), Cached(Entry("lock", w, 0, taker, Anyone, srcs, change, 0))
    PROVE  IInv'
<1> DEFINE e == Entry("lock", w, 0, taker, Anyone, srcs, change, 0)
<1>1. srcs \subseteq tracked
  BY DEF Sources
<1>2. /\ e \in Entries /\ e.op = "lock" /\ e.lock = 0 /\ e.srcs = srcs /\ e.offer = 0
  BY <1>1, EntryTyped, AtomicSwapAssumption DEF IInv, RecordsOK
<1> HIDE DEF e
<1>3. EntryOK(e)
  BY <1>1, <1>2 DEF IInv, RecordsOK, EntryOK
<1>4. \A r \in Reqs : LockSent(req[r]) => req[r].tx \notin e.srcs
  BY <1>1, <1>2 DEF IInv, RequestsOK, LockIsOwn
<1> QED
  BY <1>2, <1>3, <1>4, CachedKept DEF e

LEMMA BuildReleaseKept ==
    ASSUME IInv, NEW w \in Wallets, NEW rec \in records, rec.status = "locked",
           NEW offer \in 0..MaxTx, offer # 0 => IsOpenSwap(rec),
           Cached(ClaimEntry(w, rec, offer)) \/ Cached(RefundEntry(w, rec))
    PROVE  IInv'
<1>1. Recognised(rec.id) /\ rec.id \in 0..MaxTx /\ rec.maker \in Wallets
  BY LockedIsRecognised, AtomicSwapAssumption DEF IInv, Records, Txs
<1>5. offer # 0 => MadeFor(rec.id, Anyone)
  BY DEF IInv, RecordsOK, IsOpenSwap
<1>2. ASSUME NEW e \in Entries, Cached(e), e.lock = rec.id, e.srcs = {}, e.taker = w,
             \/ e.op = "claim" /\ e.offer = offer
             \/ e.op = "refund" /\ e.paid = Anyone /\ e.offer = 0
      PROVE  IInv'
  <2>1. EntryOK(e)
    BY <1>1, <1>2, <1>5 DEF EntryOK
  <2> QED
    BY <1>2, <2>1, CachedKept
<1>3. CASE Cached(ClaimEntry(w, rec, offer))
  <2> DEFINE e == ClaimEntry(w, rec, offer)
  <2>1. /\ e \in Entries /\ e.lock = rec.id /\ e.srcs = {} /\ e.taker = w
        /\ e.op = "claim" /\ e.offer = offer
    BY <1>1 DEF ClaimEntry, Entry, Entries
  <2> HIDE DEF e
  <2> QED
    BY <1>2, <1>3, <2>1 DEF e
<1>4. CASE Cached(RefundEntry(w, rec))
  <2> DEFINE e == RefundEntry(w, rec)
  <2>1. /\ e \in Entries /\ e.lock = rec.id /\ e.srcs = {} /\ e.taker = w
        /\ e.op = "refund" /\ e.paid = Anyone /\ e.offer = 0
    BY <1>1, AtomicSwapAssumption DEF RefundEntry, Entry, Entries
  <2> HIDE DEF e
  <2> QED
    BY <1>2, <1>4, <2>1 DEF e
<1> QED
  BY <1>3, <1>4

\* An entry that is submitted knows what it knew in the cache.
LEMMA SubmittedKept ==
    ASSUME IInv, NEW r \in Reqs, NEW e \in cache, NEW recs \in SUBSET records,
           e.op = "claim" =>
              \E rec \in records : recs = {rec} /\ rec.id = e.lock /\ rec.status = "locked",
           Submitted(r, e, recs)
    PROVE  IInv'
<1> DEFINE h == [pc |-> "sent", entry |-> e, rec |-> recs, tx |-> 0]
<1>1. e \in Entries /\ EntryOK(e) /\ recs \subseteq Records /\ records \subseteq Records
  BY DEF IInv, RequestsOK, RecordsOK
<1>5. e.op = "claim" => ClaimsOf(h)
  <2> SUFFICES ASSUME e.op = "claim" PROVE ClaimsOf(h)
    OBVIOUS
  <2>1. PICK rec \in records : recs = {rec} /\ rec.id = e.lock /\ rec.status = "locked"
    OBVIOUS
  <2>2. e.offer # 0 => rec.taker = Anyone
    BY <1>1, <2>1 DEF EntryOK, MadeFor, IInv, RecordsOK, ChainOK
  <2> QED
    BY <1>1, <2>1, <2>2 DEF ClaimsOf, IsOpenSwap
<1>2. h \in Handlers /\ ~ IsAccepted(h) /\ HandlerOK(h) /\ h.entry = e /\ h.pc = "sent"
  BY <1>1, <1>5 DEF Handlers, Sending, IsAccepted, HandlerOK, InFlight
<1>3. ~ IsAccepted(req[r])
  BY IdleOK DEF Submitted, IsAccepted
<1>4. \A q \in Reqs : LockSent(req[q]) => req[q].tx \notin e.srcs
  BY DEF IInv, RequestsOK, LockIsOwn
<1> HIDE DEF h
<1> QED
  BY <1>2, <1>3, <1>4, BecomeKept DEF Submitted, h

LEMMA RefusedKept ==
    ASSUME IInv, NEW r \in Reqs, Refused(r)
    PROVE  IInv'
BY IdleOK, BecomeKept DEF Refused, IsAccepted, InFlight

LEMMA StartFinalizeKept ==
    ASSUME IInv, NEW r \in Reqs, NEW w \in Wallets, StartFinalize(r, w)
    PROVE  IInv'
<1>1. PICK rec \in records : /\ rec.status \in ClaimedStatus
                             /\ Become(r, [pc |-> "finalizing", todo |-> {rec}])
  BY DEF StartFinalize, ClaimedStatus
<1> DEFINE h == [pc |-> "finalizing", todo |-> {rec}]
<1>2. Recognised(rec.id) /\ rec \in Records /\ rec.tx <= ntx /\ Ended(rec.id, "claimed")
  BY <1>1, LockedIsRecognised DEF IInv, RecordsOK, ClaimedStatus
<1>3. h \in Handlers /\ ~ IsAccepted(h) /\ ~ InFlight(h) /\ HandlerOK(h) /\ h.todo = {rec}
  BY <1>2 DEF Handlers, Reading, IsAccepted, InFlight, HandlerOK
<1>4. \A q \in Reqs : LockSent(req[q]) => rec.tx # req[q].tx
  BY DEF IInv, RequestsOK, LockIsOwn
<1>5. ~ IsAccepted(req[r]) /\ UNCHANGED <<chain, files, late, cache, unseen>>
  BY IdleOK DEF StartFinalize, IsAccepted
<1> HIDE DEF h
<1> QED
  BY <1>1, <1>3, <1>4, <1>5, BecomeKept DEF h

LEMMA StartRepairKept ==
    ASSUME IInv, NEW r \in Reqs, NEW w \in Wallets, StartRepair(r, w)
    PROVE  IInv'
<1> DEFINE todo == {rec \in records : /\ rec.status = "locked" /\ rec.taker # Anyone
                                      /\ rec.maker = w /\ rec.change}
           h == [pc |-> "repairing", todo |-> todo]
<1>1. \A rec \in todo : Recognised(rec.id) /\ rec \in Records /\ rec.tx <= ntx
  BY LockedIsRecognised DEF IInv, RecordsOK
<1>2. h.pc = "repairing" /\ h.todo = todo /\ todo \in SUBSET Records
  BY <1>1
<1>3. h \in Handlers /\ ~ IsAccepted(h) /\ ~ InFlight(h) /\ HandlerOK(h)
  BY <1>1, <1>2 DEF Handlers, Reading, IsAccepted, InFlight, HandlerOK
<1>4. Become(r, h) /\ ~ IsAccepted(req[r]) /\ UNCHANGED <<chain, files, late, cache, unseen>>
  BY IdleOK DEF StartRepair, IsAccepted
<1> HIDE DEF h
<1> QED
  BY <1>2, <1>3, <1>4, BecomeKept

\* The steps on which nothing depends: a build or a payment that goes, an
\* offer that runs out.
LEMMA IdleStepKept ==
    ASSUME IInv, UNCHANGED <<made, spent, lots, ntx, named, records, tracked, offers, req, unseen>>,
           pays' \subseteq pays, cache' \subseteq cache, late' \subseteq Txs
    PROVE  IInv'
<1>1. RequestsOK'
  BY DEF IInv, RequestsOK, HandlerOK, EntryOK, LockIsOwn, Recognised, Ended, RecordOf, LotIsLive,
     Named, MadeFor
<1>2. QuietOK'
  BY DEF IInv, QuietOK, Ended, RecordOf, IsLive, Releasing, Locking, LotIsLive, TrackedIsLive,
     Named, ClaimedUnnamed, NamedElsewhere
<1> QED
  BY <1>1, <1>2 DEF IInv, ChainOK, RecordsOK, OffersOK, Ended, RecordOf, Named, MadeFor, Filled

-----------------------------------------------------------------------------
\* Steps of the chain.

\* A release that the node takes: the output was there, and is spent by it.
LEMMA ReleaseTyped ==
    ASSUME IInv, NEW e \in Entries, NEW n \in Txs, e.op # "lock",
           e.op = "claim" => e.taker \in Wallets, Release(e, n)
    PROVE  /\ spent' = spent \cup {Ends(e)} /\ made' = made
           /\ lots \subseteq lots' /\ lots' \subseteq [tx: Txs, wallet: Wallets]
           /\ pays' \subseteq Txs
           /\ Ends(e) \in [id: Txs, how: {"claimed", "refunded"},
                           paid: Wallets \cup {Anyone}, to: Wallets]
           /\ Ends(e).id = e.lock /\ \A s \in spent : s.id # e.lock
           /\ e.op = "claim" => Ends(e).how = "claimed"
           /\ e.op = "refund" => Ends(e).how = "refunded"
           /\ e.lock \in Txs
<1>1. PICK l \in made : l.id = e.lock /\ IsLive(l.id) /\ Unlocks(l, e)
  BY DEF Release
<1>2. l \in Locks /\ e.lock \in Txs /\ e.paid \in Wallets \cup {Anyone}
  BY <1>1 DEF IInv, ChainOK, Locks, Entries
<1>3. e.taker \in Wallets /\ e.op \in {"claim", "refund"}
  BY <1>1, <1>2 DEF Unlocks, RefundPolicy, Locks
<1>4. Ends(e) \in [id: Txs, how: {"claimed", "refunded"}, paid: Wallets \cup {Anyone}, to: Wallets]
  BY <1>2, <1>3 DEF Ends
<1>5. \A s \in spent : s.id # e.lock
  BY <1>1 DEF IsLive
<1>6. lots \subseteq lots' /\ lots' \subseteq [tx: Txs, wallet: Wallets]
  BY <1>3 DEF Release, IInv, ChainOK
<1>7. pays' \subseteq Txs
  BY DEF Release, IInv, ChainOK
<1> QED
  BY <1>2, <1>4, <1>5, <1>6, <1>7 DEF Release, Ends

\* What an entry that the node takes adds to the history.
Naming(e) == {[swap |-> e.lock, offer |-> o] : o \in {e.offer} \ {0}}

LEMMA NamingKept ==
    ASSUME IInv, NEW e \in Entries, named' = named \cup Naming(e), e.lock \in Txs
    PROVE  /\ named' \subseteq [swap: Txs, offer: Txs] /\ named \subseteq named'
           /\ \A x \in named' : x \in named \/ (x.swap = e.lock /\ e.offer # 0)
           /\ \A swap, offer \in Txs :
                 Named(swap, offer)' <=> Named(swap, offer) \/ (swap = e.lock /\ offer = e.offer)
<1>1. e.offer # 0 => e.offer \in Txs
  BY AtomicSwapAssumption DEF Entries, Txs
<1>2. 0 \notin Txs
  BY DEF Txs
<1>3. named' \subseteq [swap: Txs, offer: Txs]
  BY <1>1 DEF Naming, IInv, ChainOK
<1>4. ASSUME NEW swap \in Txs, NEW offer \in Txs
      PROVE  [swap |-> swap, offer |-> offer] \in Naming(e) <=> swap = e.lock /\ offer = e.offer
  BY <1>1, <1>2 DEF Naming
<1>5. \A x \in Naming(e) : x.swap = e.lock /\ e.offer # 0
  BY DEF Naming
<1> QED
  BY <1>3, <1>4, <1>5 DEF Named

\* What was known of the chain is still true after a release.
LEMMA ReleaseKeeps ==
    ASSUME IInv, NEW e \in Entries, NEW n \in Txs, e.op # "lock",
           e.op = "claim" => e.taker \in Wallets, Release(e, n),
           named' = named \cup Naming(e), e.offer # 0 => e.op = "claim",
           ntx < MaxTx, ntx' = ntx + 1, UNCHANGED <<files, late>>, unseen' \in 0..MaxUnseen
    PROVE  ChainOK' /\ RecordsOK' /\ OffersOK'
<1>1. UNCHANGED <<records, tracked, offers, late>>
  BY DEF files
<1>2. ntx \in 0..MaxTx /\ ntx' \in 0..MaxTx
  BY AtomicSwapAssumption DEF IInv, ChainOK
<1>3. ChainOK'
  <2>1. \A x \in named' : Ended(x.swap, "claimed")'
    BY ReleaseTyped, NamingKept DEF IInv, ChainOK, Ended
  <2>2. named' \subseteq [swap: Txs, offer: Txs]
    BY ReleaseTyped, NamingKept
  <2> QED
    BY <1>2, <2>1, <2>2, ReleaseTyped, AtomicSwapAssumption DEF IInv, ChainOK, Locks, Txs
<1>4. /\ \A id \in Txs, how \in {"claimed", "refunded"} : Ended(id, how) => Ended(id, how)'
      /\ \A id \in Txs : Filled(id) => Filled(id)'
  BY ReleaseTyped, NamingKept DEF Ended, Filled, Named
<1>5. RecordsOK'
  <2>1. \A rec \in records : rec.id \in Txs /\ rec.tx \in Txs
    BY DEF IInv, RecordsOK, Records
  <2> QED
    BY <1>1, <1>2, <1>4, <2>1, ReleaseTyped DEF IInv, RecordsOK, Txs, MadeFor
<1>6. OffersOK'
  BY <1>1, <1>4 DEF IInv, OffersOK, RecordOf
<1> QED
  BY <1>3, <1>5, <1>6

\* A request that the node takes keeps its entry and its record.
LEMMA AcceptedForm ==
    ASSUME IInv, NEW r \in Reqs, Accept(r)
    PROVE  /\ req[r] \in Sending /\ EntryOK(req[r].entry) /\ req[r].entry \in Entries
           /\ ntx + 1 \in Txs /\ ntx \in Nat /\ ntx' = ntx + 1 /\ ntx < MaxTx
           /\ req' \in [Reqs -> Handlers] /\ req'[r] \in Accepted
           /\ req'[r].entry = req[r].entry /\ req'[r].rec = req[r].rec /\ req'[r].tx = ntx + 1
           /\ \A q \in Reqs : q # r => req'[q] = req[q]
           /\ cache' \subseteq cache /\ UNCHANGED <<records, tracked, offers, late, unseen>>
           /\ named' = named \cup Naming(req[r].entry)
<1>1. req \in [Reqs -> Handlers] /\ req[r] \in Sending /\ HandlerOK(req[r])
  BY HandlerTyped DEF IInv, RequestsOK, Accept
<1>2. ntx + 1 \in Txs /\ ntx \in Nat /\ ntx' = ntx + 1 /\ ntx < MaxTx
  BY AtomicSwapAssumption DEF IInv, ChainOK, Accept, OnChain, Txs
<1>3. req' = [req EXCEPT ![r].pc = "accepted", ![r].tx = ntx + 1]
  BY DEF Accept
<1>4. req'[r] = [req[r] EXCEPT !.pc = "accepted", !.tx = ntx + 1]
  BY <1>1, <1>3
<1>5. req'[r] \in Accepted /\ req'[r].entry = req[r].entry /\ req'[r].rec = req[r].rec
      /\ req'[r].tx = ntx + 1
  BY <1>1, <1>2, <1>4 DEF Sending, Accepted
<1>6. /\ req' \in [Reqs -> Handlers] /\ \A q \in Reqs : q # r => req'[q] = req[q]
  BY <1>1, <1>3, <1>5 DEF Handlers
<1> QED
  BY <1>1, <1>2, <1>5, <1>6 DEF Accept, OnChain, Naming, HandlerOK, InFlight, Sending, files

LEMMA AcceptReleaseKept ==
    ASSUME IInv, NEW r \in Reqs, Accept(r), req[r].entry.op # "lock"
    PROVE  IInv'
<1>0. PICK e : e = req[r].entry
  OBVIOUS
<1>1. /\ req[r] \in Sending /\ EntryOK(e) /\ e \in Entries /\ e.op # "lock" /\ ntx + 1 \in Txs /\ ntx \in Nat
      /\ ntx' = ntx + 1 /\ ntx < MaxTx /\ req' \in [Reqs -> Handlers] /\ req'[r] \in Accepted
      /\ req'[r].entry = e /\ req'[r].rec = req[r].rec /\ req'[r].tx = ntx + 1
      /\ \A q \in Reqs : q # r => req'[q] = req[q]
      /\ cache' \subseteq cache /\ UNCHANGED <<records, tracked, offers, late, unseen>>
      /\ named' = named \cup Naming(e)
  BY <1>0, AcceptedForm
<1>2. Release(e, ntx + 1) /\ (e.op = "claim" => e.taker \in Wallets)
  BY <1>0, <1>1 DEF Accept, OnChain, EntryOK
<1>3. ChainOK' /\ RecordsOK' /\ OffersOK'
  <2>1. e.offer # 0 => e.op = "claim"
    BY <1>1 DEF EntryOK
  <2> QED
    BY <1>0, <1>1, <1>2, <2>1, ReleaseKeeps DEF IInv, RecordsOK, files
<1>4. /\ spent' = spent \cup {Ends(e)} /\ made' = made /\ lots \subseteq lots'
      /\ Ends(e).id = e.lock /\ \A s \in spent : s.id # e.lock
      /\ e.op = "claim" => Ends(e).how = "claimed"
      /\ e.op = "refund" => Ends(e).how = "refunded"
      /\ e.lock \in Txs
  BY <1>0, <1>1, <1>2, ReleaseTyped
<1>10. /\ named \subseteq named' /\ \A offer : ~ Named(e.lock, offer)
       /\ \A swap, offer \in Txs :
             Named(swap, offer)' <=> Named(swap, offer) \/ (swap = e.lock /\ offer = e.offer)
  BY <1>1, <1>4, NamingKept DEF IInv, ChainOK, Ended, Named
<1>5. \A q \in Reqs : HandlerOK(req[q])'
  <2>1. \A q \in Reqs : HandlerOK(req[q])
    BY DEF IInv, RequestsOK
  <2>2. e.op \in {"claim", "refund", "lock"} /\ req'[r].pc = "accepted" /\ req[r].pc = "sent"
    BY <1>0, <1>1 DEF Entries, Accepted, Sending
  <2>3. \A x \in Entries : EntryOK(x) => EntryOK(x)'
    BY <1>1, <1>4, AtomicSwapAssumption DEF EntryOK, Recognised, RecordOf, Entries, Txs, MadeFor
  <2>4. HandlerOK(req[r])'
    <3>1. e.op = "claim" => \A offer \in Txs : Named(e.lock, offer)' <=> offer = e.offer
      BY <1>4, <1>10
    <3>2. EntryOK(e)' /\ (e.op = "claim" => ClaimsOf(req'[r]))
      BY <1>0, <1>1, <2>1, <2>2, <2>3 DEF HandlerOK, InFlight, ClaimsOf
    <3>3. \A h : h = req'[r] => HandlerOK(h)'
      BY <1>1, <1>4, <2>2, <3>1, <3>2 DEF HandlerOK, Ended, InFlight, IsAccepted
    <3> QED
      BY <3>3
  <2>5. ASSUME NEW q \in Reqs, q # r PROVE HandlerOK(req[q])'
    <3>1. InFlight(req[q]) => req[q].entry \in Entries
      BY HandlerTyped DEF InFlight, IInv, RequestsOK, Sending, Accepted
    <3>2. IsAccepted(req[q]) => req[q].tx \in Nat
      BY HandlerTyped DEF IsAccepted, IInv, RequestsOK, Accepted, Txs
    <3>3. req[q].pc \in {"finalizing", "repairing"} => \A rec \in req[q].todo : rec.tx \in Nat
      BY HandlerTyped DEF IInv, RequestsOK, Reading, Records, Txs
    <3>4. IsAccepted(req[q]) /\ req[q].entry.op = "claim" =>
             \A offer \in Txs : Named(req[q].entry.lock, offer)' <=> offer = req[q].entry.offer
      <4> SUFFICES ASSUME IsAccepted(req[q]), req[q].entry.op = "claim", NEW offer \in Txs
                   PROVE  Named(req[q].entry.lock, offer)' <=> offer = req[q].entry.offer
        BY <1>1, <2>5
      <4>1. /\ Ended(req[q].entry.lock, "claimed")
            /\ Named(req[q].entry.lock, offer) <=> offer = req[q].entry.offer
        BY <2>1 DEF HandlerOK
      <4>2. req[q].entry.lock \in Txs /\ req[q].entry.lock # e.lock
        BY <1>4, <4>1 DEF Ended, IInv, ChainOK
      <4>3. \A swap \in Txs : swap # e.lock => (Named(swap, offer)' <=> Named(swap, offer))
        BY <1>10
      <4> QED
        BY <1>1, <2>5, <4>1, <4>2, <4>3
    <3>5. \A h : h = req[q] => HandlerOK(h)'
      BY <1>1, <1>4, <2>1, <2>3, <2>5, <3>1, <3>2, <3>3, <3>4
         DEF HandlerOK, InFlight, IsAccepted, Ended, Recognised, RecordOf
    <3> QED
      BY <1>1, <2>5, <3>5
  <2> QED
    BY <2>4, <2>5
<1>6. \A q \in Reqs : LockSent(req[q])' => LockIsOwn(req[q])'
  <2> SUFFICES ASSUME NEW q \in Reqs, LockSent(req[q])' PROVE LockIsOwn(req[q])'
    OBVIOUS
  <2>1. q # r /\ req'[q] = req[q] /\ LockIsOwn(req[q])
    BY <1>1 DEF LockSent, IInv, RequestsOK
  <2>2. \A p \in Reqs : InFlight(req'[p]) => InFlight(req[p]) /\ req'[p].entry = req[p].entry
    BY <1>0, <1>1 DEF InFlight, Sending
  <2>3. \A p \in Reqs : req'[p].pc = "finalizing" => req'[p] = req[p]
    BY <1>1 DEF Accepted
  <2> QED
    BY <1>1, <1>4, <2>1, <2>2, <2>3 DEF LockIsOwn, RecordOf, LotIsLive, MadeFor
<1>7. \A q, p \in Reqs : IsAccepted(req'[q]) /\ IsAccepted(req'[p]) /\ req'[q].tx = req'[p].tx => q = p
  <2>1. \A q \in Reqs : q # r /\ IsAccepted(req'[q]) => req'[q].tx <= ntx
    BY <1>1 DEF IInv, RequestsOK, HandlerOK
  <2> QED
    BY <1>1, <2>1 DEF IInv, RequestsOK
<1>8. RequestsOK'
  <2>1. \A x \in cache' : x \in Entries /\ EntryOK(x)'
    BY <1>1, <1>4, AtomicSwapAssumption
       DEF IInv, RequestsOK, EntryOK, Recognised, RecordOf, Entries, Txs, MadeFor
  <2> QED
    BY <1>1, <1>5, <1>6, <1>7, <2>1 DEF RequestsOK
<1>9. QuietOK'
  <2> SUFFICES ASSUME unseen = 0 PROVE QuietOK'
    BY <1>1 DEF QuietOK
  <2>1. RecordOf(e.lock) # {}
    BY <1>1 DEF EntryOK, Recognised
  <2>2. Releasing(e.lock)' /\ \A id \in Txs : Releasing(id) => Releasing(id)'
    BY <1>0, <1>1 DEF Releasing, Accepted, Sending
  <2>3. \A t \in Txs : Locking(t) => Locking(t)'
    BY <1>0, <1>1 DEF Locking, Sending
  <2>4. TrackedIsLive'
    BY <1>1, <1>4, <2>3 DEF IInv, RecordsOK, QuietOK, TrackedIsLive, LotIsLive
  <2>5. \A id \in Txs : IsLive(id) => IsLive(id)' \/ id = e.lock
    BY <1>4 DEF IsLive
  <2>6. \A s \in spent : s.id \in Txs
    BY DEF IInv, ChainOK
  <2>7. ASSUME NEW s \in spent' PROVE RecordOf(s.id) # {} /\ \A rec \in RecordOf(s.id) : rec.status = "locked" => Releasing(s.id)'
    <3>1. CASE s \in spent
      <4>1. Releasing(s.id) => Releasing(s.id)'
        BY <2>2, <2>6, <3>1
      <4> QED
        BY <3>1, <4>1 DEF IInv, QuietOK
    <3>2. CASE s.id = e.lock
      BY <2>1, <2>2, <3>2
    <3> QED
      BY <1>4, <3>1, <3>2
  <2>8. ASSUME NEW id \in Txs, offers[id] = "open"
        PROVE  \/ IsLive(id)' \/ Releasing(id)' \/ ClaimedUnnamed(id)'
               \/ \E rec \in RecordOf(id) : rec.status = "refund_pending"
    <3>1. /\ Releasing(id) => Releasing(id)'
          /\ IsLive(id) => IsLive(id)' \/ id = e.lock
          /\ ClaimedUnnamed(id) => ClaimedUnnamed(id)'
      BY <1>4, <1>10, <2>2, <2>5 DEF ClaimedUnnamed, Ended
    <3> QED
      BY <2>2, <2>8, <3>1 DEF IInv, QuietOK
  <2>9. ASSUME NEW rec \in records, rec.status = "locked", IsOpenSwap(rec)
        PROVE  offers[rec.id] = "open" \/ NamedElsewhere(rec.id)'
    <3>1. NamedElsewhere(rec.id) => NamedElsewhere(rec.id)'
      BY <1>1, <1>10 DEF NamedElsewhere, Named
    <3> QED
      BY <2>9, <3>1 DEF IInv, QuietOK
  <2>10. \A rec \in records : rec.status = "locked" /\ IsOpenSwap(rec) =>
            offers'[rec.id] = "open" \/ NamedElsewhere(rec.id)'
    BY <1>1, <2>9
  <2> QED
    BY <1>1, <2>4, <2>7, <2>8, <2>10 DEF IInv, QuietOK, RecordOf
<1> QED
  BY <1>3, <1>8, <1>9 DEF IInv

\* A lock that the node takes has a transaction that nobody knows yet.
LEMMA AcceptLockKept ==
    ASSUME IInv, NEW r \in Reqs, Accept(r), req[r].entry.op = "lock"
    PROVE  IInv'
<1>0. PICK e : e = req[r].entry
  OBVIOUS
<1>1. /\ req[r] \in Sending /\ EntryOK(e) /\ e \in Entries /\ e.op = "lock" /\ ntx + 1 \in Txs
      /\ ntx \in Nat
      /\ ntx' = ntx + 1 /\ ntx < MaxTx /\ req' \in [Reqs -> Handlers] /\ req'[r] \in Accepted
      /\ req'[r].entry = e /\ req'[r].rec = req[r].rec /\ req'[r].tx = ntx + 1
      /\ \A q \in Reqs : q # r => req'[q] = req[q]
      /\ cache' \subseteq cache /\ UNCHANGED <<records, tracked, offers, late, unseen>>
      /\ named' = named \cup Naming(e)
  BY <1>0, AcceptedForm
<1> DEFINE new == [id |-> ntx + 1, maker |-> e.wallet, taker |-> e.taker]
<1>13. e.offer = 0 /\ named' = named
  BY <1>1 DEF EntryOK, Naming
<1>2. /\ made' = made \cup {new} /\ spent' = spent /\ pays' = pays
      /\ lots' = {l \in lots : l.tx \notin e.srcs}
                   \cup {[tx |-> ntx + 1, wallet |-> w] : w \in {x \in {e.wallet} : e.change}}
  BY <1>0, <1>1 DEF Accept, OnChain, Lock
<1>3. new \in Locks /\ new.id = ntx + 1 /\ new.taker = e.taker /\ e.wallet \in Wallets /\ e.srcs \subseteq Txs
  BY <1>1 DEF Locks, Entries
<1> HIDE DEF new
<1>4. ChainOK'
  <2>1. lots' \subseteq [tx: Txs, wallet: Wallets]
    BY <1>1, <1>2, <1>3 DEF IInv, ChainOK
  <2>2. \A l \in made' : l.id <= ntx'
    BY <1>1, <1>2, <1>3 DEF IInv, ChainOK, Locks, Txs
  <2>3. ntx' \in 0..MaxTx
    BY <1>1, AtomicSwapAssumption DEF Txs
  <2>4. \A l, k \in made' : l.id = k.id => l = k
    BY <1>1, <1>2, <1>3 DEF IInv, ChainOK, Locks, Txs
  <2> QED
    BY <1>2, <1>3, <1>13, <2>1, <2>2, <2>3, <2>4 DEF IInv, ChainOK, Ended
<1>5. RecordsOK' /\ OffersOK'
  <2>1. \A rec \in records : rec.id \in Nat /\ rec.tx \in Nat
    BY DEF IInv, RecordsOK, Records, Txs
  <2>2. \A t \in tracked : t \in Nat
    BY DEF IInv, RecordsOK, Txs
  <2> QED
    BY <1>1, <1>2, <1>13, <2>1, <2>2 DEF IInv, RecordsOK, OffersOK, Ended, RecordOf, MadeFor, Filled, Named
<1>6. \A q \in Reqs : HandlerOK(req[q])'
  <2>1. \A q \in Reqs : HandlerOK(req[q])
    BY DEF IInv, RequestsOK
  <2>2. req'[r].pc = "accepted" /\ req[r].pc = "sent"
    BY <1>1 DEF Accepted, Sending
  <2>3. \A x \in Entries : EntryOK(x) => EntryOK(x)'
    BY <1>1, <1>2, AtomicSwapAssumption DEF EntryOK, Recognised, RecordOf, Entries, Txs, MadeFor
  <2>4. HandlerOK(req[r])'
    BY <1>0, <1>1, <2>1, <2>2, <2>3 DEF HandlerOK, InFlight, IsAccepted
  <2>5. ASSUME NEW q \in Reqs, q # r PROVE HandlerOK(req[q])'
    <3>1. InFlight(req[q]) => req[q].entry \in Entries
      BY HandlerTyped DEF InFlight, IInv, RequestsOK, Sending, Accepted
    <3>2. IsAccepted(req[q]) => req[q].tx \in Nat
      BY HandlerTyped DEF IsAccepted, IInv, RequestsOK, Accepted, Txs
    <3>3. req[q].pc \in {"finalizing", "repairing"} => \A rec \in req[q].todo : rec.tx \in Nat
      BY HandlerTyped DEF IInv, RequestsOK, Reading, Records, Txs
    <3> QED
      BY <1>1, <1>2, <2>1, <2>3, <2>5, <1>13, <3>1, <3>2, <3>3
         DEF HandlerOK, Ended, Recognised, RecordOf, Named
  <2> QED
    BY <2>4, <2>5
<1>7. \A p \in Reqs : InFlight(req'[p]) => InFlight(req[p]) /\ req'[p].entry = req[p].entry
  BY <1>0, <1>1 DEF InFlight, Sending
<1>8. \A p \in Reqs : req'[p].pc = "finalizing" => req'[p] = req[p]
  BY <1>1 DEF Accepted
<1>9. ASSUME NEW q \in Reqs, q # r, LockSent(req[q])' PROVE LockIsOwn(req[q])'
  <2>1. req'[q] = req[q] /\ LockIsOwn(req[q])
    BY <1>1, <1>9 DEF LockSent, IInv, RequestsOK
  <2>2. req[q].tx \notin e.srcs
    BY <1>0, <1>1, <2>1 DEF LockIsOwn, InFlight, Sending
  <2>3. LotIsLive(req[q].tx) => LotIsLive(req[q].tx)'
    BY <1>2, <2>1, <2>2 DEF LotIsLive
  <2> QED
    BY <1>1, <1>2, <1>7, <1>8, <2>1, <2>3 DEF LockIsOwn, RecordOf, MadeFor
<1>10. LockIsOwn(req[r])'
  <2>1. \A l \in records : l.id \in Nat /\ l.tx \in Nat /\ l.id # ntx + 1 /\ l.tx # ntx + 1
    BY <1>1 DEF IInv, RecordsOK, Records, Txs
  <2>2. ntx + 1 \notin tracked
    BY <1>1 DEF IInv, RecordsOK, Txs
  <2>3. \A x \in Entries : EntryOK(x) => ntx + 1 \notin x.srcs
    BY <1>1 DEF EntryOK
  <2>4. \A x \in cache' : ntx + 1 \notin x.srcs
    BY <1>1, <2>3 DEF IInv, RequestsOK
  <2>5. \A q \in Reqs : InFlight(req'[q]) => ntx + 1 \notin req'[q].entry.srcs
    <3>1. \A q \in Reqs : InFlight(req[q]) => EntryOK(req[q].entry)
      BY DEF IInv, RequestsOK, HandlerOK
    <3> QED
      BY <1>1, <1>7, <3>1 DEF EntryOK
  <2>6. \A q \in Reqs : req'[q].pc = "finalizing" => \A rec \in req'[q].todo : rec.tx # ntx + 1
    <3>1. \A q \in Reqs : req[q].pc = "finalizing" => \A rec \in req[q].todo : rec.tx <= ntx
      BY DEF IInv, RequestsOK, HandlerOK
    <3> QED
      BY <1>1, <1>8, <3>1
  <2>7. ASSUME e.change PROVE \E l \in lots' : l.tx = ntx + 1
    <3>1. [tx |-> ntx + 1, wallet |-> e.wallet] \in lots'
      BY <1>2, <2>7
    <3> QED
      BY <3>1
  <2>8. \E l \in made' : l.id = ntx + 1 /\ l.taker = e.taker
    BY <1>2, <1>3
  <2> QED
    BY <1>1, <2>1, <2>2, <2>4, <2>5, <2>6, <2>7, <2>8 
       DEF LockIsOwn, RecordOf, LotIsLive, MadeFor
<1>11. RequestsOK'
  <2>1. \A x \in cache' : x \in Entries /\ EntryOK(x)'
    BY <1>1, <1>2, AtomicSwapAssumption
       DEF IInv, RequestsOK, EntryOK, Recognised, RecordOf, Entries, Txs, MadeFor
  <2>2. \A q \in Reqs : q # r /\ IsAccepted(req'[q]) => req'[q].tx <= ntx
    BY <1>1 DEF IInv, RequestsOK, HandlerOK
  <2>3. \A q, p \in Reqs :
           IsAccepted(req'[q]) /\ IsAccepted(req'[p]) /\ req'[q].tx = req'[p].tx => q = p
    BY <1>1, <2>2 DEF IInv, RequestsOK
  <2> QED
    BY <1>1, <1>6, <1>9, <1>10, <2>1, <2>3 DEF RequestsOK
<1>12. QuietOK'
  <2> SUFFICES ASSUME unseen = 0 PROVE QuietOK'
    BY <1>1 DEF QuietOK
  <2>1. \A q \in Reqs : IsAccepted(req[q]) => IsAccepted(req'[q]) /\ req'[q].entry = req[q].entry
    BY <1>1 DEF IsAccepted, Sending
  <2>2. \A id \in Txs : Releasing(id) => Releasing(id)'
    BY <2>1 DEF Releasing, IsAccepted
  <2>3. ASSUME NEW t \in tracked PROVE LotIsLive(t)' \/ Locking(t)'
    <3>1. LotIsLive(t) => LotIsLive(t)' \/ t \in e.srcs
      BY <1>2 DEF LotIsLive
    <3>2. Locking(t) => Locking(t)'
      BY <2>1 DEF Locking, IsAccepted
    <3>3. t \in e.srcs => Locking(t)'
      BY <1>1 DEF Locking, Accepted
    <3> QED
      BY <3>1, <3>2, <3>3 DEF IInv, QuietOK, TrackedIsLive
  <2>4. ASSUME NEW s \in spent PROVE Releasing(s.id) => Releasing(s.id)'
    BY <2>2 DEF IInv, ChainOK
  <2>5. \A id \in Txs : IsLive(id) => IsLive(id)'
    BY <1>2 DEF IsLive
  <2>6. TrackedIsLive'
    BY <1>1, <2>3 DEF TrackedIsLive, LotIsLive, Locking
  <2>7. ASSUME NEW id \in Txs, offers[id] = "open"
        PROVE  \/ IsLive(id)' \/ Releasing(id)' \/ ClaimedUnnamed(id)'
               \/ \E rec \in RecordOf(id) : rec.status = "refund_pending"
    <3>1. (Releasing(id) => Releasing(id)') /\ (IsLive(id) => IsLive(id)')
          /\ (ClaimedUnnamed(id) => ClaimedUnnamed(id)')
      BY <1>2, <1>13, <2>2, <2>5 DEF ClaimedUnnamed, Named, Ended
    <3> QED
      BY <2>7, <3>1 DEF IInv, QuietOK
  <2>8. ASSUME NEW s \in spent
        PROVE  RecordOf(s.id) # {} /\ \A rec \in RecordOf(s.id) : rec.status = "locked" => Releasing(s.id)'
    BY <2>4 DEF IInv, QuietOK
  <2> QED
    BY <1>1, <1>2, <1>13, <2>6, <2>7, <2>8 DEF IInv, QuietOK, RecordOf, NamedElsewhere, Named
<1> QED
  BY <1>4, <1>5, <1>11, <1>12 DEF IInv

\* A claim of another program: nothing is promised of the files then, but
\* that they are true of the chain.
LEMMA ForeignClaimKept ==
    ASSUME IInv, NEW e \in Entries, e.op = "claim", e.offer = 0, e.taker \in Wallets, OnChain(e),
           Unseen(1), UNCHANGED <<files, late, cache, req>>
    PROVE  IInv'
<1>1. /\ ntx < MaxTx /\ ntx' = ntx + 1 /\ Release(e, ntx + 1) /\ ntx \in Nat /\ ntx + 1 \in Txs
      /\ UNCHANGED <<records, tracked, offers, late, cache, req>>
      /\ unseen' \in 0..MaxUnseen /\ unseen' # 0
  BY AtomicSwapAssumption
     DEF OnChain, IInv, ChainOK, RecordsOK, Txs, Unseen, files
<1>7. named' = named /\ named' = named \cup Naming(e)
  BY DEF OnChain, Naming
<1>2. ChainOK' /\ RecordsOK' /\ OffersOK'
  BY <1>1, <1>7, ReleaseKeeps
<1>3. spent \subseteq spent' /\ made' = made /\ lots \subseteq lots'
  BY <1>1, ReleaseTyped
<1>4. \A x \in Entries : EntryOK(x) => EntryOK(x)'
  BY <1>1, <1>3, AtomicSwapAssumption DEF EntryOK, Recognised, RecordOf, Entries, Txs, MadeFor
<1>5. ASSUME NEW q \in Reqs PROVE HandlerOK(req[q])'
  <2>1. InFlight(req[q]) => req[q].entry \in Entries
    BY HandlerTyped DEF InFlight, IInv, RequestsOK, Sending, Accepted
  <2>2. IsAccepted(req[q]) => req[q].tx \in Nat
    BY HandlerTyped DEF IsAccepted, IInv, RequestsOK, Accepted, Txs
  <2>3. req[q].pc \in {"finalizing", "repairing"} => \A rec \in req[q].todo : rec.tx \in Nat
    BY HandlerTyped DEF IInv, RequestsOK, Reading, Records, Txs
  <2>4. HandlerOK(req[q])
    BY DEF IInv, RequestsOK
  <2> QED
    BY <1>1, <1>3, <1>4, <1>7, <2>1, <2>2, <2>3, <2>4
       DEF HandlerOK, Ended, Recognised, RecordOf, Named
<1>6. RequestsOK'
  BY <1>1, <1>3, <1>4, <1>5 DEF IInv, RequestsOK, LockIsOwn, RecordOf, LotIsLive, MadeFor
<1> QED
  BY <1>1, <1>2, <1>6 DEF IInv, QuietOK

LEMMA ClaimElsewhereKept ==
    ASSUME IInv, NEW l \in made, ClaimElsewhere(l)
    PROVE  IInv'
<1>1. PICK w \in Wallets, paid \in Wallets : OnChain(Entry("claim", w, l.id, w, paid, {}, FALSE, 0))
  BY DEF ClaimElsewhere
<1> DEFINE e == Entry("claim", w, l.id, w, paid, {}, FALSE, 0)
<1>2. e \in Entries /\ e.op = "claim" /\ e.taker \in Wallets /\ e.offer = 0
  <2>1. l.id \in 0..MaxTx
    BY AtomicSwapAssumption DEF IInv, ChainOK, Locks, Txs
  <2> QED
    BY <2>1, AtomicSwapAssumption DEF Entry, Entries
<1>3. OnChain(e)
  BY <1>1
<1> HIDE DEF e
<1> QED
  BY <1>2, <1>3, ForeignClaimKept DEF ClaimElsewhere

-----------------------------------------------------------------------------
\* Writes of the files.  Each one puts one record in place of the one of its
\* swap, if there was one, and adds to the holder list only transactions of
\* its own or outputs that are there.

\* The records of swaps that were seen stay so.
LEMMA UpsertRecognises ==
    ASSUME RecordsOK, NEW new \in Records, records' = Upserted(new),
           new.status = "lock_pending" => RecordOf(new.id) = {}
    PROVE  /\ \A id \in 0..MaxTx : Recognised(id) => Recognised(id)'
           /\ \A id : RecordOf(id) # {} => RecordOf(id)' # {}
<1>1. new \in records' /\ \A x \in records' : x = new \/ (x \in records /\ x.id # new.id)
  BY DEF Upserted
<1>2. \A x \in records : x.id # new.id => x \in records'
  BY DEF Upserted
<1>3. ASSUME NEW id, RecordOf(id) # {} PROVE RecordOf(id)' # {}
  <2>1. PICK x \in records : x.id = id
    BY <1>3 DEF RecordOf
  <2> QED
    BY <1>1, <1>2, <2>1 DEF RecordOf
<1>4. ASSUME NEW id \in 0..MaxTx, Recognised(id) PROVE Recognised(id)'
  <2>1. RecordOf(id)' # {}
    BY <1>3, <1>4 DEF Recognised
  <2>2. \A x \in records' : x.id = id => x.status # "lock_pending"
    BY <1>1, <1>4 DEF Recognised, RecordOf
  <2> QED
    BY <2>1, <2>2 DEF Recognised, RecordOf
<1> QED
  BY <1>3, <1>4

\* A record that is true of the chain keeps the records true.
LEMMA UpsertKept ==
    ASSUME IInv, NEW new \in Records, records' = Upserted(new), UNCHANGED <<chain, late>>,
           new.id <= ntx, new.tx <= ntx, \E l \in made : l.id = new.id,
           new.status \in ClaimedStatus => Ended(new.id, "claimed"),
           new.status \in RefundedStatus => Ended(new.id, "refunded"),
           new.status = "locked" => MadeFor(new.id, new.taker),
           tracked' \subseteq Txs, \A t \in tracked' : t <= ntx, unseen' \in 0..MaxUnseen
    PROVE  ChainOK' /\ RecordsOK'
<1>1. UNCHANGED <<made, spent, lots, pays, ntx, named, late>>
  BY DEF chain
<1>2. \A x \in records' : x = new \/ (x \in records /\ x.id # new.id)
  BY DEF Upserted
<1> QED
  BY <1>1, <1>2 DEF IInv, ChainOK, RecordsOK, Ended, MadeFor

\* What the other requests know is still true, and the lock of no other
\* request has become known.
LEMMA RequestsAfterWrite ==
    ASSUME IInv, NEW r \in Reqs, Become(r, Idle), UNCHANGED <<chain, cache>>,
           \A id \in 0..MaxTx : Recognised(id) => Recognised(id)',
           \A q \in Reqs : q # r /\ LockSent(req[q]) =>
              /\ req[q].tx \notin tracked'
              /\ \A rec \in records' : rec.id # req[q].tx /\ rec.tx # req[q].tx
    PROVE  RequestsOK'
<1>1. UNCHANGED <<made, spent, lots, pays, ntx, named, cache>>
  BY DEF chain
<1>2. /\ req' \in [Reqs -> Handlers] /\ req'[r] = Idle
      /\ \A q \in Reqs : q # r => req'[q] = req[q]
  BY IdleOK DEF Become, IInv, RequestsOK
<1>3. \A x \in Entries : EntryOK(x) => EntryOK(x)'
  BY <1>1 DEF EntryOK, Entries, MadeFor
<1>4. ASSUME NEW q \in Reqs PROVE HandlerOK(req[q])'
  <2>1. CASE q = r
    BY <1>2, <2>1, IdleOK DEF HandlerOK, InFlight, IsAccepted
  <2>2. CASE q # r
    <3>1. InFlight(req[q]) => req[q].entry \in Entries
      BY HandlerTyped DEF InFlight, IInv, RequestsOK, Sending, Accepted
    <3>2. req[q].pc \in {"finalizing", "repairing"} => \A rec \in req[q].todo : rec.id \in 0..MaxTx
      BY HandlerTyped, AtomicSwapAssumption DEF IInv, RequestsOK, Reading, Records, Txs
    <3>3. HandlerOK(req[q]) /\ req'[q] = req[q]
      BY <1>2, <2>2 DEF IInv, RequestsOK
    <3> QED
      BY <1>1, <1>3, <3>1, <3>2, <3>3 DEF HandlerOK, Ended, Named
  <2> QED
    BY <2>1, <2>2
<1>5. ASSUME NEW q \in Reqs, LockSent(req[q])' PROVE LockIsOwn(req[q])'
  <2>1. q # r /\ req'[q] = req[q] /\ LockSent(req[q]) /\ LockIsOwn(req[q])
    BY <1>2, <1>5, IdleOK DEF LockSent, IInv, RequestsOK
  <2>2. \A p \in Reqs : InFlight(req'[p]) \/ req'[p].pc = "finalizing" => req'[p] = req[p]
    BY <1>2, IdleOK DEF InFlight
  <2>3. RecordOf(req[q].tx)' = {} /\ \A rec \in records' : rec.tx # req[q].tx
    BY <2>1 DEF RecordOf
  <2>4. req[q].tx \notin tracked'
    BY <2>1
  <2> QED
    BY <1>1, <2>1, <2>2, <2>3, <2>4 DEF LockIsOwn, RecordOf, LotIsLive, MadeFor
<1>6. \A x \in cache' : x \in Entries /\ EntryOK(x)'
  BY <1>1, <1>3 DEF IInv, RequestsOK
<1>7. \A q, p \in Reqs : IsAccepted(req'[q]) /\ IsAccepted(req'[p]) /\ req'[q].tx = req'[p].tx => q = p
  BY <1>2, IdleOK DEF IInv, RequestsOK, IsAccepted
<1> QED
  BY <1>1, <1>2, <1>4, <1>5, <1>6, <1>7 DEF RequestsOK

\* The process stops: nobody knows anything any more.
LEMMA RequestsAfterStop ==
    ASSUME IInv, cache' = {}, req' = [r \in Reqs |-> Idle]
    PROVE  RequestsOK'
<1>1. req' \in [Reqs -> Handlers] /\ \A r \in Reqs : req'[r] = Idle
  BY IdleOK
<1>2. \A r \in Reqs : ~ InFlight(req'[r]) /\ ~ IsAccepted(req'[r]) /\ ~ LockSent(req'[r])
                      /\ req'[r].pc = "idle"
  BY <1>1, IdleOK DEF InFlight, IsAccepted, LockSent
<1>3. \A r \in Reqs : HandlerOK(req[r])'
  BY <1>2 DEF HandlerOK, InFlight, IsAccepted
<1> QED
  BY <1>1, <1>2, <1>3 DEF RequestsOK, IsAccepted, LockSent

\* What the writes of an accepted request amount to, whichever it is: new is
\* the record, and an offer changes as its swap did, or as the claim names it.
Written(h, new, n) ==
    /\ new \in Records /\ new.tx = h.tx /\ records' = Upserted(new)
    /\ \E l \in made : l.id = new.id
    /\ new.status = "lock_pending" => RecordOf(new.id) = {}
    /\ new.status \in ClaimedStatus => Ended(new.id, "claimed")
    /\ new.status \in RefundedStatus => Ended(new.id, "refunded")
    /\ new.status = "locked" => MadeFor(new.id, new.taker)
    /\ tracked' \subseteq tracked \cup {h.tx}
    /\ offers' \in [Txs -> OfferStates]
    /\ \A id \in Txs : offers'[id] # offers[id] =>
          /\ n = 3 /\ offers'[id] \in {"filled", "cancelled", "open"}
          /\ offers'[id] = "filled" => new.status \in ClaimedStatus /\ Named(new.id, id)
          /\ offers'[id] = "cancelled" =>
                id = new.id /\ new.status \in RefundedStatus \cup {"lock_pending"}
          /\ offers'[id] = "open" => id = new.id /\ new.status = "locked" /\ IsLive(new.id)

LEMMA AcceptedTyped ==
    ASSUME IInv, NEW r \in Reqs, NEW h, h = req[r], h.pc = "accepted"
    PROVE  /\ h \in Accepted /\ h.tx \in Txs /\ h.tx <= ntx /\ h.entry \in Entries
           /\ EntryOK(h.entry) /\ h.entry.taker \in Wallets \cup {Anyone}
           /\ h.entry.op = "claim" => Ended(h.entry.lock, "claimed") /\ h.entry.taker \in Wallets
           /\ h.entry.op = "refund" => Ended(h.entry.lock, "refunded")
           /\ h.entry.op = "claim" =>
                 /\ ClaimsOf(h) /\ h.entry.offer \in 0..MaxTx
                 /\ \A offer \in Txs : Named(h.entry.lock, offer) <=> offer = h.entry.offer
           /\ h.entry.op = "lock" => LockIsOwn(h) /\ h.entry.lock = 0
           /\ h.entry.op # "lock" => Recognised(h.entry.lock) /\ h.entry.lock \in Txs /\ h.entry.srcs = {}
<1>1. h \in Accepted /\ HandlerOK(h) /\ InFlight(h) /\ IsAccepted(h)
  BY HandlerTyped DEF IInv, RequestsOK, InFlight, IsAccepted
<1>2. h.entry \in Entries /\ EntryOK(h.entry) /\ h.entry.op \in {"lock", "claim", "refund"}
      /\ h.entry.offer \in 0..MaxTx /\ h.entry.taker \in Wallets \cup {Anyone}
  BY <1>1 DEF HandlerOK, Accepted, Entries
<1>3. Recognised(h.entry.lock) => h.entry.lock \in Txs
  BY DEF Recognised, RecordOf, IInv, RecordsOK, Records
<1>4. h.entry.op = "lock" => LockIsOwn(h)
  BY <1>1 DEF IInv, RequestsOK, LockSent
<1> QED
  BY <1>1, <1>2, <1>3, <1>4 DEF HandlerOK, EntryOK, Accepted

\* A lock.
LEMMA LockForm ==
    ASSUME IInv, NEW r \in Reqs, NEW h, h = req[r], h.pc = "accepted", NEW n \in 1..3,
           NEW seen \in BOOLEAN, RecordOpenLock(h, seen, n) \/ RecordDirectLock(h, seen, n)
    PROVE  /\ Written(h, LockRecord(h, seen), n)
           /\ LockRecord(h, seen).id = h.tx /\ h.entry.op = "lock"
           /\ LockRecord(h, seen).status = IF seen THEN "locked" ELSE "lock_pending"
           /\ n >= 2 => tracked' \cap h.entry.srcs \subseteq {h.tx}
           /\ h.tx \in tracked' => h.entry.change
           /\ n = 3 /\ seen /\ h.entry.taker = Anyone => offers'[h.tx] = "open"
           /\ LockRecord(h, seen).taker = h.entry.taker
<1> DEFINE new == LockRecord(h, seen)
<1>1. /\ h.entry.op = "lock" /\ LockIsOwn(h) /\ h.tx \in Txs /\ h.entry \in Entries
  BY AcceptedTyped DEF LockWritten, RecordOpenLock, RecordDirectLock
<1>2. /\ new \in Records /\ new.id = h.tx /\ new.tx = h.tx /\ new.taker = h.entry.taker
      /\ new.status = IF seen THEN "locked" ELSE "lock_pending"
  BY <1>1 DEF LockRecord, Records, Entries, Statuses
<1> HIDE DEF new
<1>3. /\ records' = Upserted(new) /\ LockWritten(h, seen, n) /\ (seen => IsLive(h.tx))
  BY DEF LockWritten, RecordOpenLock, RecordDirectLock, new
<1>4. /\ tracked' \subseteq tracked \cup {h.tx} /\ (n >= 2 => tracked' \cap h.entry.srcs \subseteq {h.tx})
      /\ h.tx \in tracked' => h.entry.change
  BY <1>1, <1>3 DEF LockWritten, ReplacedByChange, WithTemplate, LockIsOwn
<1>5. /\ \/ offers' = offers
         \/ n = 3 /\ offers' = [offers EXCEPT ![h.tx] = IF seen THEN "open" ELSE "cancelled"]
      /\ n = 3 /\ h.entry.taker = Anyone =>
            offers' = [offers EXCEPT ![h.tx] = IF seen THEN "open" ELSE "cancelled"]
  BY DEF RecordOpenLock, RecordDirectLock
<1>6. offers \in [Txs -> OfferStates]
  BY DEF IInv, OffersOK
<1>7. offers' \in [Txs -> OfferStates] /\ \A id \in Txs : id # h.tx => offers'[id] = offers[id]
  BY <1>1, <1>5, <1>6 DEF OfferStates
<1>8. offers'[h.tx] # offers[h.tx] => n = 3 /\ offers'[h.tx] = IF seen THEN "open" ELSE "cancelled"
  BY <1>1, <1>5, <1>6
<1>9. (\E l \in made : l.id = h.tx) /\ MadeFor(new.id, new.taker)
  BY <1>1, <1>2 DEF LockIsOwn, MadeFor
<1>10. Written(h, new, n)
  BY <1>1, <1>2, <1>3, <1>4, <1>7, <1>8, <1>9
     DEF Written, ClaimedStatus, RefundedStatus, LockIsOwn
<1> QED
  BY <1>1, <1>2, <1>4, <1>5, <1>6, <1>10 DEF new

\* A record that is marked keeps its swap and its type.
LEMMA MarkedTyped ==
    ASSUME NEW rec \in Records, NEW how \in {<<"claimed", "claim_pending">>, <<"refunded", "refund_pending">>},
           NEW seen \in BOOLEAN, NEW e \in Entries, NEW tx \in Txs
    PROVE  LET new == Marked(rec, how, seen, e, tx)
           IN  /\ new \in Records /\ new.id = rec.id /\ new.tx = tx
               /\ new.status = IF seen THEN how[1] ELSE how[2]
<1> DEFINE status == IF seen THEN how[1] ELSE how[2]
           taker == IF e.op = "claim" THEN e.taker ELSE rec.taker
           new == [rec EXCEPT !.status = status, !.tx = tx, !.taker = taker]
<1>1. status \in Statuses
  BY DEF Statuses
<1>2. taker \in Wallets \cup {Anyone}
  BY DEF Records, Entries
<1>3. Marked(rec, how, seen, e, tx) = new
  BY DEF Marked, Records
<1> HIDE DEF status, taker
<1>4. new \in Records /\ new.id = rec.id /\ new.tx = tx /\ new.status = status
  BY <1>1, <1>2 DEF Records
<1> QED
  BY <1>3, <1>4 DEF status

\* A claim.
LEMMA ClaimForm ==
    ASSUME IInv, NEW r \in Reqs, NEW h, h = req[r], h.pc = "accepted", NEW n \in 1..3,
           NEW seen \in BOOLEAN, NEW holder \in BOOLEAN,
           RecordOpenClaim(h, seen, holder, n) \/ RecordDirectClaim(h, seen, holder, n)
    PROVE  \E new \in Records :
              /\ Written(h, new, n)
              /\ new.id = h.entry.lock /\ h.entry.op = "claim" /\ new.status \in ClaimedStatus
              /\ tracked' = tracked \/ LotIsLive(h.tx)
              /\ n = 3 => offers'[h.entry.lock] # "open" \/ ClaimedUnnamed(h.entry.lock)
<1>1. /\ h.entry.op = "claim" /\ h.tx \in Txs /\ h.entry \in Entries
      /\ ClaimWritten(h, seen, holder, n) /\ ClaimSeen(h, seen, holder)
      /\ Recognised(h.entry.lock) /\ h.entry.lock \in Txs /\ Ended(h.entry.lock, "claimed")
  BY AcceptedTyped DEF ClaimWritten, RecordOpenClaim, RecordDirectClaim
<1>14. ClaimsOf(h)
  BY <1>1, AcceptedTyped
<1>2. PICK rec \in Records :
          h.rec = {rec} /\ rec.id = h.entry.lock /\ (h.entry.offer # 0 => IsOpenSwap(rec))
  BY <1>14 DEF ClaimsOf
<1>3. PICK new : new = ClaimedRecord(rec, h, seen)
  OBVIOUS
<1>4. /\ new \in Records /\ new.id = h.entry.lock /\ new.tx = h.tx /\ new.status \in ClaimedStatus
  BY <1>1, <1>2, <1>3, MarkedTyped DEF ClaimedRecord, ClaimedStatus
<1>5. records' = Upserted(new)
  <2>1. {Upserted(ClaimedRecord(x, h, seen)) : x \in h.rec} = {Upserted(new)}
    BY <1>2, <1>3
  <2> QED
    BY <1>1, <2>1 DEF ClaimWritten
<1>6. tracked' \subseteq tracked \cup {h.tx} /\ (tracked' = tracked \/ LotIsLive(h.tx))
  BY <1>1 DEF ClaimWritten, ClaimSeen, TrackedClaim, WithTemplate
<1>12. /\ h.entry.offer # 0 => h.entry.offer \in Txs
       /\ \A offer \in Txs : Named(h.entry.lock, offer) <=> offer = h.entry.offer
  BY <1>1, AcceptedTyped, AtomicSwapAssumption DEF Txs
<1>7. IF n = 3 /\ h.entry.offer # 0
      THEN offers' = [offers EXCEPT ![h.entry.offer] = "filled"]
      ELSE offers' = offers
  BY <1>2 DEF RecordOpenClaim, RecordDirectClaim
<1>8. offers \in [Txs -> OfferStates]
  BY DEF IInv, OffersOK
<1>9. /\ offers' \in [Txs -> OfferStates]
      /\ \A id \in Txs : offers'[id] # offers[id] =>
            n = 3 /\ offers'[id] = "filled" /\ id = h.entry.offer
      /\ n = 3 => offers'[h.entry.lock] # "open" \/ h.entry.lock # h.entry.offer
  <2>1. 0 \notin Txs /\ "filled" \in OfferStates
    BY DEF Txs, OfferStates
  <2>2. CASE n = 3 /\ h.entry.offer # 0
    BY <1>1, <1>7, <1>8, <1>12, <2>1, <2>2
  <2>3. CASE ~ (n = 3 /\ h.entry.offer # 0)
    BY <1>1, <1>7, <1>8, <2>1, <2>3
  <2> QED
    BY <2>2, <2>3
<1>13. n = 3 => offers'[h.entry.lock] # "open" \/ ClaimedUnnamed(h.entry.lock)
  BY <1>1, <1>9, <1>12 DEF ClaimedUnnamed
<1>10. \E l \in made : l.id = h.entry.lock
  BY <1>1 DEF Recognised, RecordOf, IInv, RecordsOK
<1>11. Written(h, new, n)
  BY <1>1, <1>4, <1>5, <1>6, <1>9, <1>10, <1>12 DEF Written, ClaimedStatus, RefundedStatus
<1> QED
  BY <1>1, <1>4, <1>6, <1>11, <1>13

\* A refund: the record is read again, and there is one.
LEMMA RefundForm ==
    ASSUME IInv, NEW r \in Reqs, NEW h, h = req[r], h.pc = "accepted", NEW n \in 1..3,
           NEW seen \in BOOLEAN, RecordOpenRefund(h, seen, n) \/ RecordDirectRefund(h, seen, n)
    PROVE  \E new \in Records :
              /\ Written(h, new, n)
              /\ new.id = h.entry.lock /\ h.entry.op = "refund" /\ new.status \in RefundedStatus
              /\ tracked' = tracked \/ LotIsLive(h.tx)
              /\ n = 3 => offers'[h.entry.lock] # "open" \/ new.status = "refund_pending"
<1>1. /\ h.entry.op = "refund" /\ h.tx \in Txs /\ h.entry \in Entries
      /\ RefundWritten(h, seen, n) /\ (seen => LotIsLive(h.tx))
      /\ Recognised(h.entry.lock) /\ h.entry.lock \in Txs /\ Ended(h.entry.lock, "refunded")
  BY AcceptedTyped DEF RefundWritten, RecordOpenRefund, RecordDirectRefund
<1>2. PICK rec \in Records : RecordOf(h.entry.lock) = {rec} /\ rec.id = h.entry.lock
  BY <1>1 DEF Recognised, RecordOf, IInv, RecordsOK
<1>3. PICK new : new = RefundedRecord(rec, h, seen)
  OBVIOUS
<1>4. /\ new \in Records /\ new.id = h.entry.lock /\ new.tx = h.tx
      /\ new.status = IF seen THEN "refunded" ELSE "refund_pending"
  BY <1>1, <1>2, <1>3, MarkedTyped DEF RefundedRecord
<1>5. records' = Upserted(new)
  BY <1>1, <1>2, <1>3 DEF RefundWritten
<1>6. tracked' \subseteq tracked \cup {h.tx} /\ (tracked' = tracked \/ LotIsLive(h.tx))
  BY <1>1 DEF RefundWritten, TrackedRefund, WithTemplate
<1>7. /\ \/ offers' = offers
         \/ n = 3 /\ seen /\ offers' = [offers EXCEPT ![h.entry.lock] = "cancelled"]
      /\ n = 3 /\ seen => \/ offers' = [offers EXCEPT ![h.entry.lock] = "cancelled"]
                          \/ offers' = offers /\ offers[h.entry.lock] = "none"
  BY DEF RecordOpenRefund, RecordDirectRefund
<1>8. offers \in [Txs -> OfferStates]
  BY DEF IInv, OffersOK
<1>9. /\ offers' \in [Txs -> OfferStates] /\ \A id \in Txs : id # h.entry.lock => offers'[id] = offers[id]
      /\ n = 3 /\ seen => offers'[h.entry.lock] # "open"
      /\ offers'[h.entry.lock] # offers[h.entry.lock] => n = 3 /\ offers'[h.entry.lock] = "cancelled"
  BY <1>1, <1>7, <1>8 DEF OfferStates
<1>10. \E l \in made : l.id = h.entry.lock
  BY <1>1 DEF Recognised, RecordOf, IInv, RecordsOK
<1>11. Written(h, new, n)
  BY <1>1, <1>4, <1>5, <1>6, <1>9, <1>10 DEF Written, ClaimedStatus, RefundedStatus
<1> QED
  BY <1>1, <1>4, <1>6, <1>9, <1>11 DEF RefundedStatus

\* Whatever request writes, the files stay true of the chain, and no lock of
\* another request becomes known.
LEMMA WrittenKept ==
    ASSUME IInv, NEW r \in Reqs, NEW h, h = req[r], h.pc = "accepted", NEW n \in 1..3,
           NEW new \in Records, Written(h, new, n),
           (new.id = h.tx /\ RecordOf(new.id) = {}) \/ Recognised(new.id),
           UNCHANGED <<chain, late>>, unseen' \in 0..MaxUnseen
    PROVE  /\ ChainOK' /\ RecordsOK' /\ OffersOK'
           /\ \A id \in 0..MaxTx : Recognised(id) => Recognised(id)'
           /\ \A id : RecordOf(id) # {} => RecordOf(id)' # {}
           /\ \A q \in Reqs : q # r /\ LockSent(req[q]) =>
                 /\ req[q].tx \notin tracked'
                 /\ \A rec \in records' : rec.id # req[q].tx /\ rec.tx # req[q].tx
<1>1. h.tx \in Txs /\ h.tx <= ntx /\ UNCHANGED <<made, spent, lots, pays, ntx, named, late>>
  BY AcceptedTyped DEF chain
<1>2. /\ new.tx = h.tx /\ records' = Upserted(new) /\ \E l \in made : l.id = new.id
      /\ new.id <= ntx /\ new.id \in Txs
  BY <1>1 DEF Written, IInv, ChainOK, Records
<1>3. tracked' \subseteq Txs /\ \A t \in tracked' : t <= ntx
  BY <1>1 DEF Written, IInv, RecordsOK
<1>4. ChainOK' /\ RecordsOK'
  BY <1>2, <1>3, UpsertKept, <1>1 DEF Written
<1>5. /\ \A id \in 0..MaxTx : Recognised(id) => Recognised(id)'
      /\ \A id : RecordOf(id) # {} => RecordOf(id)' # {}
  BY <1>2, UpsertRecognises DEF Written, IInv
<1>6. /\ new \in records' /\ \A x \in records' : x = new \/ (x \in records /\ x.id # new.id)
      /\ \A x \in records : x.id # new.id => x \in records'
  BY <1>2 DEF Upserted
<1>7. ASSUME NEW q \in Reqs, q # r, LockSent(req[q])
      PROVE  /\ req[q].tx \notin tracked'
             /\ \A rec \in records' : rec.id # req[q].tx /\ rec.tx # req[q].tx
  <2>1. req[q].tx # h.tx /\ LockIsOwn(req[q])
    BY <1>7 DEF IInv, RequestsOK, LockSent, IsAccepted
  <2>2. new.id # req[q].tx
    BY <2>1 DEF LockIsOwn, Recognised
  <2>3. \A x \in records : x.id # req[q].tx /\ x.tx # req[q].tx
    BY <2>1 DEF LockIsOwn, RecordOf
  <2>4. req[q].tx \notin tracked'
    BY <2>1 DEF LockIsOwn, Written
  <2> QED
    BY <1>2, <1>6, <2>1, <2>2, <2>3, <2>4
<1>8. OffersOK'
  <2>1. offers' \in [Txs -> OfferStates]
    BY DEF Written
  <2>2. ASSUME NEW id \in Txs, offers'[id] = offers[id]
        PROVE  /\ offers'[id] = "filled" => Filled(id)
               /\ offers'[id] = "cancelled" =>
                     Ended(id, "refunded") \/ \E rec \in records' : rec.id = id /\ rec.status = "lock_pending"
    <3>1. ASSUME NEW rec \in records, rec.id = id, rec.status = "lock_pending"
          PROVE  rec \in records'
      BY <1>6, <3>1 DEF Recognised, RecordOf
    <3> QED
      BY <2>2, <3>1 DEF IInv, OffersOK, RecordOf
  <2>3. ASSUME NEW id \in Txs, offers'[id] # offers[id]
        PROVE  /\ offers'[id] = "filled" => Filled(id)
               /\ offers'[id] = "cancelled" =>
                     Ended(id, "refunded") \/ \E rec \in records' : rec.id = id /\ rec.status = "lock_pending"
    BY <1>6, <2>3 DEF Written, Filled, Ended
  <2> QED
    BY <1>1, <2>1, <2>2, <2>3 DEF OffersOK, Filled, Named, Ended, RecordOf
<1> QED
  BY <1>4, <1>5, <1>7, <1>8

\* Of an accepted request that is recorded, only these forms are needed.
LEMMA RecordedForm ==
    ASSUME IInv, NEW r \in Reqs, NEW n \in 1..3, Recorded(r, n)
    PROVE  \E h \in Accepted, new \in Records :
              /\ h = req[r] /\ h.pc = "accepted" /\ Written(h, new, n)
              /\ \/ /\ new.id = h.tx /\ RecordOf(new.id) = {} /\ h.entry.op = "lock"
                    /\ new.status \in {"locked", "lock_pending"}
                    /\ n >= 2 => tracked' \cap h.entry.srcs \subseteq {h.tx}
                    /\ h.tx \in tracked' => LotIsLive(h.tx)
                    /\ n = 3 /\ new.status = "locked" /\ IsOpenSwap(new) => offers'[new.id] = "open"
                 \/ /\ new.id = h.entry.lock /\ Recognised(new.id) /\ h.entry.op \in {"claim", "refund"}
                    /\ new.status \in ClaimedStatus \cup RefundedStatus
                    /\ tracked' = tracked \/ LotIsLive(h.tx)
                    /\ n = 3 => \/ offers'[new.id] # "open" \/ new.status = "refund_pending"
                               \/ ClaimedUnnamed(new.id)
<1>1. PICK h \in Accepted : h = req[r] /\ h.pc = "accepted"
  BY AcceptedTyped DEF Recorded
<1>2. PICK seen \in BOOLEAN :
          \/ RecordOpenLock(h, seen, n) \/ RecordDirectLock(h, seen, n)
          \/ RecordOpenRefund(h, seen, n) \/ RecordDirectRefund(h, seen, n)
          \/ \E holder \in BOOLEAN :
                \/ RecordOpenClaim(h, seen, holder, n)
                \/ RecordDirectClaim(h, seen, holder, n)
  BY <1>1 DEF Recorded
<1>3. CASE RecordOpenLock(h, seen, n) \/ RecordDirectLock(h, seen, n)
  <2> DEFINE new == LockRecord(h, seen)
  <2>1. /\ Written(h, new, n) /\ new.id = h.tx /\ h.entry.op = "lock"
        /\ new.status = IF seen THEN "locked" ELSE "lock_pending"
        /\ n >= 2 => tracked' \cap h.entry.srcs \subseteq {h.tx}
        /\ h.tx \in tracked' => h.entry.change
        /\ n = 3 /\ seen /\ h.entry.taker = Anyone => offers'[h.tx] = "open"
        /\ new.taker = h.entry.taker
    BY <1>1, <1>3, LockForm
  <2> HIDE DEF new
  <2>2. RecordOf(new.id) = {} /\ (h.tx \in tracked' => LotIsLive(h.tx))
    BY <1>1, <2>1, AcceptedTyped DEF LockIsOwn
  <2>3. new.status \in {"locked", "lock_pending"} /\ new \in Records
    BY <2>1 DEF Written
  <2>4. n = 3 /\ new.status = "locked" /\ IsOpenSwap(new) => offers'[new.id] = "open"
    BY <2>1 DEF IsOpenSwap
  <2> QED
    BY <1>1, <2>1, <2>2, <2>3, <2>4
<1>4. CASE RecordOpenRefund(h, seen, n) \/ RecordDirectRefund(h, seen, n)
  <2>1. PICK new \in Records :
              /\ Written(h, new, n)
              /\ new.id = h.entry.lock /\ h.entry.op = "refund" /\ new.status \in RefundedStatus
              /\ tracked' = tracked \/ LotIsLive(h.tx)
              /\ n = 3 => offers'[h.entry.lock] # "open" \/ new.status = "refund_pending"
    BY <1>1, <1>4, RefundForm
  <2>2. Recognised(new.id)
    BY <1>1, <2>1, AcceptedTyped
  <2> QED
    BY <1>1, <2>1, <2>2
<1>5. ASSUME NEW holder \in BOOLEAN,
             RecordOpenClaim(h, seen, holder, n) \/ RecordDirectClaim(h, seen, holder, n)
      PROVE  \E new \in Records :
              /\ Written(h, new, n)
              /\ new.id = h.entry.lock /\ h.entry.op = "claim" /\ new.status \in ClaimedStatus
              /\ tracked' = tracked \/ LotIsLive(h.tx)
              /\ n = 3 => offers'[h.entry.lock] # "open" \/ ClaimedUnnamed(h.entry.lock)
  BY <1>1, <1>5, ClaimForm
<1>6. CASE \E holder \in BOOLEAN :
              RecordOpenClaim(h, seen, holder, n) \/ RecordDirectClaim(h, seen, holder, n)
  <2>1. PICK new \in Records :
              /\ Written(h, new, n)
              /\ new.id = h.entry.lock /\ h.entry.op = "claim" /\ new.status \in ClaimedStatus
              /\ tracked' = tracked \/ LotIsLive(h.tx)
              /\ n = 3 => offers'[h.entry.lock] # "open" \/ ClaimedUnnamed(h.entry.lock)
    BY <1>5, <1>6
  <2>2. Recognised(new.id)
    BY <1>1, <2>1, AcceptedTyped
  <2> QED
    BY <1>1, <2>1, <2>2
<1> QED
  BY <1>2, <1>3, <1>4, <1>6

\* A request writes its records to the end: it releases nothing any more, and
\* the record of what it released does not show as locked.
LEMMA RecordKept ==
    ASSUME IInv, NEW r \in Reqs, Record(r)
    PROVE  IInv'
<1>1. Recorded(r, 3) /\ Become(r, Idle) /\ UNCHANGED <<chain, late, cache, unseen>>
  BY DEF Record
<1>2. PICK h \in Accepted, new \in Records :
              /\ h = req[r] /\ h.pc = "accepted" /\ Written(h, new, 3)
              /\ \/ /\ new.id = h.tx /\ RecordOf(new.id) = {} /\ h.entry.op = "lock"
                    /\ new.status \in {"locked", "lock_pending"}
                    /\ tracked' \cap h.entry.srcs \subseteq {h.tx}
                    /\ h.tx \in tracked' => LotIsLive(h.tx)
                    /\ new.status = "locked" /\ IsOpenSwap(new) => offers'[new.id] = "open"
                 \/ /\ new.id = h.entry.lock /\ Recognised(new.id) /\ h.entry.op \in {"claim", "refund"}
                    /\ new.status \in ClaimedStatus \cup RefundedStatus
                    /\ tracked' = tracked \/ LotIsLive(h.tx)
                    /\ \/ offers'[new.id] # "open" \/ new.status = "refund_pending"
                       \/ ClaimedUnnamed(new.id)
  BY <1>1, RecordedForm
<1>3. UNCHANGED <<made, spent, lots, pays, ntx, named, late, cache, unseen>> /\ unseen' \in 0..MaxUnseen
  BY <1>1 DEF chain, IInv, RecordsOK
<1>4. /\ ChainOK' /\ RecordsOK' /\ OffersOK'
      /\ \A id \in 0..MaxTx : Recognised(id) => Recognised(id)'
      /\ \A id : RecordOf(id) # {} => RecordOf(id)' # {}
      /\ \A q \in Reqs : q # r /\ LockSent(req[q]) =>
            /\ req[q].tx \notin tracked'
            /\ \A rec \in records' : rec.id # req[q].tx /\ rec.tx # req[q].tx
  BY <1>1, <1>2, <1>3, WrittenKept
<1>5. RequestsOK'
  BY <1>1, <1>4, RequestsAfterWrite
<1>6. QuietOK'
  <2> SUFFICES ASSUME unseen = 0 PROVE QuietOK'
    BY <1>3 DEF QuietOK
  <2>1. /\ new \in records' /\ \A x \in records' : x = new \/ (x \in records /\ x.id # new.id)
        /\ \A x \in records : x.id # new.id => x \in records'
        /\ new.id \in Txs /\ h.tx \in Txs /\ new.tx = h.tx
    BY <1>2 DEF Upserted, Written, Records, Accepted
  <2>2. \A q \in Reqs : q # r => req'[q] = req[q]
    BY <1>1 DEF Become, IInv, RequestsOK
  <2>3. h.entry.op = "lock" => h.entry.lock = 0
    BY <1>2, AcceptedTyped
  <2>4. ASSUME NEW id \in Txs, Releasing(id) PROVE Releasing(id)' \/ id = new.id
    <3>1. PICK q \in Reqs : req[q].pc = "accepted" /\ req[q].entry.lock = id
      BY <2>4 DEF Releasing
    <3>2. CASE q = r
      BY <1>2, <2>3, <3>1, <3>2 DEF Txs
    <3>3. CASE q # r
      BY <2>2, <3>1, <3>3 DEF Releasing
    <3> QED
      BY <3>2, <3>3
  <2>5. ASSUME NEW s \in spent
        PROVE  /\ RecordOf(s.id)' # {}
               /\ \A rec \in records' : rec.id = s.id /\ rec.status = "locked" => Releasing(s.id)'
    <3>1. s.id \in Txs /\ RecordOf(s.id) # {}
      BY DEF IInv, ChainOK, QuietOK
    <3>2. RecordOf(s.id)' # {}
      BY <1>4, <3>1
    <3>3. ASSUME NEW rec \in records', rec.id = s.id, rec.status = "locked" PROVE Releasing(s.id)'
      <4>1. CASE rec = new
        BY <1>2, <3>1, <3>3, <4>1 DEF ClaimedStatus, RefundedStatus
      <4>2. CASE rec \in records /\ rec.id # new.id
        <5>1. Releasing(s.id)
          BY <3>3, <4>2 DEF IInv, QuietOK, RecordOf
        <5> QED
          BY <2>4, <3>1, <3>3, <4>2, <5>1
      <4> QED
        BY <2>1, <4>1, <4>2
    <3> QED
      BY <3>2, <3>3
  <2>6. ASSUME NEW rec \in records', rec.status = "locked", IsOpenSwap(rec) 
        PROVE  offers'[rec.id] = "open" \/ NamedElsewhere(rec.id)
    <3>1. CASE rec = new
      BY <1>2, <2>6, <3>1 DEF ClaimedStatus, RefundedStatus
    <3>2. CASE rec \in records /\ rec.id # new.id
      <4>1. rec.id \in Txs /\ (offers[rec.id] = "open" \/ NamedElsewhere(rec.id))
        BY <2>6, <3>2 DEF IInv, QuietOK, RecordsOK, Records
      <4>2. offers'[rec.id] # offers[rec.id] => NamedElsewhere(rec.id)
        BY <1>2, <2>1, <3>2, <4>1 DEF Written, NamedElsewhere
      <4> QED
        BY <4>1, <4>2
    <3> QED
      BY <2>1, <3>1, <3>2
  <2>7. ASSUME NEW id \in Txs, offers'[id] = "open"
        PROVE  \/ IsLive(id) \/ Releasing(id)' \/ ClaimedUnnamed(id)
               \/ \E rec \in records' : rec.id = id /\ rec.status = "refund_pending"
    <3>1. CASE id # new.id
      <4>1. offers[id] = "open"
        BY <1>2, <2>7, <3>1 DEF Written
      <4>2. \/ IsLive(id) \/ Releasing(id) \/ ClaimedUnnamed(id)
            \/ \E rec \in records : rec.id = id /\ rec.status = "refund_pending"
        BY <4>1 DEF IInv, QuietOK, RecordOf
      <4> QED
        BY <2>1, <2>4, <3>1, <4>2
    <3>2. CASE id = new.id /\ RecordOf(new.id) = {} /\ h.entry.op = "lock"
      <4>1. CASE offers[id] = "open"
        BY <2>4, <3>2, <4>1, <1>2, <2>2, <2>3 DEF IInv, QuietOK, Releasing, Txs
      <4>2. CASE offers[id] # "open"
        BY <1>2, <2>7, <3>2, <4>2 DEF Written
      <4> QED
        BY <4>1, <4>2
    <3>3. CASE id = new.id /\ (\/ offers'[new.id] # "open" \/ new.status = "refund_pending"
                               \/ ClaimedUnnamed(new.id))
      BY <2>1, <2>7, <3>3
    <3> QED
      BY <1>2, <3>1, <3>2, <3>3
  <2>8. ASSUME NEW t \in tracked' PROVE LotIsLive(t) \/ Locking(t)'
    <3>1. CASE t = h.tx
      <4>1. LotIsLive(h.tx) \/ t \in tracked
        BY <1>2, <2>8, <3>1
      <4>2. h.entry.op = "lock" => LotIsLive(h.tx)
        BY <1>2, <2>8, <3>1
      <4>3. t \in tracked /\ h.entry.op # "lock" => LotIsLive(t) \/ Locking(t)'
        <5> SUFFICES ASSUME t \in tracked, h.entry.op # "lock", Locking(t) PROVE Locking(t)'
          BY DEF IInv, QuietOK, TrackedIsLive
        <5>1. PICK q \in Reqs : req[q].pc = "accepted" /\ t \in req[q].entry.srcs
          BY DEF Locking
        <5>2. q # r
          BY <1>2, <5>1, AcceptedTyped
        <5> QED
          BY <2>2, <5>1, <5>2 DEF Locking
      <4> QED
        BY <3>1, <4>1, <4>2, <4>3
    <3>2. CASE t # h.tx
      <4>1. t \in tracked
        BY <1>2, <2>8, <3>2 DEF Written
      <4> SUFFICES ASSUME Locking(t) PROVE Locking(t)'
        BY <4>1 DEF IInv, QuietOK, TrackedIsLive
      <4>2. PICK q \in Reqs : req[q].pc = "accepted" /\ t \in req[q].entry.srcs
        BY DEF Locking
      <4>3. q # r
        BY <1>2, <2>8, <3>2, <4>2, AcceptedTyped
      <4> QED
        BY <2>2, <4>2, <4>3 DEF Locking
    <3> QED
      BY <3>1, <3>2
  <2>9. TrackedIsLive'
    BY <1>3, <2>8 DEF TrackedIsLive, LotIsLive, Locking
  <2>10. \A id \in Txs : IsLive(id) => IsLive(id)'
    BY <1>3 DEF IsLive
  <2>11. ASSUME NEW id \in Txs, offers'[id] = "open"
         PROVE  \/ IsLive(id)' \/ Releasing(id)' \/ ClaimedUnnamed(id)'
                \/ \E rec \in records' : rec.id = id /\ rec.status = "refund_pending"
    <3>1. (IsLive(id) => IsLive(id)') /\ (ClaimedUnnamed(id) => ClaimedUnnamed(id)')
      BY <1>3, <2>10 DEF ClaimedUnnamed, Named, Ended
    <3> QED
      BY <2>7, <2>11, <3>1
  <2>12. \A rec \in records' : rec.status = "locked" /\ IsOpenSwap(rec) =>
            offers'[rec.id] = "open" \/ NamedElsewhere(rec.id)'
    BY <1>3, <2>6 DEF NamedElsewhere, Named
  <2> QED
    BY <1>3, <2>5, <2>9, <2>11, <2>12 DEF QuietOK, RecordOf
<1> QED
  BY <1>4, <1>5, <1>6 DEF IInv

LEMMA StopKept ==
    ASSUME IInv, Stop
    PROVE  IInv'
<1>1. /\ unseen' \in 0..MaxUnseen /\ unseen' # 0 /\ cache' = {} /\ req' = [r \in Reqs |-> Idle]
      /\ UNCHANGED <<made, spent, lots, pays, ntx, named, late>> /\ UNCHANGED <<chain, late>>
  BY AtomicSwapAssumption DEF Stop, Unseen, IInv, RecordsOK, chain
<1>2. RequestsOK'
  BY <1>1, RequestsAfterStop
<1>3. CASE UNCHANGED files
  <2>1. UNCHANGED <<records, tracked, offers>>
    BY <1>3 DEF files
  <2> QED
    BY <1>1, <1>2, <2>1 DEF IInv, ChainOK, RecordsOK, OffersOK, QuietOK, Ended, RecordOf, Filled,
       Named, MadeFor
<1>4. ASSUME NEW r \in Reqs, NEW n \in 1..2, Recorded(r, n)
      PROVE  IInv'
  <2>1. n \in 1..3
    OBVIOUS
  <2>2. PICK h \in Accepted, new \in Records :
              /\ h = req[r] /\ h.pc = "accepted" /\ Written(h, new, n)
              /\ (new.id = h.tx /\ RecordOf(new.id) = {}) \/ Recognised(new.id)
    BY <1>4, <2>1, RecordedForm
  <2>3. ChainOK' /\ RecordsOK' /\ OffersOK'
    BY <1>1, <2>1, <2>2, WrittenKept
  <2> QED
    BY <1>1, <1>2, <2>3 DEF IInv, QuietOK
<1> QED
  BY <1>3, <1>4 DEF Stop

\* A claim that is looked for again, however long the request took.
LEMMA FinalizeKept ==
    ASSUME IInv, NEW r \in Reqs, Finalize(r)
    PROVE  IInv'
<1>1. /\ req[r].pc = "finalizing" /\ Become(r, Idle)
      /\ UNCHANGED <<chain, offers, late, cache, unseen>>
      /\ UNCHANGED <<made, spent, lots, pays, ntx, named, offers, late, cache, unseen>>
      /\ unseen' \in 0..MaxUnseen
  BY DEF Finalize, chain, IInv, RecordsOK
<1>2. PICK rec \in req[r].todo :
          IF LotIsLive(rec.tx) /\ rec.tx \in pays
          THEN /\ records' = Upserted([rec EXCEPT !.status = "claimed"])
               /\ tracked' = tracked \cup WithTemplate({rec.tx})
          ELSE UNCHANGED <<records, tracked>>
  BY DEF Finalize
<1>3. /\ rec \in Records /\ Recognised(rec.id) /\ Ended(rec.id, "claimed") /\ rec.tx <= ntx
      /\ rec.id \in Txs /\ rec.tx \in Txs
  BY <1>1, HandlerTyped DEF IInv, RequestsOK, HandlerOK, Reading, Records
<1>4. CASE UNCHANGED <<records, tracked>>
  BY <1>1, <1>4, IdleOK, BecomeKept DEF IsAccepted, InFlight, files
<1>5. CASE /\ LotIsLive(rec.tx)
           /\ records' = Upserted([rec EXCEPT !.status = "claimed"])
           /\ tracked' = tracked \cup WithTemplate({rec.tx})
  <2> DEFINE new == [rec EXCEPT !.status = "claimed"]
  <2>1. /\ new \in Records /\ new.id = rec.id /\ new.tx = rec.tx /\ new.status = "claimed"
        /\ records' = Upserted(new)
    BY <1>3, <1>5 DEF Records, Statuses
  <2> HIDE DEF new
  <2>2. \E l \in made : l.id = new.id /\ l.id <= ntx
    BY <1>3, <2>1 DEF Recognised, RecordOf, IInv, RecordsOK
  <2>3. /\ tracked' \subseteq tracked \cup {rec.tx} /\ tracked' \subseteq Txs
        /\ \A t \in tracked' : t <= ntx
    BY <1>3, <1>5 DEF WithTemplate, IInv, RecordsOK
  <2>4. ChainOK' /\ RecordsOK'
    BY <1>1, <1>3, <2>1, <2>2, <2>3, UpsertKept DEF ClaimedStatus, RefundedStatus
  <2>5. /\ \A id \in 0..MaxTx : Recognised(id) => Recognised(id)'
        /\ \A id : RecordOf(id) # {} => RecordOf(id)' # {}
    BY <2>1, UpsertRecognises DEF IInv
  <2>6. /\ new \in records' /\ \A x \in records' : x = new \/ (x \in records /\ x.id # new.id)
        /\ \A x \in records : x.id # new.id => x \in records'
    BY <2>1 DEF Upserted
  <2>7. ASSUME NEW q \in Reqs, q # r, LockSent(req[q])
        PROVE  /\ req[q].tx \notin tracked'
               /\ \A x \in records' : x.id # req[q].tx /\ x.tx # req[q].tx
    <3>1. LockIsOwn(req[q])
      BY <2>7 DEF IInv, RequestsOK
    <3>2. rec.tx # req[q].tx /\ rec.id # req[q].tx
      BY <1>1, <1>3, <3>1 DEF LockIsOwn, Recognised
    <3> QED
      BY <2>1, <2>3, <2>6, <3>1, <3>2 DEF LockIsOwn, RecordOf
  <2>8. RequestsOK'
    BY <1>1, <2>5, <2>7, RequestsAfterWrite
  <2>9. ASSUME NEW x \in records, x.id = new.id PROVE x.status \notin RefundedStatus \cup {"lock_pending"}
    <3>1. x.status # "lock_pending"
      BY <1>3, <2>1, <2>9 DEF Recognised, RecordOf
    <3>2. ~ Ended(rec.id, "refunded")
      BY <1>3 DEF IInv, ChainOK, Ended
    <3> QED
      BY <2>1, <2>9, <3>1, <3>2 DEF IInv, RecordsOK
  <2>10. OffersOK'
    BY <1>1, <2>6, <2>9 DEF IInv, OffersOK, Ended, RecordOf, Filled, Named
  <2>11. QuietOK'
    <3> SUFFICES ASSUME unseen = 0 PROVE QuietOK'
      BY <1>1 DEF QuietOK
    <3>1. \A q \in Reqs : IsAccepted(req[q]) <=> IsAccepted(req'[q])
      BY <1>1, IdleOK DEF Become, IInv, RequestsOK, IsAccepted
    <3>2. \A q \in Reqs : IsAccepted(req[q]) => req'[q] = req[q]
      BY <1>1 DEF Become, IInv, RequestsOK, IsAccepted
    <3>3. (\A id \in Txs : Releasing(id) => Releasing(id)') /\ (\A t \in Txs : Locking(t) => Locking(t)')
      BY <3>2 DEF Releasing, Locking, IsAccepted
    <3>4. ASSUME NEW s \in spent
          PROVE  /\ RecordOf(s.id)' # {}
                 /\ \A x \in records' : x.id = s.id /\ x.status = "locked" => Releasing(s.id)'
      <4>1. s.id \in Txs /\ RecordOf(s.id) # {}
        BY DEF IInv, ChainOK, QuietOK
      <4>2. Releasing(s.id) => Releasing(s.id)'
        BY <3>3, <4>1
      <4> QED
        BY <2>1, <2>5, <2>6, <4>1, <4>2 DEF IInv, QuietOK, RecordOf
    <3>5. \A x \in records' : x.status = "locked" /\ IsOpenSwap(x) =>
             offers'[x.id] = "open" \/ NamedElsewhere(x.id)'
      BY <1>1, <2>1, <2>6 DEF IInv, QuietOK, NamedElsewhere, Named
    <3>6. ASSUME NEW id \in Txs, offers'[id] = "open"
          PROVE  \/ IsLive(id)' \/ Releasing(id)' \/ ClaimedUnnamed(id)'
                 \/ \E x \in records' : x.id = id /\ x.status = "refund_pending"
      <4>1. (Releasing(id) => Releasing(id)') /\ (IsLive(id) => IsLive(id)')
            /\ (ClaimedUnnamed(id) => ClaimedUnnamed(id)')
        BY <1>1, <3>3 DEF IsLive, ClaimedUnnamed, Named, Ended
      <4>2. \/ IsLive(id) \/ Releasing(id) \/ ClaimedUnnamed(id)
            \/ \E x \in records : x.id = id /\ x.status = "refund_pending"
        BY <1>1, <3>6 DEF IInv, QuietOK, RecordOf
      <4>3. ASSUME NEW x \in records, x.id = id, x.status = "refund_pending"
            PROVE  x \in records'
        BY <2>6, <2>9, <4>3 DEF RefundedStatus
      <4> QED
        BY <4>1, <4>2, <4>3
    <3>7. ASSUME NEW t \in tracked' PROVE LotIsLive(t) \/ Locking(t)'
      <4>1. t \in tracked => LotIsLive(t) \/ Locking(t)
        BY DEF IInv, QuietOK, TrackedIsLive
      <4>2. t \in Txs
        BY <2>3
      <4>3. Locking(t) => Locking(t)'
        BY <3>3, <4>2
      <4> QED
        BY <1>5, <2>3, <4>1, <4>3
    <3>8. TrackedIsLive'
      BY <1>1, <3>7 DEF TrackedIsLive, LotIsLive, Locking
    <3> QED
      BY <1>1, <3>4, <3>5, <3>6, <3>8 DEF QuietOK, RecordOf
  <2> QED
    BY <2>4, <2>8, <2>10, <2>11 DEF IInv
<1> QED
  BY <1>2, <1>4, <1>5

\* A repair of the holder list puts back only what it sees on the chain.
LEMMA RepairKept ==
    ASSUME IInv, NEW r \in Reqs, Repair(r)
    PROVE  IInv'
<1>1. /\ req[r].pc = "repairing" /\ Become(r, Idle)
      /\ UNCHANGED <<made, spent, lots, pays, ntx, named, records, offers, late, cache, unseen>>
      /\ UNCHANGED <<chain, cache>>
  BY DEF Repair, chain
<1>2. \A rec \in req[r].todo : rec.id \in Txs /\ RecordOf(rec.id) # {} /\ rec.id <= ntx
  BY <1>1, HandlerTyped DEF IInv, RequestsOK, HandlerOK, Reading, Records, Recognised,
     RecordsOK, RecordOf
<1>3. \A t \in tracked' : t \in tracked \/ (LotIsLive(t) /\ \E rec \in req[r].todo : t = rec.id)
  BY DEF Repair, ReplacedByChange, WithTemplate, VisibleChange
<1>4. RecordsOK'
  BY <1>1, <1>2, <1>3 DEF IInv, RecordsOK, Ended, MadeFor
<1>5. ChainOK' /\ OffersOK'
  BY <1>1 DEF IInv, ChainOK, OffersOK, Ended, RecordOf, Filled, Named
<1>6. \A id \in 0..MaxTx : Recognised(id) => Recognised(id)'
  BY <1>1 DEF Recognised, RecordOf
<1>7. ASSUME NEW q \in Reqs, q # r, LockSent(req[q])
      PROVE  /\ req[q].tx \notin tracked'
             /\ \A rec \in records' : rec.id # req[q].tx /\ rec.tx # req[q].tx
  <2>1. LockIsOwn(req[q])
    BY <1>7 DEF IInv, RequestsOK
  <2> QED
    BY <1>1, <1>2, <1>3, <2>1 DEF LockIsOwn, RecordOf
<1>8. RequestsOK'
  BY <1>1, <1>6, <1>7, RequestsAfterWrite
<1>9. QuietOK'
  <2> SUFFICES ASSUME unseen = 0 PROVE QuietOK'
    BY <1>1 DEF QuietOK
  <2>1. \A q \in Reqs : IsAccepted(req[q]) => req'[q] = req[q]
    BY <1>1 DEF Become, IInv, RequestsOK, IsAccepted
  <2>2. (\A id \in Txs : Releasing(id) => Releasing(id)') /\ (\A t \in Txs : Locking(t) => Locking(t)')
    BY <2>1 DEF Releasing, Locking, IsAccepted
  <2>3. ASSUME NEW t \in tracked' PROVE LotIsLive(t) \/ Locking(t)'
    <3>1. t \in tracked => LotIsLive(t) \/ Locking(t)
      BY DEF IInv, QuietOK, TrackedIsLive
    <3>2. t \in tracked => (Locking(t) => Locking(t)')
      BY <2>2 DEF IInv, RecordsOK
    <3> QED
      BY <1>3, <3>1, <3>2
  <2>4. TrackedIsLive'
    BY <1>1, <2>3 DEF TrackedIsLive, LotIsLive, Locking
  <2>5. ASSUME NEW s \in spent PROVE Releasing(s.id) => Releasing(s.id)'
    BY <2>2 DEF IInv, ChainOK
  <2>6. ASSUME NEW s \in spent
        PROVE  /\ RecordOf(s.id) # {}
               /\ \A x \in RecordOf(s.id) : x.status = "locked" => Releasing(s.id)'
    BY <2>5 DEF IInv, QuietOK
  <2>7. ASSUME NEW id \in Txs, offers[id] = "open"
        PROVE  \/ IsLive(id)' \/ Releasing(id)' \/ ClaimedUnnamed(id)'
               \/ \E x \in RecordOf(id) : x.status = "refund_pending"
    <3>1. (Releasing(id) => Releasing(id)') /\ (IsLive(id) => IsLive(id)')
          /\ (ClaimedUnnamed(id) => ClaimedUnnamed(id)')
      BY <1>1, <2>2 DEF IsLive, ClaimedUnnamed, Named, Ended
    <3> QED
      BY <2>7, <3>1 DEF IInv, QuietOK
  <2> QED
    BY <1>1, <2>4, <2>6, <2>7 DEF IInv, QuietOK, RecordOf, NamedElsewhere, Named
<1> QED
  BY <1>4, <1>5, <1>8, <1>9 DEF IInv

-----------------------------------------------------------------------------
\* IInv holds at the start: one swap that was locked, recorded and maybe offered.
LEMMA InitOK == Init => IInv
<1> SUFFICES ASSUME Init PROVE IInv
  OBVIOUS
<1>1. PICK w \in Wallets, v \in Wallets : \E taker \in (Wallets \ {v}) \cup {Anyone} :
          /\ lots = {[tx |-> 1, wallet |-> w]} /\ tracked = {1}
          /\ made = {[id |-> 2, maker |-> v, taker |-> taker]}
          /\ records = {[id |-> 2, maker |-> v, taker |-> taker, srcs |-> {},
                         change |-> FALSE, status |-> "locked", tx |-> 2]}
          /\ offers = [t \in Txs |-> IF t = 2 /\ taker = Anyone THEN "open" ELSE "none"]
  BY DEF Init
<1>2. PICK taker \in (Wallets \ {v}) \cup {Anyone} :
          /\ lots = {[tx |-> 1, wallet |-> w]} /\ tracked = {1}
          /\ made = {[id |-> 2, maker |-> v, taker |-> taker]}
          /\ records = {[id |-> 2, maker |-> v, taker |-> taker, srcs |-> {},
                         change |-> FALSE, status |-> "locked", tx |-> 2]}
          /\ offers = [t \in Txs |-> IF t = 2 /\ taker = Anyone THEN "open" ELSE "none"]
  BY <1>1
<1>3. 1 \in Txs /\ 2 \in Txs /\ ntx = 2 /\ ntx \in 0..MaxTx
  BY AtomicSwapAssumption DEF Txs, Init
<1>4. /\ spent = {} /\ pays = {} /\ named = {} /\ late = {} /\ cache = {} /\ unseen = 0
      /\ req = [r \in Reqs |-> Idle]
  BY DEF Init
<1>5. ChainOK
  BY <1>2, <1>3, <1>4 DEF ChainOK, Locks
<1>6. RecordsOK
  BY <1>2, <1>3, <1>4, AtomicSwapAssumption
     DEF RecordsOK, Records, Statuses, ClaimedStatus, RefundedStatus, MadeFor
<1>7. OffersOK
  BY <1>2 DEF OffersOK, OfferStates
<1>8. RequestsOK
  <2>1. req \in [Reqs -> Handlers] /\ \A r \in Reqs : req[r] = Idle
    BY <1>4, IdleOK
  <2> QED
    BY <1>4, <2>1, IdleOK DEF RequestsOK, IsAccepted, LockSent
<1>9. QuietOK
  <2>1. TrackedIsLive
    BY <1>2 DEF TrackedIsLive, LotIsLive
  <2>2. \A id \in Txs : offers[id] = "open" => IsLive(id)
    BY <1>2, <1>4 DEF IsLive
  <2>3. \A rec \in records : rec.status = "locked" /\ IsOpenSwap(rec) => offers[rec.id] = "open"
    BY <1>2, <1>3 DEF IsOpenSwap
  <2> QED
    BY <1>4, <2>1, <2>2, <2>3 DEF QuietOK
<1> QED
  BY <1>5, <1>6, <1>7, <1>8, <1>9 DEF IInv

\* Every step keeps it.
LEMMA NextKept == IInv /\ [Next]_vars => IInv'
<1> SUFFICES ASSUME IInv, [Next]_vars PROVE IInv'
  OBVIOUS
<1>1. CASE Builds
  <2>1. ASSUME NEW w \in Wallets, NEW change \in BOOLEAN, BuildOpenLock(w, change) PROVE IInv'
    BY <2>1, BuildLockKept DEF BuildOpenLock
  <2>2. ASSUME NEW w \in Wallets, NEW change \in BOOLEAN, NEW taker \in Wallets \ {w},
               BuildDirectLock(w, taker, change)
        PROVE  IInv'
    BY <2>2, BuildLockKept DEF BuildDirectLock
  <2>3. ASSUME NEW w \in Wallets, NEW rec \in records, NEW offer \in 0..MaxTx,
               BuildOpenClaim(w, rec, offer)
        PROVE  IInv'
    BY <2>3, BuildReleaseKept DEF BuildOpenClaim, OpenClaimAllowed
  <2>4. ASSUME NEW w \in Wallets, NEW rec \in records,
               BuildDirectClaim(w, rec) \/ BuildOpenRefund(w, rec) \/ BuildDirectRefund(w, rec)
        PROVE  IInv'
    <3>1. 0 \in 0..MaxTx
      BY AtomicSwapAssumption
    <3> QED
      BY <2>4, <3>1, BuildReleaseKept DEF BuildDirectClaim, BuildOpenRefund, BuildDirectRefund,
         DirectClaimAllowed, OpenRefundAllowed, DirectRefundAllowed
  <2> QED
    BY <1>1, <2>1, <2>2, <2>3, <2>4 DEF Builds
<1>2. CASE \/ UNCHANGED vars
           \/ \E e \in cache : Expire(e)
           \/ \E tx \in Txs : RunOut(tx)
           \/ \E tx \in pays : SpendPayment(tx)
  <2>1. late \subseteq Txs
    BY DEF IInv, RecordsOK
  <2> QED
    BY <1>2, <2>1, IdleStepKept DEF Expire, RunOut, SpendPayment, vars, chain, files
<1>3. ASSUME NEW r \in Reqs, NEW e \in cache,
             \/ SubmitOpenLock(r, e) \/ SubmitDirectLock(r, e)
             \/ SubmitOpenClaim(r, e) \/ SubmitDirectClaim(r, e)
             \/ SubmitOpenRefund(r, e) \/ SubmitDirectRefund(r, e)
      PROVE  IInv'
  <2>1. CASE SubmitOpenLock(r, e) \/ SubmitDirectLock(r, e)
    BY <2>1, SubmittedKept DEF SubmitOpenLock, SubmitDirectLock
  <2>2. CASE SubmitOpenClaim(r, e) \/ SubmitDirectClaim(r, e)
    BY <2>2, SubmittedKept DEF SubmitOpenClaim, SubmitDirectClaim, OpenClaimAllowed,
       DirectClaimAllowed, RecordOf
  <2>3. CASE SubmitOpenRefund(r, e) \/ SubmitDirectRefund(r, e)
    BY <2>3, SubmittedKept DEF SubmitOpenRefund, SubmitDirectRefund
  <2> QED
    BY <1>3, <2>1, <2>2, <2>3
<1>4. ASSUME NEW r \in Reqs, Accept(r) PROVE IInv'
  BY <1>4, AcceptLockKept, AcceptReleaseKept
<1>5. ASSUME NEW r \in Reqs, Refused(r) \/ Record(r) \/ Finalize(r) \/ Repair(r) PROVE IInv'
  BY <1>5, RefusedKept, RecordKept, FinalizeKept, RepairKept
<1>6. ASSUME NEW r \in Reqs, NEW w \in Wallets, StartFinalize(r, w) \/ StartRepair(r, w) PROVE IInv'
  BY <1>6, StartFinalizeKept, StartRepairKept
<1>7. ASSUME NEW l \in made, ClaimElsewhere(l) PROVE IInv'
  BY <1>7, ClaimElsewhereKept
<1>8. CASE Stop
  BY <1>8, StopKept
<1> QED
  BY <1>1, <1>2, <1>3, <1>4, <1>5, <1>6, <1>7, <1>8 DEF Next

\* IInv holds throughout.
THEOREM Invariance == Spec => []IInv
<1> QED
  BY InitOK, NextKept, PTL DEF Spec

\* The types, for all of them.
THEOREM SwapTypeCorrect == Spec => []TypeOK
<1>1. IInv => TypeOK
  BY InvariantImplies
<1> QED
  BY <1>1, Invariance, PTL

\* The holder list names live outputs, though requests that overlap and
\* repairs of the list all write it.
THEOREM TrackedStaysLive == Spec => []TrackedIsLive
<1>1. IInv => TrackedIsLive
  BY InvariantImplies
<1> QED
  BY <1>1, Invariance, PTL

\* A swap that shows as locked can be taken back by its maker, unless a claim of
\* another swap named its offer.
THEOREM LockedCanBeTakenBack == Spec => []MakerCanTakeBack
<1>1. IInv => MakerCanTakeBack
  BY InvariantImplies
<1> QED
  BY <1>1, Invariance, PTL

\* An offer shows as filled only after a claim that named it was taken, and as
\* open only while it can be taken, or when its swap was claimed without naming it.
THEOREM OffersTellTheTruth == Spec => []OfferTellsTheTruth
<1>1. IInv => OfferTellsTheTruth
  BY InvariantImplies
<1> QED
  BY <1>1, Invariance, PTL

-----------------------------------------------------------------------------
\* The refinement.  What the user was told of the swaps, as module Exchange
\* sees it, is what the statuses of the records say.
Told ==
    {[id |-> rec.id, how |-> "claimed"] :
        rec \in {x \in records : x.status \in {"claimed", "claim_pending"}}}
    \cup {[id |-> rec.id, how |-> "refunded"] :
             rec \in {x \in records : x.status \in {"refunded", "refund_pending"}}}

\* Nothing new is told by the record of a lock ...
LEMMA LockTellsNothing ==
    ASSUME NEW new \in Records, records' = Upserted(new), RecordOf(new.id) = {},
           new.status \notin ClaimedStatus \cup RefundedStatus
    PROVE  Told' = Told
<1>1. records' = records \cup {new}
  BY DEF Upserted, RecordOf
<1> QED
  BY <1>1 DEF Told, ClaimedStatus, RefundedStatus

\* ... and by a record of a release, only what happened: no other record can
\* have said the contrary, as the swap was released once.
LEMMA ReleaseTells ==
    ASSUME IInv, NEW new \in Records, records' = Upserted(new), NEW s \in spent, s.id = new.id,
           \/ new.status \in ClaimedStatus /\ s.how = "claimed"
           \/ new.status \in RefundedStatus /\ s.how = "refunded"
    PROVE  Told' = Told \cup {[id |-> s.id, how |-> s.how]}
<1>1. /\ new \in records' /\ \A x \in records' : x = new \/ (x \in records /\ x.id # new.id)
      /\ \A x \in records : x.id # new.id => x \in records'
  BY DEF Upserted
<1>2. ASSUME NEW x \in records, x.id = new.id
      PROVE  /\ x.status \in ClaimedStatus => s.how = "claimed"
             /\ x.status \in RefundedStatus => s.how = "refunded"
  BY <1>2 DEF IInv, RecordsOK, ChainOK, Ended
<1>3. Told \subseteq Told' \cup {[id |-> s.id, how |-> s.how]}
  BY <1>1, <1>2 DEF Told, ClaimedStatus, RefundedStatus
<1>4. Told' \subseteq Told \cup {[id |-> s.id, how |-> s.how]}
  BY <1>1 DEF Told, ClaimedStatus, RefundedStatus
<1>5. [id |-> s.id, how |-> s.how] \in Told'
  BY <1>1 DEF Told, ClaimedStatus, RefundedStatus
<1> QED
  BY <1>3, <1>4, <1>5

\* A write of the records tells at most what the chain has.
LEMMA WriteMapped ==
    ASSUME IInv, NEW new \in Records, records' = Upserted(new), UNCHANGED <<made, spent>>,
           \/ RecordOf(new.id) = {} /\ new.status \in {"locked", "lock_pending"}
           \/ new.status \in ClaimedStatus /\ Ended(new.id, "claimed")
           \/ new.status \in RefundedStatus /\ Ended(new.id, "refunded")
    PROVE  Told' = Told \/ \E s \in spent : Told' = Told \cup {[id |-> s.id, how |-> s.how]}
<1>1. CASE RecordOf(new.id) = {} /\ new.status \in {"locked", "lock_pending"}
  BY <1>1, LockTellsNothing DEF ClaimedStatus, RefundedStatus
<1>2. CASE new.status \in ClaimedStatus /\ Ended(new.id, "claimed")
  BY <1>2, ReleaseTells DEF Ended
<1>3. CASE new.status \in RefundedStatus /\ Ended(new.id, "refunded")
  BY <1>3, ReleaseTells DEF Ended
<1> QED
  BY <1>1, <1>2, <1>3

LEMMA RecordedMapped ==
    ASSUME IInv, NEW r \in Reqs, NEW n \in 1..3, Recorded(r, n), UNCHANGED <<made, spent>>
    PROVE  Told' = Told \/ \E s \in spent : Told' = Told \cup {[id |-> s.id, how |-> s.how]}
<1>1. PICK h \in Accepted, new \in Records :
         /\ Written(h, new, n)
         /\ \/ RecordOf(new.id) = {} /\ new.status \in {"locked", "lock_pending"}
            \/ new.status \in ClaimedStatus \cup RefundedStatus
  BY RecordedForm
<1> QED
  BY <1>1, WriteMapped DEF Written

LEMMA FinalizeMapped ==
    ASSUME IInv, NEW r \in Reqs, Finalize(r)
    PROVE  Told' = Told \/ \E s \in spent : Told' = Told \cup {[id |-> s.id, how |-> s.how]}
<1>1. PICK rec \in req[r].todo :
         records' = Upserted([rec EXCEPT !.status = "claimed"]) \/ records' = records
  BY DEF Finalize
<1>2. rec \in Records /\ Ended(rec.id, "claimed")
  BY HandlerTyped DEF Finalize, IInv, RequestsOK, HandlerOK, Reading
<1> DEFINE new == [rec EXCEPT !.status = "claimed"]
<1>3. new \in Records /\ new.id = rec.id /\ new.status \in ClaimedStatus
  BY <1>2 DEF Records, Statuses, ClaimedStatus
<1>4. UNCHANGED <<made, spent>>
  BY DEF Finalize, chain
<1>5. CASE records' = records
  BY <1>5 DEF Told
<1>6. CASE records' = Upserted(new)
  <2> HIDE DEF new
  <2> QED
    BY <1>2, <1>3, <1>4, <1>6, WriteMapped
<1> QED
  BY <1>1, <1>5, <1>6

\* What the node takes is an offer, an exchange or a return of the tokens.
LEMMA OnChainMapped ==
    ASSUME IInv, NEW e \in Entries, OnChain(e), UNCHANGED records,
           e.op = "claim" => e.taker \in Wallets, e.op = "refund" => e.paid = Anyone
    PROVE  TheExchange!Next
<1>1. ntx \in Nat /\ ntx + 1 \in Txs /\ Told' = Told
  BY AtomicSwapAssumption DEF IInv, ChainOK, OnChain, Txs, Told
<1>2. CASE e.op = "lock"
  <2> DEFINE d == [id |-> ntx + 1, maker |-> e.wallet, taker |-> e.taker]
  <2>1. made' = made \cup {d} /\ spent' = spent
    BY <1>2 DEF OnChain, Lock
  <2>2. d \in TheExchange!Deals
    BY <1>1 DEF TheExchange!Deals, Entries, Txs
  <2>3. \A x \in made : x.id # d.id
    BY <1>1 DEF IInv, ChainOK, Locks, Txs
  <2>4. TheExchange!Offer(d)
    BY <1>1, <2>1, <2>3 DEF TheExchange!Offer, Told
  <2> QED
    BY <2>2, <2>4 DEF TheExchange!Next
<1>3. CASE e.op # "lock"
  <2>1. PICK l \in made : l.id = e.lock /\ IsLive(l.id) /\ Unlocks(l, e)
    BY <1>3 DEF OnChain, Release
  <2>2. spent' = spent \cup {Ends(e)} /\ made' = made
    BY <1>3 DEF OnChain, Release
  <2>3. TheExchange!IsOpen(l) /\ l \in Locks
    BY <2>1 DEF TheExchange!IsOpen, IsLive, IInv, ChainOK
  <2>4. CASE e.op = "claim"
    <3>1. e.taker \in Wallets /\ e.paid = l.maker /\ l.taker \in {e.taker, Anyone}
      BY <2>1, <2>4 DEF Unlocks, OpenPolicy, DirectPolicy
    <3>2. Ends(e) = TheExchange!Claimed(l, e.taker)
      BY <2>1, <2>4, <3>1 DEF Ends, TheExchange!Claimed
    <3>3. TheExchange!Settle(l, e.taker)
      BY <1>1, <2>2, <2>3, <3>1, <3>2 DEF TheExchange!Settle, Told
    <3> QED
      BY <2>1, <3>1, <3>3 DEF TheExchange!Next
  <2>5. CASE e.op = "refund"
    <3>1. e.taker = l.maker /\ e.paid = Anyone
      BY <2>1, <2>5 DEF Unlocks, RefundPolicy
    <3>2. Ends(e) = TheExchange!Returned(l)
      BY <2>1, <2>5, <3>1 DEF Ends, TheExchange!Returned
    <3>3. TheExchange!TakeBack(l)
      BY <1>1, <2>2, <2>3, <3>2 DEF TheExchange!TakeBack, Told
    <3> QED
      BY <2>1, <3>3 DEF TheExchange!Next
  <2> QED
    BY <2>1, <2>4, <2>5 DEF Unlocks
<1> QED
  BY <1>2, <1>3

\* Every step is a step of the exchange or none of it.
LEMMA StepMapped == IInv /\ [Next]_vars => [TheExchange!Next]_(TheExchange!vars)
<1> SUFFICES ASSUME IInv, [Next]_vars
             PROVE  TheExchange!Next \/ (UNCHANGED <<made, spent>> /\ Told' = Told)
  BY DEF TheExchange!vars, Told
<1>1. ASSUME UNCHANGED <<made, spent>>,
             Told' = Told \/ \E s \in spent : Told' = Told \cup {[id |-> s.id, how |-> s.how]}
      PROVE  TheExchange!Next \/ (UNCHANGED <<made, spent>> /\ Told' = Told)
  <2>1. ASSUME NEW s \in spent, Told' = Told \cup {[id |-> s.id, how |-> s.how]}
        PROVE  TheExchange!Tell(s)
    BY <1>1, <2>1 DEF TheExchange!Tell, Told
  <2> QED
    BY <1>1, <2>1 DEF TheExchange!Next
<1>2. CASE UNCHANGED <<made, spent, records>>
  BY <1>2 DEF Told
<1>3. ASSUME NEW r \in Reqs, Accept(r) PROVE TheExchange!Next
  <2>1. req[r].entry \in Entries /\ EntryOK(req[r].entry)
    BY <1>3, AcceptedForm
  <2> QED
    BY <1>3, <2>1, OnChainMapped DEF Accept, files, EntryOK
<1>4. ASSUME NEW l \in made, ClaimElsewhere(l) PROVE TheExchange!Next
  <2>1. PICK w \in Wallets, paid \in Wallets : OnChain(Entry("claim", w, l.id, w, paid, {}, FALSE, 0))
    BY <1>4 DEF ClaimElsewhere
  <2> DEFINE e == Entry("claim", w, l.id, w, paid, {}, FALSE, 0)
  <2>2. OnChain(e) /\ e \in Entries /\ e.taker = w /\ e.op = "claim"
    <3>1. l.id \in 0..MaxTx
      BY AtomicSwapAssumption DEF IInv, ChainOK, Locks, Txs
    <3> QED
      BY <2>1, <3>1, AtomicSwapAssumption DEF Entry, Entries
  <2> HIDE DEF e
  <2> QED
    BY <1>4, <2>2, OnChainMapped DEF ClaimElsewhere, files
<1>5. ASSUME NEW r \in Reqs, Record(r)
      PROVE  UNCHANGED <<made, spent>> /\ (Told' = Told \/ \E s \in spent : Told' = Told \cup {[id |-> s.id, how |-> s.how]})
  BY <1>5, RecordedMapped DEF Record, chain
<1>6. ASSUME Stop
      PROVE  UNCHANGED <<made, spent>> /\ (Told' = Told \/ \E s \in spent : Told' = Told \cup {[id |-> s.id, how |-> s.how]})
  <2>1. UNCHANGED <<made, spent>>
    BY <1>6 DEF Stop, chain
  <2>2. CASE UNCHANGED files
    BY <2>1, <2>2 DEF files, Told
  <2>3. ASSUME NEW r \in Reqs, NEW n \in 1..2, Recorded(r, n)
        PROVE  Told' = Told \/ \E s \in spent : Told' = Told \cup {[id |-> s.id, how |-> s.how]}
    <3>1. n \in 1..3
      OBVIOUS
    <3> QED
      BY <2>1, <2>3, <3>1, RecordedMapped
  <2> QED
    BY <1>6, <2>1, <2>2, <2>3 DEF Stop
<1>7. ASSUME NEW r \in Reqs, Finalize(r)
      PROVE  UNCHANGED <<made, spent>> /\ (Told' = Told \/ \E s \in spent : Told' = Told \cup {[id |-> s.id, how |-> s.how]})
  BY <1>7, FinalizeMapped DEF Finalize, chain
<1>8. CASE UNCHANGED vars
  BY <1>2, <1>8 DEF vars
<1>9. CASE Builds
  BY <1>2, <1>9 DEF Builds, BuildOpenLock, BuildDirectLock, BuildOpenClaim, BuildDirectClaim,
     BuildOpenRefund, BuildDirectRefund, Cached, chain, files
<1>10. ASSUME NEW r \in Reqs, NEW e \in cache,
             \/ SubmitOpenLock(r, e) \/ SubmitDirectLock(r, e)
             \/ SubmitOpenClaim(r, e) \/ SubmitDirectClaim(r, e)
             \/ SubmitOpenRefund(r, e) \/ SubmitDirectRefund(r, e)
       PROVE  UNCHANGED <<made, spent, records>>
  BY <1>10 DEF SubmitOpenLock, SubmitDirectLock, SubmitOpenClaim, SubmitDirectClaim,
     SubmitOpenRefund, SubmitDirectRefund, Submitted, chain, files
<1>11. ASSUME NEW r \in Reqs, Refused(r) \/ Repair(r) PROVE UNCHANGED <<made, spent, records>>
  BY <1>11 DEF Refused, Repair, chain, files
<1>12. ASSUME NEW r \in Reqs, NEW w \in Wallets, StartFinalize(r, w) \/ StartRepair(r, w)
       PROVE  UNCHANGED <<made, spent, records>>
  BY <1>12 DEF StartFinalize, StartRepair, chain, files
<1>13. CASE \/ \E e \in cache : Expire(e)
            \/ \E tx \in Txs : RunOut(tx)
            \/ \E tx \in pays : SpendPayment(tx)
  BY <1>2, <1>13 DEF Expire, RunOut, SpendPayment, chain, files
<1>14. CASE \E r \in Reqs :
             \/ \E e \in cache :
                \/ SubmitOpenLock(r, e) \/ SubmitDirectLock(r, e)
                \/ SubmitOpenClaim(r, e) \/ SubmitDirectClaim(r, e)
                \/ SubmitOpenRefund(r, e) \/ SubmitDirectRefund(r, e)
             \/ Refused(r) \/ Accept(r) \/ Record(r) \/ Finalize(r) \/ Repair(r)
             \/ \E w \in Wallets : StartFinalize(r, w) \/ StartRepair(r, w)
  BY <1>1, <1>2, <1>3, <1>5, <1>7, <1>10, <1>11, <1>12, <1>14
<1> QED
  BY <1>1, <1>4, <1>6, <1>8, <1>9, <1>13, <1>14 DEF Next

\* The swaps implement module Exchange: whoever builds and sends a release,
\* and in whatever order, the maker is paid in the step that gives the tokens
\* away, or has them back; and no record is ahead of the chain.
THEOREM SwapsAreExchanges == Spec => IsAnExchange
<1>1. Init => TheExchange!Init
  BY AtomicSwapAssumption DEF Init, TheExchange!Init, TheExchange!Deals, Txs
<1> QED
  BY <1>1, StepMapped, Invariance, PTL DEF Spec, IsAnExchange, TheExchange!Spec

=============================================================================
