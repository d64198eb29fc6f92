------------------------------ MODULE OpenSwap ------------------------------
(***************************************************************************)
(* Open swaps: routes/swap_mode_open_v2.ts (a maker lists tokens and takes *)
(* them back), routes/open_swap_send.ts (a taker buys them),               *)
(* storage/openSwapOffersStore.ts, and the entitlement sale that a fill    *)
(* records in storage/entitlementTokenStore.ts.                            *)
(*                                                                         *)
(* The listed tokens sit on one output of the chain.  Whoever spends it    *)
(* first, the maker by a cancel or a taker by a finalize, has them; the    *)
(* store only says what happened.  A handler runs without interruption     *)
(* between two awaits, so one action below is the code between two awaits. *)
(*                                                                         *)
(* An offer stands for its preparation, its terms and its output: offerId  *)
(* is a hash of them.  Transactions, fees and the checks of their shape    *)
(* only refuse a request, and are left out.                                *)
(***************************************************************************)
EXTENDS RequestTable, Naturals

CONSTANTS
    Offers,        \* bound: offers ever prepared
    Takers,        \* user ids that buy
    Rids,          \* bound: cancelRids and finalizeRids alive together
    PrepTTL,       \* of openSwapOfferPrepCache and openSwapCancelPrepCache
    FinalizeTTL,   \* OPEN_SWAP_FINALIZE_CACHE_TTL_MS
    MaxTime,       \* bound: the clock
    MaxFaults      \* bound: lost answers and restarts

ASSUME OpenSwapAssumption ==
    /\ PrepTTL \in Nat /\ FinalizeTTL \in Nat /\ MaxTime \in Nat /\ MaxFaults \in Nat
    /\ Takers \cap {"unlisted", "committed", "listed", "cancelled", "maker", "nobody"} = {}

VARIABLES
    now,      \* Date.now()
    terms,    \* of each prepared offer, as its blob says
    prep,     \* openSwapOfferPrepCache
    chain,    \* the offer's output on chain, and who spent it
    offers,   \* the offer file
    rids,     \* openSwapCancelPrepCache and openSwapFinalizeCache
    seller,   \* the entitlement rule sells for this address
    sales,    \* the sales of the entitlement file
    lost,     \* history: offers hit by a lost answer or a restart
    faults

openVars == <<now, terms, prep, chain, offers, rids, req, seller, sales, lost, faults>>

NoExpiry == MaxTime + 1        \* a good-till-cancelled offer, ttl 0
Times == 0..NoExpiry
\* compliance: the broker holds the maker's wallet ("BCW")
Terms == [expiresAt: Times, walletType: {"standard", "compliance"}]
Unprepared == [expiresAt |-> 0, walletType |-> "none"]
NoPrep == [stage |-> "none"]
NoRecord == [state |-> "none", failed |-> FALSE]
NoRid == [by |-> "nobody"]
Unlisted == "unlisted"
Sellers == {"maker", "another"}
States == {"open", "filled", "expired", "cancelled"}
\* failed: the draft has a cancelFailureReason
Record == [state: States, expiresAt: Times, failed: BOOLEAN]
Prep == [stage: {"prepared", "committed", "send_prepared"}, createdAt: Times]
Rid == [offer: Offers, by: Takers \cup {"maker"}, createdAt: Times]
OpenHandlers ==
    {Idle}
    \cup [pc: {"commit_submit", "p2sh_wait", "send_submit", "listed"}, offer: Offers]
    \cup [pc: {"cancel_prepare"}, offer: Offers, snapshot: Record]
    \cup [pc: {"cancel_submit", "cancelled"}, offer: Offers, snapshot: Record, rid: Rids]
    \cup [pc: {"finalize_submit", "filled"}, offer: Offers, by: Takers, rid: Rids]

OpenTypeOK ==
    /\ now \in 0..MaxTime
    /\ terms \in [Offers -> Terms \cup {Unprepared}]
    /\ prep \in [Offers -> Prep \cup {NoPrep}]
    /\ chain \in [Offers -> {Unlisted, "committed", "listed", "cancelled"} \cup Takers]
    /\ offers \in [Offers -> Record \cup {NoRecord}]
    /\ rids \in [Rids -> Rid \cup {NoRid}]
    /\ req \in [Reqs -> OpenHandlers]
    /\ seller \in Sellers
    /\ sales \subseteq [offer: Offers, user: Takers]
    /\ lost \subseteq Offers
    /\ faults \in 0..MaxFaults

OpenInit ==
    /\ now = 0 /\ faults = 0
    /\ terms = [o \in Offers |-> Unprepared]
    /\ prep = [o \in Offers |-> NoPrep]
    /\ chain = [o \in Offers |-> Unlisted]
    /\ offers = [o \in Offers |-> NoRecord]
    /\ rids = [i \in Rids |-> NoRid]
    /\ req = [r \in Reqs |-> Idle]
    /\ seller \in Sellers
    /\ sales = {} /\ lost = {}

(***************************************************************************)
(* The offer file.                                                         *)
(***************************************************************************)
\* normalizeExpiredState, before every read and write of the file
Normalized ==
    [o \in Offers |->
        IF offers[o].state = "open" /\ offers[o].expiresAt <= now
        THEN [offers[o] EXCEPT !.state = "expired"]
        ELSE offers[o]]

Upsert(o, record) == offers' = [Normalized EXCEPT ![o] = record]

(***************************************************************************)
(* POST open-swaps/offer: the maker lists tokens.                          *)
(***************************************************************************)
\* sweepOpenSwapOfferPrepCache, at every request
Swept ==
    [o \in Offers |-> IF prep[o] # NoPrep /\ now > prep[o].createdAt + PrepTTL
                      THEN NoPrep ELSE prep[o]]

\* A request of any user that is refused further on has swept all the same.
RefusedRequest ==
    /\ prep' = Swept
    /\ UNCHANGED <<now, terms, chain, offers, rids, req, seller, sales, lost, faults>>

\* A broker wallet gets an intent, which the server does not keep.
PrepareOffer(o) ==
    /\ terms[o] = Unprepared
    /\ \E t \in Terms :
          /\ t.expiresAt > now
          /\ terms' = [terms EXCEPT ![o] = t]
          /\ prep' = IF t.walletType = "compliance" THEN Swept
                     ELSE [Swept EXCEPT ![o] = [stage |-> "prepared", createdAt |-> now]]
    /\ UNCHANGED <<now, chain, offers, rids, req, seller, sales, lost, faults>>

CommitSubmit(r, o) ==
    /\ req[r] = Idle /\ Swept[o] # NoPrep
    /\ Become(r, [pc |-> "commit_submit", offer |-> o])
    /\ prep' = Swept
    /\ UNCHANGED <<now, terms, chain, offers, rids, seller, sales, lost, faults>>

CommitAccepted(r) ==
    /\ req[r].pc = "commit_submit" /\ chain[req[r].offer] = Unlisted
    /\ chain' = [chain EXCEPT ![req[r].offer] = "committed"]
    /\ Become(r, [pc |-> "p2sh_wait", offer |-> req[r].offer])
    /\ UNCHANGED <<now, terms, prep, offers, rids, seller, sales, lost, faults>>

\* The commit is on chain and the reveal is built.  The handler holds the
\* cache entry by reference: a swept one is updated and stays swept.
CommitSeen(r) ==
    /\ req[r].pc = "p2sh_wait"
    /\ prep' = [o \in Offers |-> IF o = req[r].offer /\ prep[o] # NoPrep
                                 THEN [prep[o] EXCEPT !.stage = "committed"] ELSE prep[o]]
    /\ Become(r, Idle)
    /\ UNCHANGED <<now, terms, chain, offers, rids, seller, sales, lost, faults>>

\* stage reveal_submit builds and signs the send; nothing goes to the chain
RevealSubmit(o) ==
    /\ Swept[o] # NoPrep /\ Swept[o].stage # "prepared"
    /\ prep' = [Swept EXCEPT ![o].stage = "send_prepared"]
    /\ UNCHANGED <<now, terms, chain, offers, rids, req, seller, sales, lost, faults>>

OfBroker(o) == terms[o].walletType = "compliance"

\* stage send_submit, or bcw_maker_submit with the intent of a broker wallet
SendSubmit(r, o) ==
    /\ req[r] = Idle
    /\ OfBroker(o) \/ Swept[o].stage = "send_prepared"
    /\ Become(r, [pc |-> "send_submit", offer |-> o])
    /\ prep' = Swept
    /\ UNCHANGED <<now, terms, chain, offers, rids, seller, sales, lost, faults>>

SendAccepted(r) ==
    /\ req[r].pc = "send_submit"
    /\ chain[req[r].offer] = IF OfBroker(req[r].offer) THEN Unlisted ELSE "committed"
    /\ chain' = [chain EXCEPT ![req[r].offer] = "listed"]
    /\ Become(r, [pc |-> "listed", offer |-> req[r].offer])
    /\ UNCHANGED <<now, terms, prep, offers, rids, seller, sales, lost, faults>>

NewRecord(o) == [state |-> "open", expiresAt |-> terms[o].expiresAt, failed |-> FALSE]

RecordOffer(r) ==
    /\ req[r].pc = "listed"
    /\ Upsert(req[r].offer, NewRecord(req[r].offer))
    /\ prep' = [prep EXCEPT ![req[r].offer] = NoPrep]
    /\ Become(r, Idle)
    /\ UNCHANGED <<now, terms, chain, rids, seller, sales, lost, faults>>

(***************************************************************************)
(* POST open-swaps/offer/expire: the maker takes the tokens back.  The     *)
(* record is read once, before the first await, and every later write of   *)
(* the handler is that snapshot with some fields changed.                  *)
(***************************************************************************)
Cancelable(o) == Normalized[o].state \in {"open", "expired"}

\* sweepOpenSwapCancelPrepCache
SweptCancels ==
    [i \in Rids |-> IF rids[i].by = "maker" /\ now > rids[i].createdAt + PrepTTL
                    THEN NoRid ELSE rids[i]]

\* The sweep waits for the connection to the node; that wait is left out.
StartCancelPrepare(r, o) ==
    /\ req[r] = Idle /\ Cancelable(o)
    /\ offers' = Normalized
    /\ rids' = SweptCancels
    /\ Become(r, [pc |-> "cancel_prepare", offer |-> o, snapshot |-> Normalized[o]])
    /\ UNCHANGED <<now, terms, prep, chain, seller, sales, lost, faults>>

CancelPrepared(r) ==
    /\ req[r].pc = "cancel_prepare" /\ chain[req[r].offer] = "listed"
    /\ \E i \in Rids :
          /\ rids[i] = NoRid
          /\ rids' = [rids EXCEPT ![i] =
                        [offer |-> req[r].offer, by |-> "maker", createdAt |-> now]]
    /\ Become(r, Idle)
    /\ UNCHANGED <<now, terms, prep, chain, offers, seller, sales, lost, faults>>

StartCancelSubmit(r, i) ==
    /\ req[r] = Idle /\ rids[i].by = "maker" /\ Cancelable(rids[i].offer)
    /\ offers' = Normalized
    /\ Become(r, [pc |-> "cancel_submit", offer |-> rids[i].offer, rid |-> i,
                  snapshot |-> Normalized[rids[i].offer]])
    /\ UNCHANGED <<now, terms, prep, chain, rids, seller, sales, lost, faults>>

CancelAccepted(r) ==
    /\ req[r].pc = "cancel_submit" /\ chain[req[r].offer] = "listed"
    /\ chain' = [chain EXCEPT ![req[r].offer] = "cancelled"]
    /\ req' = [req EXCEPT ![r].pc = "cancelled"]
    /\ UNCHANGED <<now, terms, prep, offers, rids, seller, sales, lost, faults>>

\* mutant: recorded before the node answers
RecordCancelEarly(r) ==
    /\ req[r].pc \in {"cancel_submit", "cancelled"}
    /\ Upsert(req[r].offer, [req[r].snapshot EXCEPT !.state = "cancelled", !.expiresAt = now])
    /\ rids' = [rids EXCEPT ![req[r].rid] = NoRid]
    /\ Become(r, Idle)
    /\ UNCHANGED <<now, terms, prep, chain, seller, sales, lost, faults>>

RecordCancel(r) ==
    /\ req[r].pc = "cancelled"
    /\ Upsert(req[r].offer, [req[r].snapshot EXCEPT !.state = "cancelled", !.expiresAt = now])
    /\ rids' = [rids EXCEPT ![req[r].rid] = NoRid]
    /\ Become(r, Idle)
    /\ UNCHANGED <<now, terms, prep, chain, seller, sales, lost, faults>>

\* mutant: the failure is not marked in the draft
CancelFailureSilent(r, o) == Upsert(o, req[r].snapshot)

\* markCancelFailure writes the snapshot back, state and all.
MarkCancelFailure(r, o) == Upsert(o, [req[r].snapshot EXCEPT !.failed = TRUE])

\* The output is gone, the node refuses, or a call to it fails.
CancelFails(r) ==
    /\ req[r].pc \in {"cancel_prepare", "cancel_submit"}
    /\ MarkCancelFailure(r, req[r].offer)
    /\ Become(r, Idle)
    /\ UNCHANGED <<now, terms, prep, chain, rids, seller, sales, lost, faults>>

(***************************************************************************)
(* POST open-swaps/finalize: a taker buys.  The taker brings the blob; the *)
(* store is not asked before the purchase is made.                         *)
(***************************************************************************)
FinalizePrepare(taker, o) ==
    /\ offers[o] # NoRecord /\ terms[o].expiresAt > now
    /\ chain[o] = "listed"
    /\ \E i \in Rids :
          /\ rids[i] = NoRid
          /\ rids' = [rids EXCEPT ![i] = [offer |-> o, by |-> taker, createdAt |-> now]]
    /\ UNCHANGED <<now, terms, prep, chain, offers, req, seller, sales, lost, faults>>

\* An old entry is deleted; a live one is used whatever became of the offer.
FinalizeSubmit(r, i) ==
    /\ req[r] = Idle /\ rids[i].by \in Takers
    /\ IF now > rids[i].createdAt + FinalizeTTL
       THEN rids' = [rids EXCEPT ![i] = NoRid] /\ UNCHANGED req
       ELSE /\ Become(r, [pc |-> "finalize_submit", offer |-> rids[i].offer,
                          by |-> rids[i].by, rid |-> i])
            /\ UNCHANGED rids
    /\ UNCHANGED <<now, terms, prep, chain, offers, seller, sales, lost, faults>>

FinalizeAccepted(r) ==
    /\ req[r].pc = "finalize_submit" /\ chain[req[r].offer] = "listed"
    /\ chain' = [chain EXCEPT ![req[r].offer] = req[r].by]
    /\ req' = [req EXCEPT ![r].pc = "filled"]
    /\ UNCHANGED <<now, terms, prep, offers, rids, seller, sales, lost, faults>>

\* recordEntitlementTokenSaleFromMakerFillReceipt, for the rule's seller
Sold(o, taker) == IF seller = "maker" THEN sales \cup {[offer |-> o, user |-> taker]} ELSE sales

\* mutant: the offer is filled again whatever its state
RecordFillUnasked(r) ==
    /\ req[r].pc \in {"finalize_submit", "filled"}
    /\ LET o == req[r].offer IN
       /\ Upsert(o, [Normalized[o] EXCEPT !.state = "filled"])
       /\ sales' = Sold(o, req[r].by)
    /\ rids' = [rids EXCEPT ![req[r].rid] = NoRid]
    /\ Become(r, Idle)
    /\ UNCHANGED <<now, terms, prep, chain, seller, lost, faults>>

\* Only an offer that the store still shows as open is filled and sold.
RecordFill(r) ==
    /\ req[r].pc = "filled"
    /\ LET o == req[r].offer IN
       IF Normalized[o].state = "open"
       THEN /\ Upsert(o, [Normalized[o] EXCEPT !.state = "filled"])
            /\ sales' = Sold(o, req[r].by)
       ELSE offers' = Normalized /\ UNCHANGED sales
    /\ rids' = [rids EXCEPT ![req[r].rid] = NoRid]
    /\ Become(r, Idle)
    /\ UNCHANGED <<now, terms, prep, chain, seller, lost, faults>>

(***************************************************************************)
(* Everything else.                                                        *)
(***************************************************************************)

\* A commit, a send or a finalize is refused by the node, or the commit does
\* not show within two minutes.
Refused(r) ==
    /\ req[r].pc \in {"commit_submit", "p2sh_wait", "send_submit", "finalize_submit"}
    /\ Become(r, Idle)
    /\ UNCHANGED <<now, terms, prep, chain, offers, rids, seller, sales, lost, faults>>

\* open-swaps/list and open-swaps/mine
ListOffers ==
    /\ offers' = Normalized
    /\ UNCHANGED <<now, terms, prep, chain, rids, req, seller, sales, lost, faults>>

\* admin rule/upsert: the file keeps the sales of the rule's seller only
UpsertRule(address) ==
    /\ seller' = address
    /\ sales' = IF address = "maker" THEN sales ELSE {}
    /\ UNCHANGED <<now, terms, prep, chain, offers, rids, req, lost, faults>>

Tick ==
    /\ now < MaxTime
    /\ now' = now + 1
    /\ UNCHANGED <<terms, prep, chain, offers, rids, req, seller, sales, lost, faults>>

\* The node's answer is lost: an error to the handler.
ReplyLost(r) ==
    /\ req[r].pc \in {"listed", "cancelled", "filled"} /\ faults < MaxFaults
    /\ faults' = faults + 1
    /\ lost' = lost \cup {req[r].offer}
    /\ IF req[r].pc = "cancelled" THEN MarkCancelFailure(r, req[r].offer) ELSE UNCHANGED offers
    /\ Become(r, Idle)
    /\ UNCHANGED <<now, terms, prep, chain, rids, seller, sales>>

\* The process restarts: the files stay, caches and handlers do not.
Restart ==
    /\ faults < MaxFaults
    /\ faults' = faults + 1
    /\ lost' = lost \cup {o \in Offers : \E r \in Reqs : req[r] # Idle /\ req[r].offer = o}
    /\ prep' = [o \in Offers |-> NoPrep]
    /\ rids' = [i \in Rids |-> NoRid]
    /\ req' = [r \in Reqs |-> Idle]
    /\ UNCHANGED <<now, terms, chain, offers, seller, sales>>

\* The steps of one handler after an await.
Answered(r) ==
    \/ CommitAccepted(r) \/ CommitSeen(r) \/ SendAccepted(r) \/ RecordOffer(r)
    \/ CancelPrepared(r) \/ CancelAccepted(r) \/ RecordCancel(r) \/ CancelFails(r)
    \/ FinalizeAccepted(r) \/ RecordFill(r) \/ Refused(r)

OpenNext ==
    \/ \E o \in Offers :
          \/ PrepareOffer(o) \/ RevealSubmit(o)
          \/ \E taker \in Takers : FinalizePrepare(taker, o)
          \/ \E r \in Reqs : CommitSubmit(r, o) \/ SendSubmit(r, o) \/ StartCancelPrepare(r, o)
    \/ \E r \in Reqs, i \in Rids : StartCancelSubmit(r, i) \/ FinalizeSubmit(r, i)
    \/ \E r \in Reqs : Answered(r) \/ ReplyLost(r)
    \/ RefusedRequest \/ ListOffers \/ Tick \/ Restart
    \/ \E address \in Sellers : UpsertRule(address)

OpenSpec == OpenInit /\ [][OpenNext]_openVars

(***************************************************************************)
(* Properties.                                                             *)
(***************************************************************************)

Recording(o, pc) == \E r \in Reqs : req[r].pc = pc /\ req[r].offer = o

(* What the store says became of an offer is what became of it on chain:   *)
(* filled by a taker, cancelled by its maker.  Takers and maker race, and  *)
(* only one of them has the tokens.                                        *)
RecordIsTrue ==
    \A o \in Offers :
        /\ offers[o].state = "filled" => chain[o] \in Takers
        /\ offers[o].state = "cancelled" => chain[o] = "cancelled"

(* An offer shown as open and not past its time has its tokens, but for    *)
(* the moment before the store is told, for lost answers, and for a failed *)
(* cancel, whose mark it then carries.  And listed tokens are in the       *)
(* store, where their maker can cancel the offer, also if the preparation  *)
(* is swept while the listing is on its way.                               *)
OffersMatchListings ==
    \A o \in Offers \ lost :
        /\ offers[o].state = "open" /\ offers[o].expiresAt > now /\ ~offers[o].failed
           => chain[o] = "listed" \/ Recording(o, "filled") \/ Recording(o, "cancelled")
        /\ chain[o] \notin {Unlisted, "committed"} =>
              offers[o] # NoRecord \/ Recording(o, "listed")

(* The entitlement file books a sale only to the user who took the tokens, *)
(* however many finalize the same offer, and never for a cancelled one.    *)
SaleWasMade == \A s \in sales : chain[s.offer] = s.user

=============================================================================
