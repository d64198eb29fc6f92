----------------------------- MODULE DirectSwap -----------------------------
(***************************************************************************)
(* Direct swaps of KRC-20 tokens for KAS (routes/swap_mode_direct.ts, the  *)
(* pskt mode of routes/wallet_send.ts, routes/swap_mode_open.ts).          *)
(* A maker commits tokens to the address of a script that names the taker, *)
(* and signs one input and one output: the commit, against the price.      *)
(* The taker adds coins, change and signatures, and sends it.              *)
(*                                                                         *)
(* A prepared offer lives in a cache of the process; listed offers in one  *)
(* file, which a fill reads when it begins and writes back when it ends.   *)
(* Amounts are in units in which MinChange is a small number.  The value   *)
(* of the commit itself goes from the maker to the maker and is left out.  *)
(***************************************************************************)
EXTENDS RequestTable, Integers, FiniteSets, Sequences, SequencesExt

CONSTANTS
    Wallets, Brokered, \* Brokered: the wallets whose key a broker keeps
    Trades, Prices, \* who sells to whom, and for how much
    Purses,       \* the coins a taker may have: amounts, largest first
    Fee,          \* what a transaction costs
    MinChange,    \* MIN_CHANGE_SOMPI
    MaxOffers,    \* bound: offers prepared
    MaxStops,     \* bound: replies lost and entries swept
    Anyone

ASSUME DirectSwapAssumption ==
    /\ Trades \subseteq Wallets \X Wallets /\ Brokered \subseteq Wallets
    /\ Prices \subseteq Nat /\ Purses \subseteq Seq(Nat)
    /\ Fee \in Nat /\ MinChange \in Nat \ {0}
    /\ MaxOffers \in Nat \ {0} /\ MaxStops \in Nat
    /\ Anyone \notin Wallets

VARIABLES
    prep,         \* swapOfferPrepCache
    commits, sold, \* the outputs at script addresses, and those that were spent
    coins,        \* the unspent outputs of each wallet
    offers,       \* offers.json
    notified,     \* makers told that an offer was filled
    deal,         \* what each taker's browser holds
    nextId, stops

vars == <<prep, commits, sold, coins, offers, notified, req, deal, nextId, stops>>
chain == <<commits, sold, coins>>
books == <<offers, notified>>

Ids == 1..MaxOffers
Terms == [id: Ids, maker: Wallets, taker: Wallets, price: Prices]
Offers == [id: Ids, maker: Wallets, taker: Wallets, price: Prices, commit: Ids,
           state: {"open", "expired", "filled"}]
Browsing == [pc |-> "browsing"]
Addition(a, b) == a + b
Total(s) == FoldLeft(Addition, 0, s)

TypeOK ==
    /\ prep \subseteq [terms: Terms, stage: {"prepared", "committed", "ready"}]
    /\ commits \subseteq [id: Ids, maker: Wallets, taker: Wallets]
    /\ sold \subseteq [id: Ids, price: Prices, to: Wallets, by: Wallets]
    /\ coins \in [Wallets -> Seq(Nat)]
    /\ offers \subseteq Offers /\ \A o, p \in offers : o.id = p.id => o = p
    /\ notified \subseteq Ids
    /\ nextId \in 1..(MaxOffers + 1) /\ stops \in 0..MaxStops
    /\ \A r \in Reqs : req[r].pc \in {"idle", "committing", "waiting", "listing", "brokered",
                                      "accepting", "finalizing", "sent", "settled"}
    /\ \A w \in Wallets : deal[w].pc \in {"browsing", "signing", "waiting"}

\* A server that has one offer on its list.
Init ==
    /\ prep = {} /\ sold = {} /\ notified = {}
    /\ \E t \in Trades, price \in Prices :
          /\ commits = {[id |-> 1, maker |-> t[1], taker |-> t[2]]}
          /\ offers = {[id |-> 1, maker |-> t[1], taker |-> t[2], price |-> price,
                        commit |-> 1, state |-> "open"]}
    /\ coins \in [Wallets -> Purses]
    /\ req = [r \in Reqs |-> Idle] /\ deal = [w \in Wallets |-> Browsing]
    /\ nextId = 2 /\ stops = 0

Hold(w, d) == deal' = [deal EXCEPT ![w] = d]
Live(c) == \A s \in sold : s.id # c.id
\* getUtxosByAddresses: the script names maker, token, amount and taker, not the price
AtAddress(maker, taker) == {c \in commits : c.maker = maker /\ c.taker = taker /\ Live(c)}

(***************************************************************************)
(* The maker: prepare, commit, list.                                       *)
(***************************************************************************)
Prepare(terms) ==
    /\ terms.id = nextId
    /\ nextId' = nextId + 1
    /\ prep' = prep \cup {[terms |-> terms, stage |-> "prepared"]}
    /\ UNCHANGED <<chain, books, req, deal, stops>>

\* sweepSwapOfferPrepCache, and a restart
Sweep(p) ==
    /\ stops < MaxStops /\ stops' = stops + 1
    /\ prep' = prep \ {p}
    /\ UNCHANGED <<chain, books, req, deal, nextId>>

\* The stage of the entry is not looked at: the signed transactions are sent again.
CommitSubmit(r, p) ==
    /\ req[r] = Idle
    /\ Become(r, [pc |-> "committing", terms |-> p.terms])
    /\ UNCHANGED <<prep, chain, books, deal, nextId, stops>>

Committed(terms) ==
    /\ \A c \in commits : c.id # terms.id
    /\ commits' = commits \cup {[id |-> terms.id, maker |-> terms.maker, taker |-> terms.taker]}
    /\ UNCHANGED <<sold, coins>>

Advanced(terms, stage) ==
    {p \in prep : p.terms # terms} \cup
    {[terms |-> terms, stage |-> stage] : p \in {x \in prep : x.terms = terms}}

CommitAccepted(r) ==
    /\ req[r].pc = "committing" /\ Committed(req[r].terms)
    /\ prep' = Advanced(req[r].terms, "committed")
    /\ Become(r, [req[r] EXCEPT !.pc = "waiting"])
    /\ UNCHANGED <<books, deal, nextId, stops>>

CommitReplyLost(r) ==
    /\ req[r].pc = "committing" /\ Committed(req[r].terms)
    /\ stops < MaxStops /\ stops' = stops + 1
    /\ Become(r, Idle)
    /\ UNCHANGED <<prep, books, deal, nextId>>

\* mutant: any output at the address will do
WantedAny(terms) == AtAddress(terms.maker, terms.taker)
\* "no fallbacks to random UTXOs"
Wanted(terms) == {c \in AtAddress(terms.maker, terms.taker) : c.id = terms.id}

\* The transaction to sign is kept, and the maker's browser signs it.
CommitSeen(r) ==
    /\ req[r].pc = "waiting" /\ Wanted(req[r].terms) # {}
    /\ prep' = Advanced(req[r].terms, "ready")
    /\ Become(r, Idle)
    /\ UNCHANGED <<chain, books, deal, nextId, stops>>

RevealSubmit(r, p) ==
    /\ req[r] = Idle /\ p.stage = "ready"
    /\ Become(r, [pc |-> "listing", terms |-> p.terms])
    /\ UNCHANGED <<prep, chain, books, deal, nextId, stops>>

Record(terms, c) ==
    [id |-> terms.id, maker |-> terms.maker, taker |-> terms.taker, price |-> terms.price,
     commit |-> c.id, state |-> "open"]

\* An offer that is already there is left as it is.
Listed(rec) == IF \E o \in offers : o.id = rec.id THEN offers ELSE offers \cup {rec}

List(r) ==
    /\ req[r].pc = "listing"
    /\ \E c \in Wanted(req[r].terms) : offers' = Listed(Record(req[r].terms, c))
    /\ Become(r, Idle)
    /\ UNCHANGED <<prep, chain, notified, deal, nextId, stops>>

\* The control node commits and signs for a broker-custody wallet.
BrokerSubmit(r, p) ==
    /\ req[r] = Idle /\ p.stage = "prepared" /\ Committed(p.terms)
    /\ Become(r, [pc |-> "brokered", terms |-> p.terms])
    /\ UNCHANGED <<prep, books, deal, nextId, stops>>

BrokerList(r) ==
    /\ req[r].pc = "brokered"
    /\ offers' = Listed(Record(req[r].terms, req[r].terms))
    /\ Become(r, Idle)
    /\ UNCHANGED <<prep, chain, notified, deal, nextId, stops>>

CommitRefused(r) ==
    /\ req[r].pc = "committing" /\ \E c \in commits : c.id = req[r].terms.id
    /\ Become(r, Idle)
    /\ UNCHANGED <<prep, chain, books, deal, nextId, stops>>

\* The wait for the output is over, or the process stops.
MakerGivenUp(r) ==
    /\ req[r].pc \in {"waiting", "listing", "brokered"}
    /\ stops < MaxStops /\ stops' = stops + 1
    /\ Become(r, Idle)
    /\ UNCHANGED <<prep, chain, books, deal, nextId>>

\* offer/expire: the record only; the commit and its signature are as before.
Withdraw(o) ==
    /\ o.state = "open"
    /\ offers' = (offers \ {o}) \cup {[o EXCEPT !.state = "expired"]}
    /\ UNCHANGED <<prep, chain, notified, req, deal, nextId, stops>>

(***************************************************************************)
(* The taker: preview, sign, send.                                         *)
(***************************************************************************)
\* offers/list and offers/accept: the active wallet is the one that is named.
\* They show no offer whose time has run out, and nothing else looks at the time.
Preview(w, o) ==
    /\ deal[w] = Browsing /\ o.state = "open" /\ o.taker = w
    /\ Hold(w, [pc |-> "signing", offer |-> o, signed |-> <<>>, change |-> 0, by |-> w])
    /\ UNCHANGED <<prep, chain, books, req, nextId, stops>>

\* The file is read; it is written when the fill is over.  The active wallet
\* may be another one by now.
WalletSend(r, w, active) ==
    /\ req[r] = Idle /\ deal[w].pc = "signing"
    /\ \E o \in offers : o.id = deal[w].offer.id /\ o.state = "open"
    /\ Hold(w, [deal[w] EXCEPT !.pc = "waiting"])
    /\ Become(r, [pc |-> "accepting", from |-> w, active |-> active, offer |-> deal[w].offer,
                  signed |-> deal[w].signed, change |-> deal[w].change, by |-> deal[w].by,
                  ins |-> <<>>, store |-> offers])
    /\ UNCHANGED <<prep, chain, books, nextId, stops>>

\* mutant: any wallet may accept
DirectedToAnyone(h) == TRUE
\* The script holds "to":"<the active address>".
Directed(h) == h.offer.taker = h.active

\* The only output at the address, or one of the offer's commits.
CommitFound(h) ==
    LET there == AtAddress(h.offer.maker, h.offer.taker)
    IN \/ Cardinality(there) = 1
       \/ \E c \in there : c.id = h.offer.commit

Accepting(r) == req[r].pc = "accepting" /\ Directed(req[r]) /\ CommitFound(req[r])
First(h, n) == SubSeq(coins[h.active], 1, n)
\* what the first n coins leave over price and fee
Left(h, n) == Total(First(h, n)) - h.offer.price - Fee

Answered(r, d) ==
    /\ Hold(req[r].from, d) /\ Become(r, Idle)
    /\ UNCHANGED <<prep, chain, books, nextId, stops>>

\* The attempts before the n-th had their signatures, and too few coins.
Reached(h, n) ==
    /\ n <= Len(coins[h.active])
    /\ \A k \in 1..(n - 1) : Len(h.signed) = k /\ Left(h, k) < 0

Asks(r, n, change) ==
    Answered(r, [pc |-> "signing", offer |-> req[r].offer, signed |-> First(req[r], n),
                 change |-> change, by |-> req[r].active])

\* The n-th attempt wants n signatures, and asks for them before it looks
\* whether n coins are enough.
AskSignatures(r, n) ==
    /\ Accepting(r) /\ req[r].active \notin Brokered
    /\ Reached(req[r], n) /\ Len(req[r].signed) # n
    /\ Asks(r, n, 0)

\* There is change, and with it another transaction to sign.
AskChangeSignatures(r, n) ==
    /\ Accepting(r) /\ req[r].active \notin Brokered
    /\ Reached(req[r], n) /\ Len(req[r].signed) = n
    /\ Left(req[r], n) >= MinChange /\ req[r].change = 0
    /\ Asks(r, n, Left(req[r], n))

\* A broker signs when all is known: there is one intent, and it has change.
AskBroker(r, n) ==
    /\ Accepting(r) /\ req[r].active \in Brokered /\ req[r].signed = <<>>
    /\ n <= Len(coins[req[r].active]) /\ \A k \in 1..(n - 1) : Left(req[r], k) < 0
    /\ Left(req[r], n) >= MinChange
    /\ Asks(r, n, Left(req[r], n))

Accepted(r, n, change) ==
    /\ Become(r, [req[r] EXCEPT !.pc = "finalizing", !.ins = First(req[r], n), !.change = change])
    /\ UNCHANGED <<prep, chain, books, deal, nextId, stops>>

\* Every attempt has an output of MinChange for the taker, this one too.
AcceptExact(r, n) ==
    /\ Accepting(r) /\ req[r].active \notin Brokered
    /\ Reached(req[r], n) /\ Len(req[r].signed) = n
    /\ Left(req[r], n) \in 0..(MinChange - 1)
    /\ Accepted(r, n, MinChange)

\* mutant: the fee is taken off twice
ChangeTwoFees(h, n) == Left(h, n) - Fee
Change(h, n) == Left(h, n)

AcceptWithChange(r, n) ==
    /\ Accepting(r) /\ req[r].active \notin Brokered
    /\ Reached(req[r], n) /\ Len(req[r].signed) = n
    /\ Left(req[r], n) >= MinChange /\ req[r].change # 0
    /\ Accepted(r, n, Change(req[r], n))

\* The cached transaction goes to the control node; nothing else is looked at.
AcceptBroker(r) ==
    /\ req[r].pc = "accepting" /\ req[r].active \in Brokered /\ req[r].signed # <<>>
    /\ req[r].by = req[r].active
    /\ Become(r, [req[r] EXCEPT !.pc = "finalizing", !.ins = req[r].signed])
    /\ UNCHANGED <<prep, chain, books, deal, nextId, stops>>

\* Another taker's offer, no output, no coins: the browser begins anew.  Also a stop.
TakerGivenUp(r) ==
    /\ req[r].pc \in {"accepting", "finalizing"}
    /\ Answered(r, Browsing)

(***************************************************************************)
(* The node.  The maker's signature holds for one commit and one price;    *)
(* the taker's for all coins and outputs.                                  *)
(***************************************************************************)
SignatureFits(h) == h.by = h.active /\ h.signed = h.ins /\ IsPrefix(h.ins, coins[h.active])
Funded(h) == Total(h.ins) >= h.offer.price + Fee + h.change
OfferIsLive(h) == \E c \in commits : c.id = h.offer.commit /\ Live(c)

Sale(h) == [id |-> h.offer.commit, price |-> h.offer.price, to |-> h.offer.taker, by |-> h.active]
\* The coins that are left, and the change among them.
Spent(h) ==
    LET left == SubSeq(coins[h.active], Len(h.ins) + 1, Len(coins[h.active]))
        larger == {i \in DOMAIN left : left[i] >= h.change}
    IN  InsertAt(left, Cardinality(larger) + 1, h.change)

\* Sent; the maker is not yet told, the file not yet written.
Finalize(r) ==
    /\ req[r].pc = "finalizing"
    /\ OfferIsLive(req[r]) /\ Funded(req[r]) /\ SignatureFits(req[r])
    /\ sold' = sold \cup {Sale(req[r])}
    /\ coins' = [coins EXCEPT ![req[r].active] = Spent(req[r])]
    /\ Become(r, [req[r] EXCEPT !.pc = "sent"])
    /\ UNCHANGED <<prep, commits, books, deal, nextId, stops>>

NotifyMaker(r) ==
    /\ req[r].pc = "sent"
    /\ notified' = notified \cup {req[r].offer.commit}
    /\ Become(r, [req[r] EXCEPT !.pc = "settled"])
    /\ UNCHANGED <<prep, chain, offers, deal, nextId, stops>>

\* mutant: the offer is marked when it is accepted
ReadyToMarkAccepted(h) == h.pc \in {"finalizing", "settled"}
ReadyToMark(h) == h.pc = "settled"

\* The file as it was when the fill began, with this offer filled.
MarkFilled(r) ==
    /\ ReadyToMark(req[r])
    /\ offers' = {IF o.id = req[r].offer.id THEN [o EXCEPT !.state = "filled"] ELSE o :
                     o \in req[r].store}
    /\ Hold(req[r].from, Browsing) /\ Become(r, Idle)
    /\ UNCHANGED <<prep, chain, notified, nextId, stops>>

\* The process stops after the transaction and before the file.
StopBeforeMark(r) ==
    /\ req[r].pc \in {"sent", "settled"}
    /\ stops < MaxStops /\ stops' = stops + 1
    /\ Hold(req[r].from, Browsing) /\ Become(r, Idle)
    /\ UNCHANGED <<prep, chain, books, nextId>>

Next ==
    \/ \E terms \in Terms : <<terms.maker, terms.taker>> \in Trades /\ Prepare(terms)
    \/ \E p \in prep :
          \/ Sweep(p)
          \/ \E r \in Reqs : CommitSubmit(r, p) \/ RevealSubmit(r, p) \/ BrokerSubmit(r, p)
    \/ \E r \in Reqs :
          \/ CommitAccepted(r) \/ CommitReplyLost(r) \/ CommitRefused(r) \/ CommitSeen(r)
          \/ List(r) \/ BrokerList(r) \/ MakerGivenUp(r)
          \/ \E w, active \in Wallets : WalletSend(r, w, active)
          \/ \E n \in 1..3 : AskSignatures(r, n) \/ AskChangeSignatures(r, n) \/ AskBroker(r, n)
                              \/ AcceptExact(r, n) \/ AcceptWithChange(r, n)
          \/ AcceptBroker(r) \/ TakerGivenUp(r) \/ Finalize(r)
          \/ NotifyMaker(r) \/ MarkFilled(r) \/ StopBeforeMark(r)
    \/ \E o \in offers : Withdraw(o) \/ \E w \in Wallets : Preview(w, o)

Spec == Init /\ [][Next]_vars

-----------------------------------------------------------------------------
TheExchange == INSTANCE Exchange WITH
    MaxDeals <- MaxOffers, deals <- commits,
    ended <- {[id |-> x[1].id, how |-> "claimed", paid |-> x[2].maker, to |-> x[1].by] :
                 x \in {y \in sold \X commits : y[1].id = y[2].id}},
    told <- {[id |-> i, how |-> "claimed"] : i \in notified}

\* Whatever the browsers and requests do, and whichever wallet is active when:
\* a committed offer is settled once, by the taker it names, and the maker is
\* not told of a fill before it happened.
IsAnExchange == TheExchange!Spec

\* An offer that is shown was committed, and no two stand on one commit, though
\* offers with the same terms have the same address.
EachListingItsCommit ==
    /\ \A o \in offers : \E c \in commits : c.id = o.commit /\ c.maker = o.maker /\ c.taker = o.taker
    /\ \A o, p \in offers : o.commit = p.commit => o = p

\* A record says "filled" only of an offer whose price was paid, though every
\* fill writes the whole file as it was before.
FilledWasSold ==
    \A o \in offers : o.state = "filled" =>
        \E s \in sold : s.id = o.commit /\ s.price = o.price /\ s.by = o.taker

\* A taker pays the price and one fee, and has the rest back.
SaleCostsItsPrice ==
    [][\A r \in Reqs : req[r].pc = "finalizing" /\ req'[r].pc = "sent" =>
          Total(coins[req[r].active]) - Total(coins'[req[r].active]) = req[r].offer.price + Fee]_vars

=============================================================================
