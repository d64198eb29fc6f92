---------------------------- MODULE SwapProofs ----------------------------
(***************************************************************************)
(* The direct swaps implement module Exchange, and their file of offers    *)
(* stays true of the chain, for any number of wallets, trades, prices,     *)
(* coins, requests and offers.                                             *)
(*                                                                         *)
(* None of this is inductive: a fill writes the whole file as it was when  *)
(* the fill began, with the offer that the taker's browser held, and a     *)
(* listing takes its terms from a request that may be older than both.     *)
(* They agree because a number has the terms it was prepared with, once    *)
(* and for all.  IInv says so with a book that gives the terms of every    *)
(* number: whatever any file, cache, request or browser holds under a      *)
(* number is what the book has there.  Only a new offer adds to the book.  *)
(* What a sale costs (MoneyOK) follows the coins through the rounds in     *)
(* which they are signed for, with what is known of sums.                  *)
(***************************************************************************)
EXTENDS DirectSwap, TLAPS, WellFoundedInduction, FiniteSetTheorems, SequenceTheorems

\* The terms that x carries are those of the book.
Fits(x, book) ==
    /\ x.id \in Ids /\ x.id < nextId
    /\ x.maker = book[x.id].maker /\ x.taker = book[x.id].taker /\ x.price = book[x.id].price

WasCommitted(id) == \E c \in commits : c.id = id
WasSold(o) == \E s \in sold : s.id = o.commit /\ s.price = o.price /\ s.by = o.taker

\* An offer as it stands in the file, in a fill's copy of it or in a browser.
OfferOK(o, book) ==
    /\ o \in Offers /\ Fits(o, book) /\ o.commit = o.id /\ WasCommitted(o.id)
    /\ o.state = "filled" => WasSold(o)

FileOK(file, book) ==
    /\ \A o \in file : OfferOK(o, book)
    /\ \A o, p \in file : o.id = p.id => o = p

Making == {"committing", "waiting", "listing", "brokered"}
Taking == {"accepting", "finalizing", "sent", "settled"}

MakerOK(h, book) ==
    /\ h = [pc |-> h.pc, terms |-> h.terms]
    /\ h.terms \in Terms /\ Fits(h.terms, book)
    /\ h.pc = "brokered" => WasCommitted(h.terms.id)

\* Whoever signed, it is the taker whom the offer names; what was sent was sold.
TakerOK(h, book) ==
    /\ h = [pc |-> h.pc, from |-> h.from, active |-> h.active, offer |-> h.offer,
            signed |-> h.signed, change |-> h.change, by |-> h.by, ins |-> h.ins, store |-> h.store]
    /\ h.active \in Wallets /\ OfferOK(h.offer, book) /\ h.by = h.offer.taker
    /\ FileOK(h.store, book)
    /\ h.pc \in {"sent", "settled"} => WasSold(h.offer)

HandlerOK(h, book) ==
    \/ h = Idle
    \/ h.pc \in Making /\ MakerOK(h, book)
    \/ h.pc \in Taking /\ TakerOK(h, book)

DealOK(d, book) ==
    \/ d = Browsing
    \/ /\ d.pc \in {"signing", "waiting"} /\ OfferOK(d.offer, book) /\ d.by = d.offer.taker
       /\ d = [pc |-> d.pc, offer |-> d.offer, signed |-> d.signed, change |-> d.change, by |-> d.by]

\* The chain: an output per number, with the book's parties, spent once, by its taker.
ChainOK(book) ==
    /\ commits \subseteq [id: Ids, maker: Wallets, taker: Wallets]
    /\ \A c \in commits : /\ c.id < nextId /\ c.maker = book[c.id].maker
                          /\ c.taker = book[c.id].taker
    /\ \A s \in sold : WasCommitted(s.id) /\ s.by = book[s.id].taker
    /\ \A s, t \in sold : s.id = t.id => s = t
    /\ \A i \in notified : \E s \in sold : s.id = i

PrepOK(book) ==
    \A p \in prep : p = [terms |-> p.terms, stage |-> p.stage] /\ p.terms \in Terms /\ Fits(p.terms, book)

ReqsOK(book) == req = [r \in Reqs |-> req[r]] /\ \A r \in Reqs : HandlerOK(req[r], book)
DealsOK(book) == deal = [w \in Wallets |-> deal[w]] /\ \A w \in Wallets : DealOK(deal[w], book)

BookOK(book) ==
    /\ nextId \in 1..(MaxOffers + 1)
    /\ ChainOK(book) /\ PrepOK(book) /\ FileOK(offers, book) /\ ReqsOK(book) /\ DealsOK(book)

IInv == \E book \in [Ids -> Terms] : BookOK(book)

\* What the chain and the makers know, as module Exchange sees it.
Deal(s, c) == [id |-> s.id, how |-> "claimed", paid |-> c.maker, to |-> s.by]
DealsOf(S, C) == {[id |-> x[1].id, how |-> "claimed", paid |-> x[2].maker, to |-> x[1].by] :
                     x \in {y \in S \X C : y[1].id = y[2].id}}
EndedDeals == DealsOf(sold, commits)
ToldDeals == {[id |-> i, how |-> "claimed"] : i \in notified}

-----------------------------------------------------------------------------
\* What is known stays known: the chain and the numbers only grow.
Grows ==
    /\ commits \subseteq commits' /\ sold \subseteq sold'
    /\ nextId \in Nat /\ nextId' \in Nat /\ nextId <= nextId'

LEMMA KnownStays ==
    ASSUME Grows, NEW book
    PROVE  /\ \A x : x.id \in Nat /\ Fits(x, book) => Fits(x, book)'
           /\ \A o : OfferOK(o, book) => OfferOK(o, book)'
           /\ \A f : FileOK(f, book) => FileOK(f, book)'
           /\ \A h : HandlerOK(h, book) => HandlerOK(h, book)'
           /\ \A d : DealOK(d, book) => DealOK(d, book)'
<1>1. ASSUME NEW x, x.id \in Ids, Fits(x, book) PROVE Fits(x, book)'
  BY <1>1, DirectSwapAssumption DEF Grows, Fits, Ids
<1>2. ASSUME NEW o, OfferOK(o, book) PROVE OfferOK(o, book)'
  <2>1. Fits(o, book)'
    BY <1>1, <1>2 DEF OfferOK, Offers
  <2> QED
    BY <1>2, <2>1 DEF Grows, OfferOK, WasCommitted, WasSold
<1>3. ASSUME NEW f, FileOK(f, book) PROVE FileOK(f, book)'
  BY <1>2, <1>3 DEF FileOK
<1>4. ASSUME NEW h, HandlerOK(h, book) PROVE HandlerOK(h, book)'
  <2>1. MakerOK(h, book) => MakerOK(h, book)'
    <3> SUFFICES ASSUME MakerOK(h, book) PROVE MakerOK(h, book)'
      OBVIOUS
    <3>1. Fits(h.terms, book)'
      BY <1>1 DEF MakerOK, Terms
    <3> QED
      BY <3>1 DEF Grows, MakerOK, WasCommitted
  <2>2. TakerOK(h, book) => TakerOK(h, book)'
    <3> SUFFICES ASSUME TakerOK(h, book) PROVE TakerOK(h, book)'
      OBVIOUS
    <3>1. OfferOK(h.offer, book)' /\ FileOK(h.store, book)'
      BY <1>2, <1>3 DEF TakerOK
    <3> QED
      BY <3>1 DEF Grows, TakerOK, WasSold
  <2> QED
    BY <1>4, <2>1, <2>2 DEF HandlerOK
<1>5. ASSUME NEW d, DealOK(d, book) PROVE DealOK(d, book)'
  BY <1>2, <1>5 DEF DealOK
<1> QED
  BY <1>1, <1>2, <1>3, <1>4, <1>5 DEF Fits

\* What a step leaves alone stays as it was, and one handler or browser that
\* is well-formed may take the place of another.
LEMMA Unmoved ==
    ASSUME NEW book, BookOK(book), Grows
    PROVE  /\ prep' \subseteq prep => PrepOK(book)'
           /\ UNCHANGED offers => FileOK(offers, book)'
           /\ UNCHANGED req => ReqsOK(book)'
           /\ UNCHANGED deal => DealsOK(book)'
           /\ UNCHANGED <<commits, sold, notified>> => ChainOK(book)'
<1>1. \A x : x.id \in Nat /\ Fits(x, book) => Fits(x, book)'
  BY KnownStays
<1>2. ASSUME prep' \subseteq prep PROVE PrepOK(book)'
  <2>1. \A t \in Terms : t.id \in Nat
    BY DEF Terms, Ids
  <2> QED
    BY <1>1, <1>2, <2>1 DEF BookOK, PrepOK
<1>3. ASSUME UNCHANGED offers PROVE FileOK(offers, book)'
  BY <1>3, KnownStays DEF BookOK
<1>4. ASSUME UNCHANGED req PROVE ReqsOK(book)'
  <2>1. \A h : HandlerOK(h, book) => HandlerOK(h, book)'
    BY KnownStays
  <2>2. ASSUME NEW r \in Reqs PROVE HandlerOK(req[r], book)'
    BY <1>4, <2>1 DEF BookOK, ReqsOK
  <2> QED
    BY <1>4, <2>2 DEF BookOK, ReqsOK
<1>5. ASSUME UNCHANGED deal PROVE DealsOK(book)'
  <2>1. \A d : DealOK(d, book) => DealOK(d, book)'
    BY KnownStays
  <2>2. ASSUME NEW w \in Wallets PROVE DealOK(deal[w], book)'
    BY <1>5, <2>1 DEF BookOK, DealsOK
  <2> QED
    BY <1>5, <2>2 DEF BookOK, DealsOK
<1>6. ASSUME UNCHANGED <<commits, sold, notified>> PROVE ChainOK(book)'
  BY <1>6 DEF BookOK, ChainOK, Grows, WasCommitted, Ids
<1> QED
  BY <1>2, <1>3, <1>4, <1>5, <1>6

LEMMA Becomes ==
    ASSUME NEW book, BookOK(book), Grows, NEW r \in Reqs, NEW h, Become(r, h), HandlerOK(h, book)'
    PROVE  ReqsOK(book)'
<1>1. \A x : HandlerOK(x, book) => HandlerOK(x, book)'
  BY KnownStays
<1>2. ASSUME NEW q \in Reqs PROVE HandlerOK(req[q], book)'
  <2>1. req'[q] = h \/ req'[q] = req[q]
    BY DEF Become, BookOK, ReqsOK
  <2> QED
    BY <1>1, <2>1 DEF BookOK, ReqsOK
<1>3. req' = [q \in Reqs |-> req'[q]]
  BY DEF Become, BookOK, ReqsOK
<1> QED
  BY <1>2, <1>3 DEF ReqsOK

LEMMA Holds ==
    ASSUME NEW book, BookOK(book), Grows, NEW w, NEW d, Hold(w, d), DealOK(d, book)'
    PROVE  DealsOK(book)'
<1>1. \A x : DealOK(x, book) => DealOK(x, book)'
  BY KnownStays
<1>2. ASSUME NEW q \in Wallets PROVE DealOK(deal[q], book)'
  <2>1. deal'[q] = d \/ deal'[q] = deal[q]
    BY DEF Hold, BookOK, DealsOK
  <2> QED
    BY <1>1, <2>1 DEF BookOK, DealsOK
<1>3. deal' = [q \in Wallets |-> deal'[q]]
  BY DEF Hold, BookOK, DealsOK
<1> QED
  BY <1>2, <1>3 DEF DealsOK

-----------------------------------------------------------------------------
\* The one step that writes in the book: nothing bears the new number yet.
LEMMA BookGrows ==
    ASSUME NEW book \in [Ids -> Terms], BookOK(book), NEW new \in [Ids -> Terms],
           \A id \in Ids : id < nextId => new[id] = book[id]
    PROVE  BookOK(new)
<1>1. \A x : Fits(x, book) => Fits(x, new)
  BY DEF Fits
<1>2. \A o : OfferOK(o, book) => OfferOK(o, new)
  BY <1>1 DEF OfferOK
<1>3. \A f : FileOK(f, book) => FileOK(f, new)
  BY <1>2 DEF FileOK
<1>4. \A h : HandlerOK(h, book) => HandlerOK(h, new)
  BY <1>1, <1>2, <1>3 DEF HandlerOK, MakerOK, TakerOK
<1>5. \A d : DealOK(d, book) => DealOK(d, new)
  BY <1>2 DEF DealOK
<1>6. ChainOK(new)
  BY DEF BookOK, ChainOK, WasCommitted
<1> QED
  BY <1>1, <1>3, <1>4, <1>5, <1>6 DEF BookOK, PrepOK, ReqsOK, DealsOK

LEMMA PrepareKept ==
    ASSUME IInv, NEW terms \in Terms, Prepare(terms)
    PROVE  IInv'
<1>1. PICK book \in [Ids -> Terms] : BookOK(book)
  BY DEF IInv
<1>2. PICK new : new = [book EXCEPT ![nextId] = terms]
  OBVIOUS
<1>3. nextId \in Ids /\ nextId \in Nat
  BY DEF Prepare, Terms, Ids
<1>4. new \in [Ids -> Terms] /\ new[nextId] = terms
  BY <1>2, <1>3
<1>5. BookOK(new)
  <2>1. \A id \in Ids : id < nextId => new[id] = book[id]
    BY <1>2, <1>3 DEF Ids
  <2> QED
    BY <1>1, <1>4, <2>1, BookGrows
<1>6. Grows /\ nextId' \in 1..(MaxOffers + 1) /\ UNCHANGED <<commits, sold, coins, offers, notified, req, deal>>
  BY <1>3, DirectSwapAssumption DEF Prepare, Grows, chain, books, Ids
<1>7. PrepOK(new)'
  <2> SUFFICES ASSUME NEW p \in prep'
               PROVE  /\ p = [terms |-> p.terms, stage |-> p.stage] /\ p.terms \in Terms
                      /\ Fits(p.terms, new)'
    BY DEF PrepOK
  <2>1. CASE p \in prep
    <3>1. /\ p = [terms |-> p.terms, stage |-> p.stage] /\ p.terms \in Terms
          /\ Fits(p.terms, new)
      BY <1>5, <2>1 DEF BookOK, PrepOK
    <3>2. p.terms.id \in Nat
      BY <3>1 DEF Terms, Ids
    <3> QED
      BY <1>6, <3>1, <3>2, KnownStays
  <2>2. CASE p = [terms |-> terms, stage |-> "prepared"]
    BY <1>3, <1>4, <2>2 DEF Prepare, Fits
  <2> QED
    BY <2>1, <2>2 DEF Prepare
<1>8. BookOK(new)'
  BY <1>5, <1>6, <1>7, Unmoved DEF BookOK
<1> QED
  BY <1>4, <1>8 DEF IInv

-----------------------------------------------------------------------------
\* The steps that the book does not notice: neither an output nor a number more.
LEMMA QuietStep ==
    ASSUME NEW book \in [Ids -> Terms], BookOK(book), UNCHANGED <<commits, sold, notified, nextId>>
    PROVE  /\ Grows /\ HandlerOK(Idle, book)' /\ DealOK(Browsing, book)'
           /\ (PrepOK(book)' /\ FileOK(offers, book)' /\ ReqsOK(book)' /\ DealsOK(book)') => IInv'
<1>1. Grows /\ nextId' \in 1..(MaxOffers + 1)
  BY DirectSwapAssumption DEF BookOK, Grows
<1>2. ChainOK(book)'
  BY <1>1, Unmoved
<1>3. HandlerOK(Idle, book)' /\ DealOK(Browsing, book)'
  BY DEF HandlerOK, DealOK
<1> QED
  BY <1>1, <1>2, <1>3 DEF BookOK, IInv

\* A handler of the maker: its terms are those of an entry of the cache.
LEMMA MakerStarts ==
    ASSUME NEW book, BookOK(book), Grows, NEW p \in prep, NEW pc \in Making,
           pc = "brokered" => WasCommitted(p.terms.id)'
    PROVE  HandlerOK([pc |-> pc, terms |-> p.terms], book)'
<1> DEFINE h == [pc |-> pc, terms |-> p.terms]
<1>1. h.pc = pc /\ h.terms = p.terms /\ h = [pc |-> h.pc, terms |-> h.terms]
  OBVIOUS
<1>2. p.terms \in Terms /\ p.terms.id \in Nat /\ Fits(p.terms, book)
  BY DEF BookOK, PrepOK, Terms, Ids
<1>3. Fits(p.terms, book)'
  BY <1>2, KnownStays
<1> HIDE DEF h
<1>4. MakerOK(h, book)'
  BY <1>1, <1>2, <1>3 DEF MakerOK
<1> QED
  BY <1>1, <1>4 DEF HandlerOK, h

\* What a handler of the maker knows.
LEMMA MakerKnows ==
    ASSUME NEW book, BookOK(book), NEW r \in Reqs, req[r].pc \in Making
    PROVE  MakerOK(req[r], book) /\ req[r].terms \in Terms /\ Fits(req[r].terms, book)
BY DEF BookOK, ReqsOK, HandlerOK, MakerOK, Making, Taking, Idle

LEMMA TakerKnows ==
    ASSUME NEW book, BookOK(book), NEW r \in Reqs, req[r].pc \in Taking
    PROVE  TakerOK(req[r], book) /\ OfferOK(req[r].offer, book) /\ FileOK(req[r].store, book)
BY DEF BookOK, ReqsOK, HandlerOK, TakerOK, Making, Taking, Idle

LEMMA SweepKept ==
    ASSUME IInv, NEW p \in prep, Sweep(p)
    PROVE  IInv'
<1>1. PICK book \in [Ids -> Terms] : BookOK(book)
  BY DEF IInv
<1>2. UNCHANGED <<commits, sold, notified, nextId, offers, req, deal>> /\ prep' \subseteq prep
  BY DEF Sweep, chain, books
<1> QED
  BY <1>1, <1>2, QuietStep, Unmoved

\* The stage of an entry is nothing that the book knows.
LEMMA AdvancedKept ==
    ASSUME NEW book, BookOK(book), Grows, NEW terms, NEW stage, prep' = Advanced(terms, stage)
    PROVE  PrepOK(book)'
<1> SUFFICES ASSUME NEW p \in prep'
             PROVE  /\ p = [terms |-> p.terms, stage |-> p.stage] /\ p.terms \in Terms
                    /\ Fits(p.terms, book)'
  BY DEF PrepOK
<1>1. ASSUME NEW x \in prep PROVE /\ x = [terms |-> x.terms, stage |-> x.stage] /\ x.terms \in Terms
                                  /\ Fits(x.terms, book)'
  <2>1. /\ x = [terms |-> x.terms, stage |-> x.stage] /\ x.terms \in Terms
        /\ Fits(x.terms, book) /\ x.terms.id \in Nat
    BY DEF BookOK, PrepOK, Terms, Ids
  <2> QED
    BY <2>1, KnownStays
<1>2. CASE p \in prep
  BY <1>1, <1>2
<1>3. CASE \E x \in prep : x.terms = terms /\ p = [terms |-> terms, stage |-> stage]
  BY <1>1, <1>3
<1> QED
  BY <1>2, <1>3 DEF Advanced

LEMMA MakerSubmitKept ==
    ASSUME IInv, NEW r \in Reqs, NEW p \in prep, CommitSubmit(r, p) \/ RevealSubmit(r, p)
    PROVE  IInv'
<1>1. PICK book \in [Ids -> Terms] : BookOK(book)
  BY DEF IInv
<1>2. /\ UNCHANGED <<prep, commits, sold, notified, nextId, offers, deal>>
      /\ \E pc \in {"committing", "listing"} : Become(r, [pc |-> pc, terms |-> p.terms])
  BY DEF CommitSubmit, RevealSubmit, chain, books
<1>3. PICK pc \in {"committing", "listing"} : Become(r, [pc |-> pc, terms |-> p.terms])
  BY <1>2
<1>4. Grows
  BY <1>1, <1>2, QuietStep
<1>5. HandlerOK([pc |-> pc, terms |-> p.terms], book)'
  BY <1>1, <1>4, MakerStarts DEF Making
<1>6. ReqsOK(book)'
  BY <1>1, <1>3, <1>4, <1>5, Becomes
<1> QED
  BY <1>1, <1>2, <1>4, <1>6, QuietStep, Unmoved

\* A handler ends, and nothing else but the cache may have changed.
LEMMA MakerEndsKept ==
    ASSUME IInv, NEW r \in Reqs, CommitRefused(r) \/ MakerGivenUp(r) \/ CommitSeen(r)
    PROVE  IInv'
<1>1. PICK book \in [Ids -> Terms] : BookOK(book)
  BY DEF IInv
<1>2. UNCHANGED <<commits, sold, notified, nextId, offers, deal>> /\ Become(r, Idle)
  BY DEF CommitRefused, MakerGivenUp, CommitSeen, chain, books
<1>3. Grows /\ HandlerOK(Idle, book)'
  BY <1>1, <1>2, QuietStep
<1>4. ReqsOK(book)' /\ FileOK(offers, book)' /\ DealsOK(book)'
  BY <1>1, <1>2, <1>3, Becomes, Unmoved
<1>5. PrepOK(book)'
  <2>1. CASE UNCHANGED prep
    BY <1>1, <1>3, <2>1, Unmoved
  <2>2. CASE prep' = Advanced(req[r].terms, "ready")
    BY <1>1, <1>3, <2>2, AdvancedKept
  <2> QED
    BY <2>1, <2>2 DEF CommitRefused, MakerGivenUp, CommitSeen
<1> QED
  BY <1>1, <1>2, <1>4, <1>5, QuietStep

\* An offer that is listed stands on the commit that has its number.
LEMMA ListedKept ==
    ASSUME NEW book, BookOK(book), Grows, NEW terms \in Terms, Fits(terms, book),
           NEW c, c.id = terms.id, WasCommitted(terms.id), offers' = Listed(Record(terms, c))
    PROVE  FileOK(offers, book)'
<1> DEFINE o == Record(terms, c)
<1>1. /\ o.id = terms.id /\ o.commit = terms.id /\ o.maker = terms.maker /\ o.taker = terms.taker
      /\ o.price = terms.price /\ o.state = "open" /\ o \in Offers
  BY DEF Record, Terms, Offers
<1>2. OfferOK(o, book)
  BY <1>1 DEF OfferOK, Fits
<1> HIDE DEF o
<1>3. FileOK(offers', book)
  BY <1>2 DEF Listed, BookOK, FileOK, o
<1> QED
  BY <1>3, KnownStays DEF FileOK

LEMMA ListKept ==
    ASSUME IInv, NEW r \in Reqs, List(r) \/ BrokerList(r)
    PROVE  IInv'
<1>1. PICK book \in [Ids -> Terms] : BookOK(book)
  BY DEF IInv
<1>2. UNCHANGED <<prep, commits, sold, notified, nextId, deal>> /\ Become(r, Idle)
  BY DEF List, BrokerList, chain
<1>3. Grows /\ HandlerOK(Idle, book)'
  BY <1>1, <1>2, QuietStep
<1>4. MakerOK(req[r], book) /\ req[r].terms \in Terms /\ Fits(req[r].terms, book)
  BY <1>1, MakerKnows DEF List, BrokerList, Making
<1>5. \E c : /\ c.id = req[r].terms.id /\ WasCommitted(req[r].terms.id)
             /\ offers' = Listed(Record(req[r].terms, c))
  <2>1. CASE List(r)
    BY <2>1 DEF List, Wanted, AtAddress, WasCommitted
  <2>2. CASE BrokerList(r)
    BY <1>4, <2>2 DEF BrokerList, MakerOK
  <2> QED
    BY <2>1, <2>2
<1>6. FileOK(offers, book)'
  BY <1>1, <1>3, <1>4, <1>5, ListedKept
<1>7. ReqsOK(book)'
  BY <1>1, <1>2, <1>3, Becomes
<1> QED
  BY <1>1, <1>2, <1>3, <1>6, <1>7, QuietStep, Unmoved

LEMMA WithdrawKept ==
    ASSUME IInv, NEW o \in offers, Withdraw(o)
    PROVE  IInv'
<1>1. PICK book \in [Ids -> Terms] : BookOK(book)
  BY DEF IInv
<1>2. UNCHANGED <<prep, commits, sold, notified, nextId, req, deal>>
  BY DEF Withdraw, chain
<1>3. Grows
  BY <1>1, <1>2, QuietStep
<1> DEFINE x == [o EXCEPT !.state = "expired"]
<1>4. FileOK(offers, book) /\ o \in Offers /\ OfferOK(o, book)
  BY <1>1 DEF BookOK, FileOK, OfferOK
<1>5. /\ x \in Offers /\ x.id = o.id /\ x.commit = o.commit /\ x.maker = o.maker /\ x.taker = o.taker
      /\ x.price = o.price /\ x.state = "expired"
  BY <1>4 DEF Offers
<1> HIDE DEF x
<1>6. OfferOK(x, book)
  BY <1>4, <1>5 DEF OfferOK, Fits
<1>7. offers' = (offers \ {o}) \cup {x}
  BY DEF Withdraw, x
<1>8. FileOK(offers', book)
  BY <1>4, <1>5, <1>6, <1>7 DEF FileOK
<1>9. FileOK(offers, book)'
  BY <1>3, <1>8, KnownStays DEF FileOK
<1> QED
  BY <1>1, <1>2, <1>3, <1>9, QuietStep, Unmoved

-----------------------------------------------------------------------------
\* The taker's steps.

LEMMA PreviewKept ==
    ASSUME IInv, NEW o \in offers, NEW w \in Wallets, Preview(w, o)
    PROVE  IInv'
<1>1. PICK book \in [Ids -> Terms] : BookOK(book)
  BY DEF IInv
<1>2. UNCHANGED <<prep, commits, sold, notified, nextId, offers, req>>
  BY DEF Preview, chain, books
<1>3. Grows
  BY <1>1, <1>2, QuietStep
<1> DEFINE d == [pc |-> "signing", offer |-> o, signed |-> <<>>, change |-> 0, by |-> w]
<1>4. /\ d = [pc |-> d.pc, offer |-> d.offer, signed |-> d.signed, change |-> d.change, by |-> d.by]
      /\ d.pc = "signing" /\ d.offer = o /\ d.by = o.taker
  BY DEF Preview
<1>5. Hold(w, d)
  BY DEF Preview
<1> HIDE DEF d
<1>6. DealOK(d, book)
  BY <1>1, <1>4 DEF BookOK, FileOK, DealOK
<1>7. DealOK(d, book)'
  BY <1>3, <1>6, KnownStays
<1>8. DealsOK(book)'
  BY <1>1, <1>3, <1>5, <1>7, Holds
<1> QED
  BY <1>1, <1>2, <1>3, <1>8, QuietStep, Unmoved

\* A fill begins with what the browser holds and the file holds.
LEMMA WalletSendKept ==
    ASSUME IInv, NEW r \in Reqs, NEW w \in Wallets, NEW active \in Wallets, WalletSend(r, w, active)
    PROVE  IInv'
<1>1. PICK book \in [Ids -> Terms] : BookOK(book)
  BY DEF IInv
<1>2. UNCHANGED <<prep, commits, sold, notified, nextId, offers>>
  BY DEF WalletSend, chain, books
<1>3. Grows
  BY <1>1, <1>2, QuietStep
<1>4. PICK d : d = deal[w]
  OBVIOUS
<1>5. /\ d.pc = "signing" /\ OfferOK(d.offer, book) /\ d.by = d.offer.taker
      /\ d = [pc |-> d.pc, offer |-> d.offer, signed |-> d.signed, change |-> d.change, by |-> d.by]
  BY <1>1, <1>4 DEF WalletSend, BookOK, DealsOK, DealOK, Browsing
<1>6. PICK x : x = [d EXCEPT !.pc = "waiting"]
  OBVIOUS
<1>7. DealOK(x, book)
  BY <1>5, <1>6 DEF DealOK
<1>8. PICK h : h = [pc |-> "accepting", from |-> w, active |-> active, offer |-> d.offer,
                    signed |-> d.signed, change |-> d.change, by |-> d.by, ins |-> <<>>, store |-> offers]
  OBVIOUS
<1>9. /\ h.pc = "accepting" /\ h.active = active /\ h.offer = d.offer /\ h.by = d.by /\ h.store = offers
      /\ h = [pc |-> h.pc, from |-> h.from, active |-> h.active, offer |-> h.offer, signed |-> h.signed,
              change |-> h.change, by |-> h.by, ins |-> h.ins, store |-> h.store]
  BY <1>8
<1>10. HandlerOK(h, book)
  <2>1. FileOK(offers, book)
    BY <1>1 DEF BookOK
  <2> QED
    BY <1>5, <1>9, <2>1 DEF HandlerOK, TakerOK, Taking
<1>11. HandlerOK(h, book)' /\ DealOK(x, book)'
  BY <1>3, <1>7, <1>10, KnownStays
<1>12. Become(r, h) /\ Hold(w, x)
  BY <1>4, <1>6, <1>8 DEF WalletSend
<1>13. ReqsOK(book)' /\ DealsOK(book)'
  BY <1>1, <1>3, <1>11, <1>12, Becomes, Holds
<1> QED
  BY <1>1, <1>2, <1>3, <1>13, QuietStep, Unmoved

\* The browser has an answer, and the handler is over.
LEMMA AnsweredKept ==
    ASSUME NEW book \in [Ids -> Terms], BookOK(book), NEW r \in Reqs, NEW w, NEW d, DealOK(d, book),
           Hold(w, d), Become(r, Idle), UNCHANGED <<prep, commits, sold, notified, nextId, offers>>
    PROVE  IInv'
<1>1. Grows /\ HandlerOK(Idle, book)'
  BY QuietStep
<1>2. DealOK(d, book)'
  BY <1>1, KnownStays
<1>3. ReqsOK(book)' /\ DealsOK(book)'
  BY <1>1, <1>2, Becomes, Holds
<1> QED
  BY <1>1, <1>3, QuietStep, Unmoved

\* Only the taker whom the offer names is asked to sign.
LEMMA AsksKept ==
    ASSUME IInv, NEW r \in Reqs, NEW n, NEW change, Accepting(r), Asks(r, n, change)
    PROVE  IInv'
<1>1. PICK book \in [Ids -> Terms] : BookOK(book)
  BY DEF IInv
<1>2. OfferOK(req[r].offer, book) /\ req[r].active = req[r].offer.taker
  BY <1>1, TakerKnows DEF Accepting, Directed, Taking
<1> DEFINE d == [pc |-> "signing", offer |-> req[r].offer, signed |-> First(req[r], n),
                 change |-> change, by |-> req[r].active]
<1>3. /\ d.pc = "signing" /\ d.offer = req[r].offer /\ d.by = req[r].active
      /\ d = [pc |-> d.pc, offer |-> d.offer, signed |-> d.signed, change |-> d.change, by |-> d.by]
  OBVIOUS
<1>4. /\ Hold(req[r].from, d) /\ Become(r, Idle)
      /\ UNCHANGED <<prep, commits, sold, notified, nextId, offers>>
  BY DEF Asks, Answered, chain, books
<1> HIDE DEF d
<1>5. DealOK(d, book)
  BY <1>2, <1>3 DEF DealOK
<1> QED
  BY <1>1, <1>4, <1>5, AnsweredKept

LEMMA TakerEndsKept ==
    ASSUME IInv, NEW r \in Reqs, TakerGivenUp(r) \/ StopBeforeMark(r)
    PROVE  IInv'
<1>1. PICK book \in [Ids -> Terms] : BookOK(book)
  BY DEF IInv
<1>2. /\ Hold(req[r].from, Browsing) /\ Become(r, Idle)
      /\ UNCHANGED <<prep, commits, sold, notified, nextId, offers>>
  BY DEF TakerGivenUp, Answered, StopBeforeMark, chain, books
<1>3. DealOK(Browsing, book)
  BY DEF DealOK
<1> QED
  BY <1>1, <1>2, <1>3, AnsweredKept

\* An accepted fill is the one that was asked for, with its coins named.
LEMMA AcceptKept ==
    ASSUME IInv, NEW r \in Reqs,
           (Accepting(r) /\ \E n, change : Accepted(r, n, change)) \/ AcceptBroker(r)
    PROVE  IInv'
<1>1. PICK book \in [Ids -> Terms] : BookOK(book)
  BY DEF IInv
<1>2. UNCHANGED <<prep, commits, sold, notified, nextId, offers, deal>>
  BY DEF Accepted, AcceptBroker, chain, books
<1>3. Grows
  BY <1>1, <1>2, QuietStep
<1>4. PICK g : g = req[r]
  OBVIOUS
<1>5. TakerOK(g, book)
  BY <1>1, <1>4, TakerKnows DEF Accepting, AcceptBroker, Taking
<1>6. PICK ins, change : Become(r, [g EXCEPT !.pc = "finalizing", !.ins = ins, !.change = change])
  <2>1. CASE Accepting(r) /\ \E n, change : Accepted(r, n, change)
    BY <1>4, <2>1 DEF Accepted
  <2>2. CASE AcceptBroker(r)
    <3>1. g.pc = "accepting" /\ Become(r, [g EXCEPT !.pc = "finalizing", !.ins = g.signed])
      BY <1>4, <2>2 DEF AcceptBroker
    <3>2. [g EXCEPT !.pc = "finalizing", !.ins = g.signed]
            = [g EXCEPT !.pc = "finalizing", !.ins = g.signed, !.change = g.change]
      BY <1>5 DEF TakerOK
    <3> QED
      BY <3>1, <3>2
  <2> QED
    BY <2>1, <2>2
<1>7. PICK h : h = [g EXCEPT !.pc = "finalizing", !.ins = ins, !.change = change]
  OBVIOUS
<1>8. /\ h.pc = "finalizing" /\ h.active = g.active /\ h.offer = g.offer /\ h.by = g.by /\ h.store = g.store
      /\ h = [pc |-> h.pc, from |-> h.from, active |-> h.active, offer |-> h.offer, signed |-> h.signed,
              change |-> h.change, by |-> h.by, ins |-> h.ins, store |-> h.store]
  BY <1>5, <1>7 DEF TakerOK
<1>9. HandlerOK(h, book)
  BY <1>5, <1>8 DEF HandlerOK, TakerOK, Taking
<1>10. HandlerOK(h, book)'
  BY <1>3, <1>9, KnownStays
<1>11. ReqsOK(book)'
  BY <1>1, <1>3, <1>6, <1>7, <1>10, Becomes
<1> QED
  BY <1>1, <1>2, <1>3, <1>11, QuietStep, Unmoved

\* The file that a fill writes back is an old one, with an offer filled that
\* was sold.  It is as true as the one it replaces.
LEMMA MarkFilledKept ==
    ASSUME IInv, NEW r \in Reqs, MarkFilled(r)
    PROVE  IInv'
<1>1. PICK book \in [Ids -> Terms] : BookOK(book)
  BY DEF IInv
<1>2. /\ UNCHANGED <<prep, commits, sold, notified, nextId>> /\ req[r].pc = "settled"
      /\ Hold(req[r].from, Browsing) /\ Become(r, Idle)
  BY DEF MarkFilled, ReadyToMark, chain
<1>3. Grows /\ HandlerOK(Idle, book)' /\ DealOK(Browsing, book)'
  BY <1>1, <1>2, QuietStep
<1>4. /\ OfferOK(req[r].offer, book) /\ FileOK(req[r].store, book) /\ WasSold(req[r].offer)
  BY <1>1, <1>2, TakerKnows DEF Taking, TakerOK
<1>5. ASSUME NEW o \in req[r].store, o.id = req[r].offer.id
      PROVE  OfferOK([o EXCEPT !.state = "filled"], book) /\ [o EXCEPT !.state = "filled"].id = o.id
  <2> DEFINE x == [o EXCEPT !.state = "filled"]
  <2>1. OfferOK(o, book) /\ o \in Offers
    BY <1>4 DEF FileOK, OfferOK
  <2>2. /\ x \in Offers /\ x.id = o.id /\ x.commit = o.commit /\ x.maker = o.maker /\ x.taker = o.taker
        /\ x.price = o.price /\ x.state = "filled"
    BY <2>1 DEF Offers
  <2> HIDE DEF x
  <2>3. WasSold(x)
    BY <1>4, <1>5, <2>1, <2>2 DEF WasSold, OfferOK, Fits
  <2>4. OfferOK(x, book)
    BY <2>1, <2>2, <2>3 DEF OfferOK, Fits
  <2> QED
    BY <2>2, <2>4 DEF x
<1>6. FileOK(offers', book)
  <2> DEFINE Marked(o) == IF o.id = req[r].offer.id THEN [o EXCEPT !.state = "filled"] ELSE o
  <2>1. offers' = {Marked(o) : o \in req[r].store}
    BY DEF MarkFilled
  <2>2. ASSUME NEW o \in req[r].store PROVE OfferOK(Marked(o), book) /\ Marked(o).id = o.id
    BY <1>4, <1>5 DEF FileOK
  <2> HIDE DEF Marked
  <2>3. \A o, q \in req[r].store : o.id = q.id => o = q
    BY <1>4 DEF FileOK
  <2> QED
    BY <2>1, <2>2, <2>3 DEF FileOK
<1>7. FileOK(offers, book)'
  BY <1>3, <1>6, KnownStays DEF FileOK
<1>8. ReqsOK(book)' /\ DealsOK(book)'
  BY <1>1, <1>2, <1>3, Becomes, Holds
<1> QED
  BY <1>1, <1>2, <1>3, <1>7, <1>8, QuietStep, Unmoved

-----------------------------------------------------------------------------
\* The steps of the chain.

LEMMA CommittedKept ==
    ASSUME NEW book \in [Ids -> Terms], BookOK(book), NEW terms \in Terms, Fits(terms, book),
           Committed(terms), UNCHANGED <<notified, nextId>>
    PROVE  /\ Grows /\ ChainOK(book)' /\ WasCommitted(terms.id)' /\ nextId' \in 1..(MaxOffers + 1)
           /\ HandlerOK(Idle, book)'
<1> DEFINE c == [id |-> terms.id, maker |-> terms.maker, taker |-> terms.taker]
<1>1. /\ c \in [id: Ids, maker: Wallets, taker: Wallets]
      /\ c.id = terms.id /\ c.maker = terms.maker /\ c.taker = terms.taker
  BY DEF Terms
<1>2. commits' = commits \cup {c} /\ UNCHANGED sold
  BY DEF Committed
<1> HIDE DEF c
<1>3. Grows /\ nextId' \in 1..(MaxOffers + 1)
  BY <1>2, DirectSwapAssumption DEF BookOK, Grows
<1>4. ChainOK(book)'
  BY <1>1, <1>2 DEF BookOK, ChainOK, WasCommitted, Fits
<1> QED
  BY <1>1, <1>2, <1>3, <1>4 DEF WasCommitted, HandlerOK

LEMMA MakerCommitsKept ==
    ASSUME IInv, NEW r \in Reqs, CommitAccepted(r) \/ CommitReplyLost(r)
    PROVE  IInv'
<1>1. PICK book \in [Ids -> Terms] : BookOK(book)
  BY DEF IInv
<1>2. PICK g : g = req[r]
  OBVIOUS
<1>3. g.pc = "committing" /\ MakerOK(g, book) /\ g.terms \in Terms /\ Fits(g.terms, book)
  BY <1>1, <1>2, MakerKnows DEF CommitAccepted, CommitReplyLost, Making
<1>4. Committed(g.terms) /\ UNCHANGED <<notified, nextId, offers, deal>>
  BY <1>2 DEF CommitAccepted, CommitReplyLost, books
<1>5. Grows /\ ChainOK(book)' /\ nextId' \in 1..(MaxOffers + 1) /\ HandlerOK(Idle, book)'
  BY <1>1, <1>3, <1>4, CommittedKept
<1>6. PrepOK(book)' /\ ReqsOK(book)'
  <2>1. CASE CommitReplyLost(r)
    <3>1. Become(r, Idle) /\ UNCHANGED prep
      BY <2>1 DEF CommitReplyLost
    <3> QED
      BY <1>1, <1>5, <3>1, Unmoved, Becomes
  <2>2. CASE CommitAccepted(r)
    <3>1. PICK h : h = [g EXCEPT !.pc = "waiting"]
      OBVIOUS
    <3>2. h.pc = "waiting" /\ h.terms = g.terms /\ h = [pc |-> h.pc, terms |-> h.terms]
      BY <1>3, <3>1 DEF MakerOK
    <3>3. HandlerOK(h, book)
      BY <1>3, <3>2 DEF HandlerOK, MakerOK, Making
    <3>4. HandlerOK(h, book)'
      BY <1>5, <3>3, KnownStays
    <3>5. Become(r, h) /\ prep' = Advanced(g.terms, "committed")
      BY <1>2, <2>2, <3>1 DEF CommitAccepted
    <3> QED
      BY <1>1, <1>5, <3>4, <3>5, Becomes, AdvancedKept
  <2> QED
    BY <2>1, <2>2
<1>7. FileOK(offers, book)' /\ DealsOK(book)'
  BY <1>1, <1>4, <1>5, Unmoved
<1> QED
  BY <1>5, <1>6, <1>7 DEF BookOK, IInv

LEMMA BrokerSubmitKept ==
    ASSUME IInv, NEW r \in Reqs, NEW p \in prep, BrokerSubmit(r, p)
    PROVE  IInv'
<1>1. PICK book \in [Ids -> Terms] : BookOK(book)
  BY DEF IInv
<1>2. p.terms \in Terms /\ Fits(p.terms, book)
  BY <1>1 DEF BookOK, PrepOK
<1>3. /\ Committed(p.terms) /\ UNCHANGED <<notified, nextId, prep, offers, deal>>
      /\ Become(r, [pc |-> "brokered", terms |-> p.terms])
  BY DEF BrokerSubmit, books
<1>4. Grows /\ ChainOK(book)' /\ WasCommitted(p.terms.id)' /\ nextId' \in 1..(MaxOffers + 1)
  BY <1>1, <1>2, <1>3, CommittedKept
<1>5. HandlerOK([pc |-> "brokered", terms |-> p.terms], book)'
  BY <1>1, <1>4, MakerStarts DEF Making
<1>6. ReqsOK(book)'
  BY <1>1, <1>3, <1>4, <1>5, Becomes
<1>7. PrepOK(book)' /\ FileOK(offers, book)' /\ DealsOK(book)'
  BY <1>1, <1>3, <1>4, Unmoved
<1> QED
  BY <1>4, <1>6, <1>7 DEF BookOK, IInv

\* The exchange: the output is there, nobody had it before, and who takes it
\* signed for it and is the taker that the book names.
LEMMA FinalizeForm ==
    ASSUME NEW book \in [Ids -> Terms], BookOK(book), NEW r \in Reqs, Finalize(r)
    PROVE  /\ TakerOK(req[r], book) /\ sold' = sold \cup {Sale(req[r])}
           /\ UNCHANGED <<commits, notified, nextId, prep, offers, deal>>
           /\ \E c \in commits : c.id = req[r].offer.id /\ Live(c)
           /\ Sale(req[r]).id = req[r].offer.id /\ Sale(req[r]).price = req[r].offer.price
           /\ Sale(req[r]).by = req[r].offer.taker /\ req[r].active = req[r].offer.taker
<1>1. TakerOK(req[r], book) /\ OfferOK(req[r].offer, book)
  BY TakerKnows DEF Finalize, Taking
<1> QED
  BY <1>1 DEF Finalize, OfferIsLive, SignatureFits, Sale, TakerOK, OfferOK, books

LEMMA FinalizeKept ==
    ASSUME IInv, NEW r \in Reqs, Finalize(r)
    PROVE  IInv'
<1>1. PICK book \in [Ids -> Terms] : BookOK(book)
  BY DEF IInv
<1>2. PICK g : g = req[r]
  OBVIOUS
<1>3. PICK s : s = Sale(g)
  OBVIOUS
<1>4. /\ TakerOK(g, book) /\ sold' = sold \cup {s}
      /\ UNCHANGED <<commits, notified, nextId, prep, offers, deal>>
      /\ \E c \in commits : c.id = g.offer.id /\ Live(c)
      /\ s.id = g.offer.id /\ s.price = g.offer.price /\ s.by = g.offer.taker
  BY <1>1, <1>2, <1>3, FinalizeForm
<1>5. Grows /\ nextId' \in 1..(MaxOffers + 1)
  BY <1>1, <1>4, DirectSwapAssumption DEF BookOK, Grows
<1>6. OfferOK(g.offer, book)
  BY <1>4 DEF TakerOK
<1>7. ChainOK(book)'
  BY <1>1, <1>4, <1>6 DEF BookOK, ChainOK, WasCommitted, Live, OfferOK, Fits
<1>8. PICK h : h = [g EXCEPT !.pc = "sent"]
  OBVIOUS
<1>9. /\ h.pc = "sent" /\ h.active = g.active /\ h.offer = g.offer /\ h.by = g.by /\ h.store = g.store
      /\ h = [pc |-> h.pc, from |-> h.from, active |-> h.active, offer |-> h.offer, signed |-> h.signed,
              change |-> h.change, by |-> h.by, ins |-> h.ins, store |-> h.store]
  BY <1>4, <1>8 DEF TakerOK
<1>10. OfferOK(h.offer, book)' /\ FileOK(h.store, book)'
  BY <1>4, <1>5, <1>6, <1>9, KnownStays DEF TakerOK
<1>11. WasSold(h.offer)'
  BY <1>4, <1>6, <1>9 DEF WasSold, OfferOK
<1>12. TakerOK(h, book)'
  BY <1>4, <1>9, <1>10, <1>11 DEF TakerOK
<1>13. HandlerOK(h, book)'
  BY <1>9, <1>12 DEF HandlerOK, Taking
<1>14. Become(r, h)
  BY <1>2, <1>8 DEF Finalize
<1>15. ReqsOK(book)'
  BY <1>1, <1>5, <1>13, <1>14, Becomes
<1>16. PrepOK(book)' /\ FileOK(offers, book)' /\ DealsOK(book)'
  BY <1>1, <1>4, <1>5, Unmoved
<1> QED
  BY <1>5, <1>7, <1>15, <1>16 DEF BookOK, IInv

LEMMA NotifyKept ==
    ASSUME IInv, NEW r \in Reqs, NotifyMaker(r)
    PROVE  IInv'
<1>1. PICK book \in [Ids -> Terms] : BookOK(book)
  BY DEF IInv
<1>2. PICK g : g = req[r]
  OBVIOUS
<1>3. /\ g.pc = "sent" /\ UNCHANGED <<commits, sold, nextId, prep, offers, deal>>
      /\ notified' = notified \cup {g.offer.commit}
  BY <1>2 DEF NotifyMaker, chain
<1>4. TakerOK(g, book) /\ WasSold(g.offer)
  BY <1>1, <1>2, <1>3, TakerKnows DEF Taking, TakerOK
<1>5. Grows /\ nextId' \in 1..(MaxOffers + 1)
  BY <1>1, <1>3, DirectSwapAssumption DEF BookOK, Grows
<1>6. ChainOK(book)'
  BY <1>1, <1>3, <1>4 DEF BookOK, ChainOK, WasSold, WasCommitted
<1>7. PICK h : h = [g EXCEPT !.pc = "settled"]
  OBVIOUS
<1>8. /\ h.pc = "settled" /\ h.active = g.active /\ h.offer = g.offer /\ h.by = g.by /\ h.store = g.store
      /\ h = [pc |-> h.pc, from |-> h.from, active |-> h.active, offer |-> h.offer, signed |-> h.signed,
              change |-> h.change, by |-> h.by, ins |-> h.ins, store |-> h.store]
  BY <1>4, <1>7 DEF TakerOK
<1>9. HandlerOK(h, book)
  BY <1>4, <1>8 DEF HandlerOK, TakerOK, Taking
<1>10. HandlerOK(h, book)' /\ Become(r, h)
  BY <1>2, <1>5, <1>7, <1>9, KnownStays DEF NotifyMaker
<1>11. ReqsOK(book)'
  BY <1>1, <1>5, <1>10, Becomes
<1>12. PrepOK(book)' /\ FileOK(offers, book)' /\ DealsOK(book)'
  BY <1>1, <1>3, <1>5, Unmoved
<1> QED
  BY <1>5, <1>6, <1>11, <1>12 DEF BookOK, IInv

-----------------------------------------------------------------------------
LEMMA InitKept == Init => IInv
<1> SUFFICES ASSUME Init PROVE IInv
  OBVIOUS
<1>1. PICK t \in Trades, price \in Prices :
         /\ commits = {[id |-> 1, maker |-> t[1], taker |-> t[2]]}
         /\ offers = {[id |-> 1, maker |-> t[1], taker |-> t[2], price |-> price,
                       commit |-> 1, state |-> "open"]}
  BY DEF Init
<1>2. t[1] \in Wallets /\ t[2] \in Wallets /\ 1 \in Ids /\ 2 \in 1..(MaxOffers + 1)
  BY DirectSwapAssumption DEF Ids
<1>3. PICK terms \in Terms : terms = [id |-> 1, maker |-> t[1], taker |-> t[2], price |-> price]
  BY <1>2 DEF Terms
<1>4. PICK book \in [Ids -> Terms] : book[1] = terms
  <2>1. [i \in Ids |-> terms] \in [Ids -> Terms] /\ [i \in Ids |-> terms][1] = terms
    BY <1>2, <1>3
  <2> QED
    BY <2>1
<1>5. ChainOK(book)
  <2>1. PICK c : c = [id |-> 1, maker |-> t[1], taker |-> t[2]]
    OBVIOUS
  <2>2. /\ c \in [id: Ids, maker: Wallets, taker: Wallets] /\ c.id = 1 /\ c.maker = t[1]
        /\ c.taker = t[2] /\ commits = {c}
    BY <1>1, <1>2, <2>1
  <2>3. book[1].maker = t[1] /\ book[1].taker = t[2]
    BY <1>3, <1>4
  <2> QED
    BY <2>2, <2>3 DEF Init, ChainOK
<1>6. FileOK(offers, book)
  <2> DEFINE o == [id |-> 1, maker |-> t[1], taker |-> t[2], price |-> price,
                   commit |-> 1, state |-> "open"]
  <2>1. /\ o.id = 1 /\ o.commit = 1 /\ o.maker = t[1] /\ o.taker = t[2] /\ o.price = price
        /\ o.state = "open" /\ o \in Offers
    BY <1>2 DEF Offers
  <2>2. WasCommitted(1)
    BY <1>1 DEF WasCommitted
  <2> HIDE DEF o
  <2>3. OfferOK(o, book)
    BY <1>2, <1>3, <1>4, <2>1, <2>2 DEF Init, OfferOK, Fits
  <2> QED
    BY <1>1, <2>3 DEF FileOK, o
<1>7. ReqsOK(book) /\ DealsOK(book)
  BY DEF Init, ReqsOK, DealsOK, HandlerOK, DealOK
<1>8. PrepOK(book)
  BY DEF Init, PrepOK
<1> QED
  BY <1>2, <1>5, <1>6, <1>7, <1>8 DEF Init, BookOK, IInv

LEMMA StepKept == IInv /\ [Next]_vars => IInv'
<1> SUFFICES ASSUME IInv, [Next]_vars PROVE IInv'
  OBVIOUS
<1>1. CASE UNCHANGED vars
  <2>1. PICK book \in [Ids -> Terms] : BookOK(book)
    BY DEF IInv
  <2>2. UNCHANGED <<prep, commits, sold, notified, nextId, offers, req, deal>>
    BY <1>1 DEF vars
  <2> QED
    BY <2>1, <2>2, QuietStep, Unmoved
<1>2. ASSUME NEW terms \in Terms, Prepare(terms) PROVE IInv'
  BY <1>2, PrepareKept
<1>3. ASSUME NEW p \in prep,
             Sweep(p) \/ \E r \in Reqs : CommitSubmit(r, p) \/ RevealSubmit(r, p) \/ BrokerSubmit(r, p)
      PROVE  IInv'
  BY <1>3, SweepKept, MakerSubmitKept, BrokerSubmitKept
<1>4. ASSUME NEW r \in Reqs,
             \/ CommitAccepted(r) \/ CommitReplyLost(r) \/ CommitRefused(r) \/ CommitSeen(r)
             \/ List(r) \/ BrokerList(r) \/ MakerGivenUp(r)
      PROVE  IInv'
  BY <1>4, MakerCommitsKept, MakerEndsKept, ListKept
<1>5. ASSUME NEW r \in Reqs, NEW w \in Wallets, NEW active \in Wallets, WalletSend(r, w, active)
      PROVE  IInv'
  BY <1>5, WalletSendKept
<1>6. ASSUME NEW r \in Reqs, NEW n \in 1..3,
             AskSignatures(r, n) \/ AskChangeSignatures(r, n) \/ AskBroker(r, n)
      PROVE  IInv'
  <2>1. Accepting(r) /\ \E change : Asks(r, n, change)
    BY <1>6 DEF AskSignatures, AskChangeSignatures, AskBroker
  <2> QED
    BY <2>1, AsksKept
<1>7. ASSUME NEW r \in Reqs, NEW n \in 1..3, AcceptExact(r, n) \/ AcceptWithChange(r, n)
      PROVE  IInv'
  <2>1. Accepting(r) /\ \E change : Accepted(r, n, change)
    BY <1>7 DEF AcceptExact, AcceptWithChange
  <2> QED
    BY <2>1, AcceptKept
<1>8. ASSUME NEW r \in Reqs,
             \/ AcceptBroker(r) \/ TakerGivenUp(r) \/ Finalize(r)
             \/ NotifyMaker(r) \/ MarkFilled(r) \/ StopBeforeMark(r)
      PROVE  IInv'
  BY <1>8, AcceptKept, TakerEndsKept, FinalizeKept, NotifyKept, MarkFilledKept
<1>9. ASSUME NEW o \in offers, Withdraw(o) \/ \E w \in Wallets : Preview(w, o)
      PROVE  IInv'
  BY <1>9, WithdrawKept, PreviewKept
<1> QED
  BY <1>1, <1>2, <1>3, <1>4, <1>5, <1>6, <1>7, <1>8, <1>9 DEF Next

THEOREM Invariance == Spec => []IInv
BY InitKept, StepKept, PTL DEF Spec

\* Every offer that is shown stands on a commit with its parties, and on one
\* that no other offer stands on, whatever old files the fills write back.
THEOREM OffersStandOnCommits == Spec => []EachListingItsCommit
<1>1. IInv => EachListingItsCommit
  BY DEF IInv, BookOK, ChainOK, FileOK, OfferOK, Fits, WasCommitted, EachListingItsCommit
<1> QED
  BY <1>1, Invariance, PTL

\* A record says "filled" only of an offer whose price its taker paid.
THEOREM FilledIsPaid == Spec => []FilledWasSold
<1>1. IInv => FilledWasSold
  BY DEF IInv, BookOK, FileOK, OfferOK, WasSold, FilledWasSold
<1> QED
  BY <1>1, Invariance, PTL

-----------------------------------------------------------------------------
\* The refinement: a commit is an offer, what the node takes of a fill is the
\* exchange, and the message to the maker tells of it.

LEMMA DealsOfPairs ==
    ASSUME NEW S, NEW C
    PROVE  \A e : e \in DealsOf(S, C) <=> \E s \in S, c \in C : s.id = c.id /\ e = Deal(s, c)
<1>1. ASSUME NEW e \in DealsOf(S, C) PROVE \E s \in S, c \in C : s.id = c.id /\ e = Deal(s, c)
  <2>1. PICK x \in {y \in S \X C : y[1].id = y[2].id} :
           e = [id |-> x[1].id, how |-> "claimed", paid |-> x[2].maker, to |-> x[1].by]
    BY DEF DealsOf
  <2>2. x[1] \in S /\ x[2] \in C /\ x[1].id = x[2].id
    OBVIOUS
  <2> QED
    BY <2>1, <2>2 DEF Deal
<1>2. ASSUME NEW s \in S, NEW c \in C, s.id = c.id PROVE Deal(s, c) \in DealsOf(S, C)
  <2>1. <<s, c>> \in {y \in S \X C : y[1].id = y[2].id}
    BY <1>2
  <2> QED
    BY <2>1 DEF Deal, DealsOf
<1> QED
  BY <1>1, <1>2

LEMMA CommittedMapped ==
    ASSUME IInv, NEW terms \in Terms, Committed(terms), UNCHANGED notified
    PROVE  TheExchange!Next
<1> DEFINE d == [id |-> terms.id, maker |-> terms.maker, taker |-> terms.taker]
<1>1. commits' = commits \cup {d} /\ UNCHANGED sold /\ \A c \in commits : c.id # d.id
  BY DEF Committed
<1>2. d \in TheExchange!Deals
  BY DEF TheExchange!Deals, Terms, Ids
<1>3. \A s \in sold : s.id # d.id
  BY <1>1 DEF IInv, BookOK, ChainOK, WasCommitted
<1>4. EndedDeals' = EndedDeals /\ ToldDeals' = ToldDeals
  <2>1. \A e : e \in EndedDeals' <=> e \in EndedDeals
    BY <1>1, <1>3, DealsOfPairs DEF EndedDeals
  <2> QED
    BY <1>1, <2>1 DEF ToldDeals
<1>5. TheExchange!Offer(d)
  BY <1>1, <1>4 DEF TheExchange!Offer, EndedDeals, DealsOf, ToldDeals
<1> QED
  BY <1>2, <1>5 DEF TheExchange!Next

LEMMA FinalizeMapped ==
    ASSUME IInv, NEW r \in Reqs, Finalize(r)
    PROVE  TheExchange!Next
<1>1. PICK book \in [Ids -> Terms] : BookOK(book)
  BY DEF IInv
<1>2. PICK s : s = Sale(req[r])
  OBVIOUS
<1>3. PICK c \in commits : c.id = req[r].offer.id /\ Live(c)
  BY <1>1, FinalizeForm
<1>4. /\ sold' = sold \cup {s} /\ UNCHANGED <<commits, notified>>
      /\ s.id = c.id /\ s.by = req[r].offer.taker /\ OfferOK(req[r].offer, book)
  BY <1>1, <1>2, <1>3, FinalizeForm DEF TakerOK
<1>5. s.by = c.taker /\ c.taker \in Wallets
  BY <1>1, <1>3, <1>4 DEF BookOK, ChainOK, OfferOK, Fits
<1>6. \A x \in commits : x.id = c.id => x.maker = c.maker
  BY <1>1, <1>3 DEF BookOK, ChainOK
<1>7. EndedDeals' = EndedDeals \cup {TheExchange!Claimed(c, s.by)}
  <2>1. \A e : e \in EndedDeals <=> \E x \in sold, y \in commits : x.id = y.id /\ e = Deal(x, y)
    BY DealsOfPairs DEF EndedDeals
  <2>2. \A e : e \in EndedDeals' <=> \E x \in sold', y \in commits' : x.id = y.id /\ e = Deal(x, y)
    BY DealsOfPairs DEF EndedDeals
  <2>3. TheExchange!Claimed(c, s.by) = Deal(s, c)
    BY <1>4 DEF Deal, TheExchange!Claimed
  <2>4. \A y \in commits : s.id = y.id => Deal(s, y) = Deal(s, c)
    BY <1>4, <1>6 DEF Deal
  <2>5. \A e : e \in EndedDeals' <=> e \in EndedDeals \/ e = Deal(s, c)
    BY <1>3, <1>4, <2>1, <2>2, <2>4
  <2> QED
    BY <2>3, <2>5
<1>8. TheExchange!IsOpen(c)
  BY <1>3 DEF TheExchange!IsOpen, Live
<1>9. ToldDeals' = ToldDeals
  BY <1>4 DEF ToldDeals
<1>10. TheExchange!Settle(c, s.by)
  BY <1>4, <1>5, <1>7, <1>8, <1>9 DEF TheExchange!Settle, EndedDeals, DealsOf, ToldDeals
<1> QED
  BY <1>3, <1>5, <1>10 DEF TheExchange!Next

LEMMA NotifyMapped ==
    ASSUME IInv, NEW r \in Reqs, NotifyMaker(r)
    PROVE  TheExchange!Next
<1>1. PICK book \in [Ids -> Terms] : BookOK(book)
  BY DEF IInv
<1>2. WasSold(req[r].offer) /\ UNCHANGED <<commits, sold>>
  BY <1>1, TakerKnows DEF NotifyMaker, Taking, TakerOK, chain
<1>3. PICK s \in sold : s.id = req[r].offer.commit
  BY <1>2 DEF WasSold
<1>4. PICK c \in commits : c.id = s.id
  BY <1>1, <1>3 DEF BookOK, ChainOK, WasCommitted
<1>5. PICK e \in EndedDeals : e.id = s.id /\ e.how = "claimed"
  <2>1. <<s, c>> \in {y \in sold \X commits : y[1].id = y[2].id}
    BY <1>3, <1>4
  <2>2. [id |-> s.id, how |-> "claimed", paid |-> c.maker, to |-> s.by] \in EndedDeals
    BY <2>1 DEF EndedDeals, DealsOf
  <2> QED
    BY <2>2
<1>6. ToldDeals' = ToldDeals \cup {[id |-> e.id, how |-> e.how]}
  BY <1>3, <1>5 DEF NotifyMaker, ToldDeals
<1>7. EndedDeals' = EndedDeals
  BY <1>2 DEF EndedDeals
<1>8. TheExchange!Tell(e)
  BY <1>2, <1>6, <1>7 DEF TheExchange!Tell, EndedDeals, DealsOf, ToldDeals
<1> QED
  BY <1>5, <1>8 DEF TheExchange!Next, EndedDeals, DealsOf

LEMMA StepMapped == IInv /\ [Next]_vars => [TheExchange!Next]_(TheExchange!vars)
<1> SUFFICES ASSUME IInv, [Next]_vars
             PROVE  TheExchange!Next \/ UNCHANGED <<commits, sold, notified>>
  BY DEF TheExchange!vars
<1>1. ASSUME NEW terms \in Terms, Committed(terms), UNCHANGED notified PROVE TheExchange!Next
  BY <1>1, CommittedMapped
<1>2. CASE UNCHANGED vars
  BY <1>2 DEF vars
<1>3. ASSUME NEW terms \in Terms, Prepare(terms) PROVE UNCHANGED <<commits, sold, notified>>
  BY <1>3 DEF Prepare, chain, books
<1>4. ASSUME NEW p \in prep, Sweep(p) PROVE UNCHANGED <<commits, sold, notified>>
  BY <1>4 DEF Sweep, chain, books
<1>5. ASSUME NEW r \in Reqs, NEW p \in prep, CommitSubmit(r, p) \/ RevealSubmit(r, p)
      PROVE  UNCHANGED <<commits, sold, notified>>
  BY <1>5 DEF CommitSubmit, RevealSubmit, chain, books
<1>6. ASSUME NEW r \in Reqs, NEW p \in prep, BrokerSubmit(r, p) PROVE TheExchange!Next
  <2>1. p.terms \in Terms
    BY DEF IInv, BookOK, PrepOK
  <2> QED
    BY <1>1, <1>6, <2>1 DEF BrokerSubmit, books
<1>7. ASSUME NEW r \in Reqs, CommitAccepted(r) \/ CommitReplyLost(r) PROVE TheExchange!Next
  <2>1. req[r].terms \in Terms
    BY <1>7, MakerKnows DEF IInv, CommitAccepted, CommitReplyLost, Making
  <2> QED
    BY <1>1, <1>7, <2>1 DEF CommitAccepted, CommitReplyLost, books
<1>8. ASSUME NEW r \in Reqs,
             CommitRefused(r) \/ CommitSeen(r) \/ List(r) \/ BrokerList(r) \/ MakerGivenUp(r)
      PROVE  UNCHANGED <<commits, sold, notified>>
  BY <1>8 DEF CommitRefused, CommitSeen, List, BrokerList, MakerGivenUp, chain, books
<1>9. ASSUME NEW r \in Reqs, NEW w \in Wallets, NEW active \in Wallets, WalletSend(r, w, active)
      PROVE  UNCHANGED <<commits, sold, notified>>
  BY <1>9 DEF WalletSend, chain, books
<1>10. ASSUME NEW r \in Reqs, NEW n \in 1..3,
              \/ AskSignatures(r, n) \/ AskChangeSignatures(r, n) \/ AskBroker(r, n)
              \/ AcceptExact(r, n) \/ AcceptWithChange(r, n)
       PROVE  UNCHANGED <<commits, sold, notified>>
  BY <1>10 DEF AskSignatures, AskChangeSignatures, AskBroker, AcceptExact, AcceptWithChange,
     Asks, Answered, Accepted, chain, books
<1>11. ASSUME NEW r \in Reqs, AcceptBroker(r) \/ TakerGivenUp(r) \/ MarkFilled(r) \/ StopBeforeMark(r)
       PROVE  UNCHANGED <<commits, sold, notified>>
  BY <1>11 DEF AcceptBroker, TakerGivenUp, Answered, MarkFilled, StopBeforeMark, chain, books
<1>12. ASSUME NEW r \in Reqs, Finalize(r) \/ NotifyMaker(r) PROVE TheExchange!Next
  BY <1>12, FinalizeMapped, NotifyMapped
<1>13. ASSUME NEW o \in offers, Withdraw(o) \/ \E w \in Wallets : Preview(w, o)
       PROVE  UNCHANGED <<commits, sold, notified>>
  BY <1>13 DEF Withdraw, Preview, chain, books
<1> QED
  BY <1>2, <1>3, <1>4, <1>5, <1>6, <1>7, <1>8, <1>9, <1>10, <1>11, <1>12, <1>13 DEF Next

\* The direct swaps implement module Exchange: whoever opens an offer in which
\* wallet, it is settled once, by the taker it names, and no maker is told of
\* a sale before it was made.
THEOREM DirectSwapsAreExchanges == Spec => IsAnExchange
<1>1. Init => TheExchange!Init
  <2> SUFFICES ASSUME Init PROVE TheExchange!Init
    OBVIOUS
  <2>1. PICK t \in Trades : commits = {[id |-> 1, maker |-> t[1], taker |-> t[2]]}
    BY DEF Init
  <2>2. commits \in SUBSET TheExchange!Deals
    BY <2>1, DirectSwapAssumption DEF TheExchange!Deals
  <2> QED
    BY <2>1, <2>2 DEF Init, TheExchange!Init
<1> QED
  BY <1>1, StepMapped, Invariance, PTL DEF Spec, IsAnExchange, TheExchange!Spec

-----------------------------------------------------------------------------
(***************************************************************************)
(* Sums.  A fold picks the elements of a set in an order of its own; that  *)
(* nothing depends on this order is an induction over the set, and that    *)
(* one rests on the least element of a set of numbers, which the library   *)
(* has for well-founded relations.                                         *)
(***************************************************************************)
\* A set of naturals that is not empty has a least element.
LEMMA Least ==
    ASSUME NEW T, T \subseteq Nat, T # {}
    PROVE  \E m \in T : \A n \in T : m <= n
<1>1. PICK m \in T : \A n \in T : ~(<<n, m>> \in OpToRel(<, Nat))
  BY NatLessThanWellFounded, WFMin, Zenon
<1>2. OpToRel(<, Nat) = {ss \in Nat \X Nat : ss[1] < ss[2]}
  BY Zenon DEF OpToRel
<1>3. \A n \in T : ~ (n < m)
  BY <1>1, <1>2
<1> QED
  BY <1>3

\* Induction, for a set of numbers.
LEMMA Induction ==
    ASSUME NEW G, 0 \in G, \A n \in Nat : n \in G => n + 1 \in G
    PROVE  \A n \in Nat : n \in G
<1> DEFINE T == {n \in Nat : n \notin G}
<1> SUFFICES ASSUME T # {} PROVE FALSE
  OBVIOUS
<1>1. PICK m \in T : \A n \in T : m <= n
  BY Least, T \subseteq Nat
<1>2. m # 0 /\ m - 1 \in Nat /\ m - 1 \notin T
  BY <1>1
<1> QED
  BY <1>1, <1>2

\* What holds of a finite set when it holds of all that one element less leaves.
LEMMA SubsetInduction ==
    ASSUME NEW U, IsFiniteSet(U), NEW G,
           \A s \in SUBSET U : (\A x \in s : s \ {x} \in G) => s \in G
    PROVE  \A s \in SUBSET U : s \in G
<1> DEFINE H == {n \in Nat : \A s \in SUBSET U : Cardinality(s) <= n => s \in G}
<1>1. \A s \in SUBSET U : IsFiniteSet(s) /\ Cardinality(s) \in Nat
  BY FS_Subset, FS_CardinalityType
<1>2. 0 \in H
  <2> SUFFICES ASSUME NEW s \in SUBSET U, Cardinality(s) <= 0 PROVE s \in G
    OBVIOUS
  <2>1. s = {}
    BY <1>1, FS_EmptySet
  <2> QED
    BY <2>1
<1>3. ASSUME NEW n \in Nat, n \in H PROVE n + 1 \in H
  <2> SUFFICES ASSUME NEW s \in SUBSET U, Cardinality(s) <= n + 1 PROVE s \in G
    OBVIOUS
  <2>1. ASSUME NEW x \in s PROVE s \ {x} \in G
    <3>1. Cardinality(s \ {x}) = Cardinality(s) - 1
      BY <1>1, FS_RemoveElement
    <3>2. Cardinality(s \ {x}) <= n
      BY <1>1, <3>1
    <3> QED
      BY <1>3, <3>2
  <2> QED
    BY <2>1
<1>4. \A n \in Nat : n \in H
  <2> HIDE DEF H
  <2> QED
  BY <1>2, <1>3, Induction
<1> QED
  BY <1>1, <1>4

-----------------------------------------------------------------------------
\* F goes through the sets by picking one element after another.
Folds(F, val, pick, U) ==
    /\ F = [s \in SUBSET U |-> F[s]] /\ F[{}] = 0
    /\ \A s \in SUBSET U : s # {} /\ F[s \ {pick[s]}] \in Int =>
          F[s] = F[s \ {pick[s]}] + val[pick[s]]

AddsUp(F, val, U) ==
    /\ F \in [SUBSET U -> Int] /\ F[{}] = 0
    /\ \A s \in SUBSET U : \A x \in s : F[s] = F[s \ {x}] + val[x]

Picks(pick, U) == \A s \in SUBSET U : s # {} => pick[s] \in s

\* There is one such F, whatever is picked.
LEMMA FoldExists ==
    ASSUME NEW U, IsFiniteSet(U), NEW val \in [U -> Int], NEW pick, Picks(pick, U)
    PROVE  \E F \in [SUBSET U -> Int] : Folds(F, val, pick, U)
<1> DEFINE Step(F, t) == IF t = {} THEN 0 ELSE val[pick[t]] + F[t \ {pick[t]}]
           Good(F, n) == \A t \in SUBSET U : Cardinality(t) <= n => F[t] = Step(F, t)
           H == {n \in Nat : \E F \in [SUBSET U -> Int] : Good(F, n)}
<1>1. \A s \in SUBSET U : IsFiniteSet(s) /\ Cardinality(s) \in Nat
  BY FS_Subset, FS_CardinalityType
<1>0. \A t \in SUBSET U : t # {} => /\ pick[t] \in U /\ t \ {pick[t]} \in SUBSET U
                                    /\ Cardinality(t \ {pick[t]}) = Cardinality(t) - 1
  BY <1>1, FS_RemoveElement DEF Picks
<1>2. 0 \in H
  <2> DEFINE Z == [t \in SUBSET U |-> 0]
  <2>1. Z \in [SUBSET U -> Int]
    OBVIOUS
  <2>2. ASSUME NEW t \in SUBSET U, Cardinality(t) <= 0 PROVE Z[t] = Step(Z, t)
    <3>1. t = {}
      BY <1>1, <2>2, FS_EmptySet
    <3> QED
      BY <3>1
  <2>3. Good(Z, 0)
    BY <2>2
  <2> QED
    BY <2>1, <2>3
<1>3. ASSUME NEW n \in Nat, n \in H PROVE n + 1 \in H
  <2>1. PICK F \in [SUBSET U -> Int] : Good(F, n)
    BY <1>3
  <2> DEFINE E == [t \in SUBSET U |-> Step(F, t)]
  <2>2. E \in [SUBSET U -> Int]
    <3> SUFFICES ASSUME NEW t \in SUBSET U PROVE Step(F, t) \in Int
      OBVIOUS
    <3>1. t # {} => val[pick[t]] \in Int /\ F[t \ {pick[t]}] \in Int
      BY <1>0
    <3> QED
      BY <3>1
  <2>3. ASSUME NEW t \in SUBSET U, Cardinality(t) <= n + 1 PROVE E[t] = Step(E, t)
    <3>1. CASE t = {}
      BY <3>1
    <3>2. CASE t # {}
      <4> DEFINE r == t \ {pick[t]}
      <4>1. r \in SUBSET U /\ Cardinality(r) <= n
        BY <1>0, <1>1, <2>3, <3>2
      <4>2. F[r] = Step(F, r)
        BY <2>1, <4>1
      <4>3. E[r] = Step(F, r)
        BY <4>1
      <4>4. E[t] = val[pick[t]] + F[r]
        BY <3>2
      <4> QED
        BY <3>2, <4>2, <4>3, <4>4
    <3> QED
      BY <3>1, <3>2
  <2>4. Good(E, n + 1)
    BY <2>3
  <2>5. n + 1 \in Nat
    OBVIOUS
  <2> HIDE DEF Good, E
  <2> QED
    BY <2>2, <2>4, <2>5
<1>4. Cardinality(U) \in H
  <2> HIDE DEF H
  <2> QED
    BY <1>1, <1>2, <1>3, Induction
<1>5. PICK F \in [SUBSET U -> Int] : Good(F, Cardinality(U))
  BY <1>4
<1>6. \A t \in SUBSET U : Cardinality(t) <= Cardinality(U)
  BY FS_Subset
<1>7. \A t \in SUBSET U : F[t] = Step(F, t)
  BY <1>5, <1>6
<1>8. \A t \in SUBSET U : t # {} => val[pick[t]] \in Int /\ F[t \ {pick[t]}] \in Int
  BY <1>0
<1>9. F[{}] = 0
  BY <1>7
<1>10. \A t \in SUBSET U : t # {} => F[t] = F[t \ {pick[t]}] + val[pick[t]]
  <2> SUFFICES ASSUME NEW t \in SUBSET U, t # {} PROVE F[t] = F[t \ {pick[t]}] + val[pick[t]]
    OBVIOUS
  <2>1. F[t] = val[pick[t]] + F[t \ {pick[t]}]
    BY <1>7
  <2>2. val[pick[t]] \in Int /\ F[t \ {pick[t]}] \in Int
    BY <1>8
  <2> QED
    BY <2>1, <2>2
<1>11. F = [t \in SUBSET U |-> F[t]]
  BY <1>5, Zenon
<1> QED
  BY <1>9, <1>10, <1>11, Zenon DEF Folds

\* Each picks its own elements; the sum is the same: any element may be taken away.
LEMMA FoldAddsUp ==
    ASSUME NEW U, IsFiniteSet(U), NEW val \in [U -> Int], NEW pick, Picks(pick, U),
           NEW F, Folds(F, val, pick, U)
    PROVE  AddsUp(F, val, U)
<1> DEFINE G == {s \in SUBSET U : \A x \in s : F[s] = F[s \ {x}] + val[x]}
<1> DEFINE I == {s \in SUBSET U : F[s] \in Int}
<1>5. \A s \in SUBSET U : F[s] \in Int
  <2>1. ASSUME NEW s \in SUBSET U, \A x \in s : s \ {x} \in I PROVE s \in I
    <3>2. ASSUME s # {} PROVE val[pick[s]] \in Int /\ F[s \ {pick[s]}] \in Int
      <4>1. pick[s] \in s /\ pick[s] \in U
        BY <3>2 DEF Picks
      <4> QED
        BY <2>1, <4>1
    <3>1. F[{}] = 0 /\ (s # {} => F[s] = F[s \ {pick[s]}] + val[pick[s]])
      BY <3>2, Zenon DEF Folds
    <3>3. F[s] \in Int
      <4>1. CASE s = {}
        BY <3>1, <4>1
      <4>2. CASE s # {}
        <5>1. val[pick[s]] \in Int /\ F[s \ {pick[s]}] \in Int
          BY <3>2, <4>2
        <5>2. F[s] = F[s \ {pick[s]}] + val[pick[s]]
          BY <3>1, <4>2
        <5> HIDE DEF I
        <5> QED
          BY <5>1, <5>2
      <4> QED
        BY <4>1, <4>2
    <3> QED
      BY <3>3
  <2>2. \A s \in SUBSET U : s \in I
    <3> HIDE DEF I
    <3> QED
      BY <2>1, SubsetInduction
  <2> QED
    BY <2>2
<1>2. ASSUME NEW s \in SUBSET U, \A x \in s : s \ {x} \in G PROVE s \in G
  <2>1. CASE s = {}
    BY <2>1
  <2>2. CASE s # {}
    <3> DEFINE p == pick[s]
    <3>1. p \in s /\ F[s] = F[s \ {p}] + val[p]
      BY <1>5, <2>2 DEF Picks, Folds
    <3>2. ASSUME NEW x \in s PROVE F[s] = F[s \ {x}] + val[x]
      <4>1. CASE x = p
        <5>1. val[p] \in Int /\ F[s \ {p}] \in Int
          BY <1>5, <3>1
        <5> QED
          BY <3>1, <4>1, <5>1
      <4>2. CASE x # p
        <5> DEFINE r == s \ {p, x}
        <5>1. (s \ {p}) \ {x} = r /\ (s \ {x}) \ {p} = r
          OBVIOUS
        <5>2. F[s \ {p}] = F[r] + val[x]
          BY <1>2, <3>1, <4>2, <5>1
        <5>3. F[s \ {x}] = F[r] + val[p]
          BY <1>2, <3>1, <4>2, <5>1
        <5>4. val[x] \in Int /\ val[p] \in Int /\ F[r] \in Int
          BY <1>5, <3>1
        <5> HIDE DEF r
        <5> QED
          BY <3>1, <5>2, <5>3, <5>4
      <4> QED
        BY <4>1, <4>2
    <3> QED
      BY <3>2
  <2> QED
    BY <2>1, <2>2
<1>3. \A s \in SUBSET U : s \in G
  <2> HIDE DEF G
  <2> QED
    BY <1>2, SubsetInduction
<1>4. F = [s \in SUBSET U |-> F[s]]
  BY Zenon DEF Folds
<1> QED
  BY <1>3, <1>4, <1>5 DEF AddsUp, Folds

\* The fold of a sequence picks the greatest index.
LEMMA MaxIn ==
    ASSUME NEW n \in Nat, NEW s \in SUBSET (1..n), s # {}
    PROVE  Max(s) \in s
<1> DEFINE T == {k \in Nat : k <= n /\ n - k \in s}
<1>1. PICK x \in s : TRUE
  OBVIOUS
<1>2. n - x \in T
  OBVIOUS
<1>3. PICK m \in T : \A k \in T : m <= k
  BY <1>2, Least, T \subseteq Nat
<1>4. ASSUME NEW y \in s PROVE n - m >= y
  <2>1. n - y \in T
    OBVIOUS
  <2>3. \A k \in T : m <= k
    BY <1>3
  <2>4. m \in Nat /\ y \in Nat
    OBVIOUS
  <2>2. m <= n - y
    <3> HIDE DEF T
    <3> QED
      BY <2>1, <2>3
  <2> QED
    BY <2>2, <2>4
<1>5. n - m \in s
  BY <1>3
<1>6. \E b \in s : \A y \in s : b >= y
  BY <1>4, <1>5
<1> QED
  BY <1>6, Zenon DEF Max

\* Two sums agree where their summands do.
LEMMA Agree ==
    ASSUME NEW U, NEW V, NEW F, NEW G, NEW v, NEW w, AddsUp(F, v, U), AddsUp(G, w, V)
    PROVE  \A S : /\ S \subseteq U /\ S \subseteq V /\ IsFiniteSet(S)
                  /\ \A x \in S : v[x] = w[x]
              => F[S] = G[S]
<1> SUFFICES ASSUME NEW S, S \subseteq U, S \subseteq V, IsFiniteSet(S),
                    \A x \in S : v[x] = w[x]
             PROVE  F[S] = G[S]
  OBVIOUS
<1> DEFINE H == {s \in SUBSET S : F[s] = G[s]}
<1>1. ASSUME NEW s \in SUBSET S, \A x \in s : s \ {x} \in H PROVE s \in H
  <2>1. CASE s = {}
    BY <2>1 DEF AddsUp
  <2>2. CASE s # {}
    <3>1. PICK x \in s : TRUE
      BY <2>2
    <3>2. F[s] = F[s \ {x}] + v[x] /\ G[s] = G[s \ {x}] + w[x]
      BY <3>1 DEF AddsUp
    <3>3. F[s \ {x}] = G[s \ {x}] /\ v[x] = w[x]
      BY <1>1, <3>1
    <3> QED
      BY <3>2, <3>3
  <2> QED
    BY <2>1, <2>2
<1>2. \A s \in SUBSET S : s \in H
  <2> HIDE DEF H
  <2> QED
    BY <1>1, SubsetInduction
<1> QED
  BY <1>2

\* The fold that the sum of a sequence is defined by adds up.
LEMMA TotalAdds ==
    ASSUME NEW s \in Seq(Int)
    PROVE  \E F : AddsUp(F, s, DOMAIN s) /\ Total(s) = F[DOMAIN s]
<1> DEFINE U == DOMAIN s
           pick == [t \in SUBSET U |-> Max(t)]
           Eq(f) == f = [t \in SUBSET U |-> IF t = {} THEN 0
                           ELSE f[t \ {Max(t)}] + s[Max(t)]]
           F == CHOOSE f : Eq(f)
<1>0. U = 1..Len(s) /\ Len(s) \in Nat /\ IsFiniteSet(U) /\ s \in [U -> Int]
  BY FS_Interval
<1>1. Picks(pick, U)
  BY <1>0, MaxIn DEF Picks
<1>2. \A t \in SUBSET U : t # {} => pick[t] = Max(t) /\ Max(t) \in U /\ s[pick[t]] \in Int
  BY <1>0, <1>1 DEF Picks
<1> HIDE DEF U
<1>3. \E f : Eq(f)
  <2>1. PICK f \in [SUBSET U -> Int] : Folds(f, s, pick, U)
    <3> HIDE DEF pick
    <3> QED
      BY <1>0, <1>1, FoldExists
  <2>2. f = [t \in SUBSET U |-> IF t = {} THEN 0 ELSE f[t \ {Max(t)}] + s[Max(t)]]
    <3> DEFINE R(t) == IF t = {} THEN 0 ELSE f[t \ {Max(t)}] + s[Max(t)]
    <3>1. f = [t \in SUBSET U |-> f[t]]
      BY <2>1, Zenon
    <3>2. ASSUME NEW t \in SUBSET U PROVE f[t] = R(t)
      <4> HIDE DEF pick
      <4>1. CASE t = {}
        BY <2>1, <4>1, Zenon DEF Folds
      <4>2. CASE t # {}
        <5>1. f[t \ {pick[t]}] \in Int
          BY <2>1
        <5>2. f[t] = f[t \ {pick[t]}] + s[pick[t]]
          BY <2>1, <4>2, <5>1, Zenon DEF Folds
        <5> QED
          BY <1>2, <4>2, <5>2
      <4> QED
        BY <4>1, <4>2
    <3> HIDE DEF R
    <3>3. f = [t \in SUBSET U |-> R(t)]
      BY <3>1, <3>2, Zenon
    <3> QED
      BY <3>3, Zenon DEF R
  <2> QED
    BY <2>2
<1>4. Eq(F)
  <2> HIDE DEF Eq
  <2> QED
    BY <1>3, Zenon
<1>5. AddsUp(F, s, U)
  <2> HIDE DEF F
  <2>1. Folds(F, s, pick, U)
    <3>1. \A t \in SUBSET U : F[t] = IF t = {} THEN 0 ELSE F[t \ {Max(t)}] + s[Max(t)]
      BY <1>4, Zenon
    <3>2. F = [t \in SUBSET U |-> F[t]]
      BY <1>4, Zenon
    <3> HIDE DEF pick
    <3>3. F[{}] = 0
      BY <3>1
    <3>4. ASSUME NEW t \in SUBSET U, t # {}, F[t \ {pick[t]}] \in Int
          PROVE  F[t] = F[t \ {pick[t]}] + s[pick[t]]
      BY <1>2, <3>1, <3>4
    <3> QED
      BY <3>2, <3>3, <3>4, Zenon DEF Folds
  <2> HIDE DEF pick, Eq, F
  <2> QED
    BY <1>0, <1>1, <2>1, FoldAddsUp
<1>6. Total(s) = F[U]
  BY Zenon DEF Total, FoldLeft, MapThenFoldSet, Addition, U
<1> QED
  BY <1>5, <1>6, Zenon DEF U

\* What it returns for the operations that the node and the handlers use.
LEMMA TotalAppend ==
    ASSUME NEW s \in Seq(Int), NEW x \in Int
    PROVE  Total(Append(s, x)) = Total(s) + x /\ Total(s) \in Int
<1> DEFINE a == Append(s, x)  n == Len(s)
<1>1. /\ n \in Nat /\ DOMAIN s = 1..n /\ a \in Seq(Int) /\ DOMAIN a = 1..(n + 1)
      /\ a[n + 1] = x /\ \A i \in 1..n : a[i] = s[i]
  OBVIOUS
<1>2. PICK F : AddsUp(F, s, 1..n) /\ Total(s) = F[1..n]
  BY <1>1, TotalAdds
<1>3. PICK G : AddsUp(G, a, 1..(n + 1)) /\ Total(a) = G[1..(n + 1)]
  <2> HIDE DEF a, n
  <2> QED
    BY <1>1, TotalAdds
<1> HIDE DEF a, n
<1>4. F[1..n] = G[1..n]
  <2> DEFINE I == 1..n  J == 1..(n + 1)
  <2>1. I \subseteq J /\ \A i \in I : s[i] = a[i]
    BY <1>1
  <2>2. IsFiniteSet(I)
    BY <1>1, FS_Interval
  <2>3. AddsUp(F, s, I) /\ AddsUp(G, a, J)
    BY <1>2, <1>3
  <2> HIDE DEF I, J
  <2>4. F[I] = G[I]
    BY <2>1, <2>2, <2>3, Agree, I \subseteq I
  <2> QED
    BY <2>4 DEF I
<1>5. G[1..(n + 1)] = G[1..n] + x
  <2>1. (1..(n + 1)) \ {n + 1} = 1..n /\ n + 1 \in 1..(n + 1)
    BY <1>1
  <2>2. AddsUp(G, a, 1..(n + 1))
    BY <1>3
  <2>3. 1..(n + 1) \in SUBSET (1..(n + 1))
    OBVIOUS
  <2>4. G[1..(n + 1)] = G[(1..(n + 1)) \ {n + 1}] + a[n + 1]
    BY <2>1, <2>2, <2>3, Zenon DEF AddsUp
  <2> QED
    BY <1>1, <2>1, <2>4
<1>6. F[1..n] \in Int
  BY <1>2 DEF AddsUp
<1> QED
  BY <1>2, <1>3, <1>4, <1>5, <1>6 DEF a

LEMMA TotalEmpty == Total(<<>>) = 0
<1>1. <<>> \in Seq(Int) /\ DOMAIN <<>> = {}
  OBVIOUS
<1>2. PICK F : AddsUp(F, <<>>, DOMAIN <<>>) /\ Total(<<>>) = F[DOMAIN <<>>]
  BY <1>1, TotalAdds
<1>3. F[{}] = 0
  BY <1>2, Zenon DEF AddsUp
<1> QED
  BY <1>1, <1>2, <1>3, Zenon

LEMMA TotalConcat ==
    ASSUME NEW s \in Seq(Int), NEW t \in Seq(Int)
    PROVE  Total(s \o t) = Total(s) + Total(t)
<1> DEFINE G == {n \in Nat : \A u \in Seq(Int) : Len(u) = n => Total(s \o u) = Total(s) + Total(u)}
<1>0. Total(s) \in Int
  BY TotalAppend
<1>1. 0 \in G
  <2> SUFFICES ASSUME NEW u \in Seq(Int), Len(u) = 0 PROVE Total(s \o u) = Total(s) + Total(u)
    OBVIOUS
  <2>1. u = <<>> /\ s \o u = s
    OBVIOUS
  <2> QED
    BY <1>0, <2>1, TotalEmpty
<1>2. ASSUME NEW n \in Nat, n \in G PROVE n + 1 \in G
  <2> SUFFICES ASSUME NEW u \in Seq(Int), Len(u) = n + 1 PROVE Total(s \o u) = Total(s) + Total(u)
    OBVIOUS
  <2> DEFINE f == SubSeq(u, 1, n)  x == u[n + 1]
  <2>1. f \in Seq(Int) /\ Len(f) = n /\ x \in Int /\ u = Append(f, x)
    OBVIOUS
  <2>2. s \o u = Append(s \o f, x) /\ s \o f \in Seq(Int)
    <3> HIDE DEF f, x
    <3> QED
      BY <2>1
  <2> HIDE DEF f, x
  <2>3. Total(s \o f) = Total(s) + Total(f)
    BY <1>2, <2>1
  <2>4. Total(u) = Total(f) + x /\ Total(f) \in Int
    BY <2>1, TotalAppend
  <2>5. Total(s \o u) = Total(s \o f) + x
    BY <2>1, <2>2, TotalAppend
  <2> QED
    BY <1>0, <2>1, <2>3, <2>4, <2>5
<1>3. \A n \in Nat : n \in G
  <2> HIDE DEF G
  <2> QED
    BY <1>1, <1>2, Induction
<1> QED
  BY <1>3

LEMMA TotalSplit ==
    ASSUME NEW s \in Seq(Int), NEW k \in 0..Len(s)
    PROVE  /\ SubSeq(s, 1, k) \in Seq(Int) /\ SubSeq(s, k + 1, Len(s)) \in Seq(Int)
           /\ Total(s) = Total(SubSeq(s, 1, k)) + Total(SubSeq(s, k + 1, Len(s)))
<1>1. SubSeq(s, 1, k) \in Seq(Int) /\ SubSeq(s, k + 1, Len(s)) \in Seq(Int)
  <2>1. /\ Len(s) \in Nat /\ k \in Int /\ k + 1 \in Int /\ 1 \in Int
        /\ \A i \in 1..k : s[i] \in Int
        /\ \A i \in (k + 1)..Len(s) : s[i] \in Int
    OBVIOUS
  <2> QED
    BY <2>1, SubSeqProperties
<1>2. SubSeq(s, 1, k) \o SubSeq(s, k + 1, Len(s)) = s
  <2>1. /\ 1 \in 1..Len(s)+1 /\ k \in 1-1..Len(s) /\ Len(s) \in k..Len(s)
    OBVIOUS
  <2>2. SubSeq(s, 1, k) \o SubSeq(s, k + 1, Len(s)) = SubSeq(s, 1, Len(s))
    BY <2>1, ConcatAdjacentSubSeq
  <2> QED
    BY <2>2, SubSeqFull
<1> QED
  BY <1>1, <1>2, TotalConcat

LEMMA TotalOne == ASSUME NEW x \in Int PROVE Total(<<x>>) = x
<1> DEFINE e == <<>>
<1>1. e \in Seq(Int) /\ Append(e, x) = <<x>> /\ Total(e) = 0
  BY TotalEmpty
<1> HIDE DEF e
<1>2. Total(Append(e, x)) = Total(e) + x
  BY <1>1, TotalAppend
<1> QED
  BY <1>1, <1>2

LEMMA TotalInsert ==
    ASSUME NEW s \in Seq(Int), NEW k \in 0..Len(s), NEW x \in Int
    PROVE  Total(InsertAt(s, k + 1, x)) = Total(s) + x
<1> DEFINE a == SubSeq(s, 1, k)  b == SubSeq(s, k + 1, Len(s))
<1>1. InsertAt(s, k + 1, x) = (a \o <<x>>) \o b
  <2>1. (k + 1) - 1 = k
    OBVIOUS
  <2>2. InsertAt(s, k + 1, x) = (SubSeq(s, 1, (k + 1) - 1) \o <<x>>) \o SubSeq(s, k + 1, Len(s))
    BY Zenon DEF InsertAt
  <2> QED
    BY <2>1, <2>2, Zenon
<1>2. a \in Seq(Int) /\ b \in Seq(Int) /\ Total(s) = Total(a) + Total(b)
  BY TotalSplit, Zenon
<1> HIDE DEF a, b
<1>3. <<x>> \in Seq(Int) /\ a \o <<x>> \in Seq(Int)
  BY <1>2
<1>4. Total(a \o <<x>>) = Total(a) + x
  BY <1>2, <1>3, TotalConcat, TotalOne
<1>5. Total((a \o <<x>>) \o b) = Total(a \o <<x>>) + Total(b)
  BY <1>2, <1>3, TotalConcat
<1>6. Total(a) \in Int /\ Total(b) \in Int
  BY <1>2, TotalAppend
<1>7. Total((a \o <<x>>) \o b) = Total(s) + x
  BY <1>2, <1>4, <1>5, <1>6
<1> QED
  BY <1>1, <1>7, Zenon

-----------------------------------------------------------------------------
(* What a sale costs.  The node wants coins that cover price, fee and       *)
(* change, and keeps what is over.  Nothing is over: the change is what the *)
(* coins leave, whether it was asked of a browser, of a broker, or taken.   *)

\* A broker signed for coins that are exactly the price, the fee and the change.
Promised(x) ==
    /\ x.offer.price \in Nat /\ x.change \in Nat /\ x.signed \in Seq(Nat)
    /\ x.by \in Brokered /\ x.signed # <<>> => Total(x.signed) = x.offer.price + Fee + x.change

\* What is sent costs the price, or the node does not take it.
Balanced(h) ==
    /\ h.offer.price \in Nat /\ h.change \in Nat /\ h.ins \in Seq(Nat)
    /\ Funded(h) => Total(h.ins) = h.offer.price + Fee + h.change

Costed(h) ==
    /\ h.pc = "accepting" => Promised(h)
    /\ h.pc = "finalizing" => Balanced(h)

MoneyOK ==
    /\ coins \in [Wallets -> Seq(Nat)]
    /\ \A w \in Wallets : deal[w].pc \in {"signing", "waiting"} => Promised(deal[w])
    /\ \A r \in Reqs : Costed(req[r])

LEMMA MoneyMoves ==
    ASSUME IInv, MoneyOK, NEW d, d = Browsing \/ Promised(d), NEW h, Costed(h), coins' = coins,
           UNCHANGED deal \/ \E w : Hold(w, d),
           UNCHANGED req \/ \E r \in Reqs : Become(r, h)
    PROVE  MoneyOK'
<1>1. deal = [w \in Wallets |-> deal[w]] /\ req = [r \in Reqs |-> req[r]]
  BY DEF IInv, BookOK, DealsOK, ReqsOK
<1>2. \A x : (Promised(x) <=> Promised(x)') /\ (Costed(x) <=> Costed(x)')
  BY DEF Promised, Costed, Balanced, Funded
<1>3. ASSUME NEW w \in Wallets, deal'[w].pc \in {"signing", "waiting"} PROVE Promised(deal'[w])
  <2>1. deal'[w] = deal[w] \/ deal'[w] = d
    BY <1>1 DEF Hold
  <2>2. Browsing.pc = "browsing"
    BY DEF Browsing
  <2> QED
    BY <1>3, <2>1, <2>2 DEF MoneyOK
<1>4. ASSUME NEW r \in Reqs PROVE Costed(req'[r])
  <2>1. req'[r] = req[r] \/ req'[r] = h
    BY <1>1 DEF Become
  <2> QED
    BY <2>1 DEF MoneyOK
<1> QED
  BY <1>2, <1>3, <1>4 DEF MoneyOK

\* The first coins of a wallet, and their sum.
LEMMA FirstCoins ==
    ASSUME MoneyOK, NEW h, h.active \in Wallets, NEW n \in Nat, n <= Len(coins[h.active])
    PROVE  First(h, n) \in Seq(Nat) /\ Total(First(h, n)) \in Int
<1>1. coins[h.active] \in Seq(Nat)
  BY DEF MoneyOK
<1>2. First(h, n) \in Seq(Nat)
  <2>1. 1 \in Int /\ n \in Int /\ \A i \in 1..n : coins[h.active][i] \in Nat
    BY <1>1
  <2> QED
    BY <2>1, SubSeqProperties DEF First
<1>3. First(h, n) \in Seq(Int)
  <2>1. \A s \in Seq(Nat) : s \in Seq(Int)
    OBVIOUS
  <2> QED
    BY <1>2, <2>1
<1> QED
  BY <1>2, <1>3, TotalAppend

-----------------------------------------------------------------------------
\* The steps, by what they do to coins and promises.

LEMMA PromiseKnown ==
    ASSUME IInv, MoneyOK, NEW r \in Reqs, req[r].pc = "accepting"
    PROVE  /\ Promised(req[r]) /\ req[r].active \in Wallets
           /\ req[r] = [pc |-> req[r].pc, from |-> req[r].from, active |-> req[r].active,
                        offer |-> req[r].offer, signed |-> req[r].signed, change |-> req[r].change,
                        by |-> req[r].by, ins |-> req[r].ins, store |-> req[r].store]
<1>1. PICK book \in [Ids -> Terms] : BookOK(book)
  BY DEF IInv
<1>2. TakerOK(req[r], book)
  BY <1>1, TakerKnows DEF Taking
<1> QED
  BY <1>2 DEF TakerOK, MoneyOK, Costed

\* Nothing is promised when a browser opens an offer.
LEMMA PreviewCosts ==
    ASSUME IInv, MoneyOK, NEW o \in offers, NEW w \in Wallets, Preview(w, o)
    PROVE  MoneyOK'
<1> DEFINE d == [pc |-> "signing", offer |-> o, signed |-> <<>>, change |-> 0, by |-> w]
<1>1. o.price \in Nat
  <2>1. o.price \in Prices
    BY DEF IInv, BookOK, FileOK, OfferOK, Offers
  <2> QED
    BY <2>1, DirectSwapAssumption
<1>2. d.offer = o /\ d.signed = <<>> /\ d.change = 0
  OBVIOUS
<1>3. Hold(w, d) /\ UNCHANGED <<coins, req>>
  BY DEF Preview, chain
<1> HIDE DEF d
<1>4. Promised(d)
  BY <1>1, <1>2 DEF Promised
<1>5. Costed(Idle)
  BY DEF Costed, Idle
<1> QED
  BY <1>3, <1>4, <1>5, MoneyMoves

\* A fill begins with the promise of the browser.
LEMMA WalletSendCosts ==
    ASSUME IInv, MoneyOK, NEW r \in Reqs, NEW w \in Wallets, NEW active \in Wallets,
           WalletSend(r, w, active)
    PROVE  MoneyOK'
<1>1. PICK d : d = deal[w]
  OBVIOUS
<1>2. /\ d.pc = "signing" /\ Promised(d)
      /\ d = [pc |-> d.pc, offer |-> d.offer, signed |-> d.signed, change |-> d.change, by |-> d.by]
  BY <1>1 DEF WalletSend, MoneyOK, IInv, BookOK, DealsOK, DealOK, Browsing
<1>3. PICK x : x = [d EXCEPT !.pc = "waiting"]
  OBVIOUS
<1>4. x.offer = d.offer /\ x.signed = d.signed /\ x.change = d.change /\ x.by = d.by
  BY <1>2, <1>3
<1>5. Promised(x)
  BY <1>2, <1>4 DEF Promised
<1>6. PICK h : h = [pc |-> "accepting", from |-> w, active |-> active, offer |-> d.offer,
                    signed |-> d.signed, change |-> d.change, by |-> d.by, ins |-> <<>>, store |-> offers]
  OBVIOUS
<1>7. /\ h.pc = "accepting" /\ h.offer = d.offer /\ h.signed = d.signed /\ h.change = d.change
      /\ h.by = d.by
  BY <1>6
<1>8. Costed(h)
  BY <1>2, <1>7 DEF Promised, Costed
<1>9. Become(r, h) /\ Hold(w, x) /\ UNCHANGED coins
  BY <1>1, <1>3, <1>6 DEF WalletSend, chain
<1> QED
  BY <1>5, <1>8, <1>9, MoneyMoves

\* What a browser or a broker is asked to sign.
LEMMA AsksCosts ==
    ASSUME IInv, MoneyOK, NEW r \in Reqs, NEW n \in Nat,
           AskSignatures(r, n) \/ AskChangeSignatures(r, n) \/ AskBroker(r, n)
    PROVE  MoneyOK'
<1>1. PICK g : g = req[r]
  OBVIOUS
<1>2. g.pc = "accepting" /\ n <= Len(coins[g.active])
  BY <1>1 DEF AskSignatures, AskChangeSignatures, AskBroker, Accepting, Reached
<1>3. Promised(g) /\ g.active \in Wallets /\ Fee \in Nat /\ MinChange \in Nat
  BY <1>1, <1>2, PromiseKnown, DirectSwapAssumption
<1>4. First(g, n) \in Seq(Nat) /\ Total(First(g, n)) \in Int
  BY <1>2, <1>3, FirstCoins
<1>5. PICK change : /\ Asks(r, n, change) /\ change \in Nat
                    /\ g.active \in Brokered => change = Left(g, n)
  <2>1. Left(g, n) >= MinChange => Left(g, n) \in Nat
    BY <1>3, <1>4 DEF Left, Promised
  <2> QED
    BY <1>1, <2>1 DEF AskSignatures, AskChangeSignatures, AskBroker
<1>6. PICK d : d = [pc |-> "signing", offer |-> g.offer, signed |-> First(g, n),
                    change |-> change, by |-> g.active]
  OBVIOUS
<1>7. d.offer = g.offer /\ d.signed = First(g, n) /\ d.change = change /\ d.by = g.active
  BY <1>6
<1>8. Promised(d)
  BY <1>3, <1>4, <1>5, <1>7 DEF Promised, Left
<1>9. Hold(g.from, d) /\ Become(r, Idle) /\ UNCHANGED coins
  BY <1>1, <1>5, <1>6 DEF Asks, Answered, chain
<1>10. Costed(Idle)
  BY DEF Costed, Idle
<1> QED
  BY <1>8, <1>9, <1>10, MoneyMoves

\* An exact fill has an output too many, and the node does not take it.
LEMMA AcceptCosts ==
    ASSUME IInv, MoneyOK, NEW r \in Reqs, NEW n \in Nat, AcceptExact(r, n) \/ AcceptWithChange(r, n)
    PROVE  MoneyOK'
<1>1. PICK g : g = req[r]
  OBVIOUS
<1>2. g.pc = "accepting" /\ n <= Len(coins[g.active])
  BY <1>1 DEF AcceptExact, AcceptWithChange, Accepting, Reached
<1>3. /\ Promised(g) /\ g.active \in Wallets /\ Fee \in Nat /\ MinChange \in Nat
      /\ g = [pc |-> g.pc, from |-> g.from, active |-> g.active, offer |-> g.offer,
              signed |-> g.signed, change |-> g.change, by |-> g.by, ins |-> g.ins, store |-> g.store]
  BY <1>1, <1>2, PromiseKnown, DirectSwapAssumption
<1>4. First(g, n) \in Seq(Nat) /\ Total(First(g, n)) \in Int
  BY <1>2, <1>3, FirstCoins
<1>5. PICK change : /\ Accepted(r, n, change) /\ change \in Nat
                    /\ change = Left(g, n) \/ Left(g, n) < change
  <2>1. Left(g, n) \in Int
    BY <1>3, <1>4 DEF Left, Promised
  <2>2. CASE AcceptExact(r, n)
    BY <1>1, <1>3, <2>2 DEF AcceptExact
  <2>3. CASE AcceptWithChange(r, n)
    BY <1>1, <1>3, <2>1, <2>3 DEF AcceptWithChange, Change
  <2> QED
    BY <2>2, <2>3
<1>6. PICK h : h = [g EXCEPT !.pc = "finalizing", !.ins = First(g, n), !.change = change]
  OBVIOUS
<1>7. h.pc = "finalizing" /\ h.offer = g.offer /\ h.ins = First(g, n) /\ h.change = change
  BY <1>3, <1>6
<1>8. Costed(h)
  BY <1>3, <1>4, <1>5, <1>7 DEF Costed, Balanced, Funded, Promised, Left
<1>9. Become(r, h) /\ UNCHANGED <<coins, deal>>
  BY <1>1, <1>5, <1>6 DEF Accepted, chain
<1> QED
  BY <1>8, <1>9, MoneyMoves

LEMMA AcceptBrokerCosts ==
    ASSUME IInv, MoneyOK, NEW r \in Reqs, AcceptBroker(r)
    PROVE  MoneyOK'
<1>1. PICK g : g = req[r]
  OBVIOUS
<1>2. g.pc = "accepting" /\ g.by \in Brokered /\ g.signed # <<>>
  BY <1>1 DEF AcceptBroker
<1>3. /\ Promised(g)
      /\ g = [pc |-> g.pc, from |-> g.from, active |-> g.active, offer |-> g.offer,
              signed |-> g.signed, change |-> g.change, by |-> g.by, ins |-> g.ins, store |-> g.store]
  BY <1>1, <1>2, PromiseKnown
<1>4. PICK h : h = [g EXCEPT !.pc = "finalizing", !.ins = g.signed]
  OBVIOUS
<1>5. h.pc = "finalizing" /\ h.offer = g.offer /\ h.ins = g.signed /\ h.change = g.change
  BY <1>3, <1>4
<1>6. Costed(h)
  BY <1>2, <1>3, <1>5 DEF Costed, Balanced, Promised
<1>7. Become(r, h) /\ UNCHANGED <<coins, deal>>
  BY <1>1, <1>4 DEF AcceptBroker, chain
<1> QED
  BY <1>6, <1>7, MoneyMoves

\* What the node takes of a fill costs the price and a fee.
LEMMA FinalizeSpends ==
    ASSUME IInv, MoneyOK, NEW r \in Reqs, Finalize(r)
    PROVE  /\ req[r].active \in Wallets /\ Spent(req[r]) \in Seq(Nat)
           /\ coins' = [coins EXCEPT ![req[r].active] = Spent(req[r])]
           /\ Total(coins[req[r].active]) - Total(Spent(req[r])) = req[r].offer.price + Fee
<1>1. PICK g : g = req[r]
  OBVIOUS
<1>2. PICK book \in [Ids -> Terms] : BookOK(book)
  BY DEF IInv
<1>3. g.active \in Wallets
  BY <1>1, <1>2, TakerKnows DEF Finalize, Taking, TakerOK
<1>4. /\ g.offer.price \in Nat /\ g.change \in Nat /\ g.ins \in Seq(Nat) /\ Fee \in Nat
      /\ Total(g.ins) = g.offer.price + Fee + g.change
  BY <1>1, DirectSwapAssumption DEF Finalize, MoneyOK, Costed, Balanced
<1>5. PICK s : s = coins[g.active]
  OBVIOUS
<1>6. s \in Seq(Nat) /\ s \in Seq(Int)
  BY <1>3, <1>5 DEF MoneyOK
<1>7. PICK k : k = Len(g.ins)
  OBVIOUS
<1>8. k \in 0..Len(s) /\ g.ins = SubSeq(s, 1, k)
  <2>1. Len(g.ins) \in Nat /\ SubSeq(g.ins, 1, Len(g.ins)) = g.ins
    BY <1>4, SubSeqFull
  <2> QED
    BY <1>1, <1>5, <1>6, <1>7, <2>1 DEF Finalize, SignatureFits, IsPrefix
<1>9. PICK left : left = SubSeq(s, k + 1, Len(s))
  OBVIOUS
<1>10. left \in Seq(Nat) /\ left \in Seq(Int) /\ Total(s) = Total(g.ins) + Total(left)
  <2>1. left \in Seq(Nat)
    <3>1. k + 1 \in Int /\ Len(s) \in Int /\ \A i \in (k + 1)..Len(s) : s[i] \in Nat
      BY <1>6, <1>8
    <3> QED
      BY <1>9, <3>1, SubSeqProperties
  <2>2. Total(s) = Total(SubSeq(s, 1, k)) + Total(SubSeq(s, k + 1, Len(s)))
    BY <1>6, <1>8, TotalSplit
  <2> QED
    BY <1>8, <1>9, <2>1, <2>2
<1>11. PICK larger : larger = {i \in DOMAIN left : left[i] >= g.change}
  OBVIOUS
<1>12. Cardinality(larger) \in 0..Len(left)
  <2>1. larger \subseteq 1..Len(left) /\ Len(left) \in Nat
    BY <1>10, <1>11
  <2>2. IsFiniteSet(1..Len(left)) /\ Cardinality(1..Len(left)) = Len(left)
    BY <2>1, FS_Interval
  <2>3. PICK I : I = 1..Len(left)
    OBVIOUS
  <2>4. IsFiniteSet(larger) /\ Cardinality(larger) <= Cardinality(I)
    BY <2>1, <2>2, <2>3, FS_Subset
  <2>5. Cardinality(larger) \in Nat
    BY <2>4, FS_CardinalityType
  <2> QED
    BY <2>1, <2>2, <2>3, <2>4, <2>5
<1>13. PICK j \in 0..Len(left) : j = Cardinality(larger)
  BY <1>12
<1>14. Spent(g) = InsertAt(left, j + 1, g.change)
  BY <1>5, <1>7, <1>9, <1>11, <1>13, Zenon DEF Spent
<1>15. Total(Spent(g)) = Total(left) + g.change
  BY <1>4, <1>10, <1>14, TotalInsert
<1>16. Spent(g) \in Seq(Nat)
  <2>1. SubSeq(left, 1, j) \in Seq(Nat) /\ SubSeq(left, j + 1, Len(left)) \in Seq(Nat)
    <3>1. /\ 1 \in Int /\ j \in Int /\ j + 1 \in Int /\ Len(left) \in Int
          /\ \A i \in 1..j : left[i] \in Nat
          /\ \A i \in (j + 1)..Len(left) : left[i] \in Nat
      BY <1>10
    <3> QED
      BY <3>1, SubSeqProperties
  <2>2. (j + 1) - 1 = j
    OBVIOUS
  <2>3. Spent(g) = (SubSeq(left, 1, j) \o <<g.change>>) \o SubSeq(left, j + 1, Len(left))
    BY <1>14, <2>2, Zenon DEF InsertAt
  <2> QED
    BY <1>4, <2>1, <2>3
<1>17. Total(left) \in Int /\ Total(g.ins) \in Int
  <2>1. g.ins \in Seq(Int) /\ 0 \in Int
    BY <1>4
  <2>2. \A t \in Seq(Int) : Total(t) \in Int
    BY <2>1, TotalAppend
  <2> QED
    BY <1>10, <2>1, <2>2
<1>18. Total(s) - Total(Spent(g)) = g.offer.price + Fee
  <2> DEFINE a == Total(s)  b == Total(Spent(g))  c == Total(left)  d == Total(g.ins)
             e == g.offer.price  f == g.change
  <2>1. /\ a = d + c /\ b = c + f /\ d = e + Fee + f
        /\ c \in Int /\ d \in Int /\ e \in Int /\ f \in Int /\ Fee \in Int
    BY <1>4, <1>10, <1>15, <1>17
  <2> HIDE DEF a, b, c, d, e, f
  <2>2. a - b = e + Fee
    BY <2>1
  <2> QED
    BY <2>2 DEF a, b, e
<1> QED
  BY <1>1, <1>3, <1>5, <1>16, <1>18 DEF Finalize

LEMMA FinalizeCosts ==
    ASSUME IInv, MoneyOK, NEW r \in Reqs, Finalize(r)
    PROVE  MoneyOK'
<1>1. PICK book \in [Ids -> Terms] : BookOK(book)
  BY DEF IInv
<1>2. coins' \in [Wallets -> Seq(Nat)]
  BY FinalizeSpends DEF MoneyOK
<1>3. UNCHANGED deal /\ \A x : (Promised(x) <=> Promised(x)') /\ (Costed(x) <=> Costed(x)')
  BY DEF Finalize, Promised, Costed, Balanced, Funded
<1>4. ASSUME NEW q \in Reqs PROVE Costed(req'[q])
  <2>1. TakerOK(req[r], book)
    BY <1>1, TakerKnows DEF Finalize, Taking
  <2>2. PICK h : h = [req[r] EXCEPT !.pc = "sent"]
    OBVIOUS
  <2>3. h.pc = "sent"
    BY <2>1, <2>2 DEF TakerOK
  <2>4. req'[q] = h \/ req'[q] = req[q]
    BY <1>1, <2>2 DEF Finalize, Become, BookOK, ReqsOK
  <2> QED
    BY <2>3, <2>4 DEF Costed, MoneyOK
<1> QED
  BY <1>2, <1>3, <1>4 DEF MoneyOK

\* A handler of the maker, and one that is over or that has sent, costs nothing.
LEMMA OtherCosts ==
    ASSUME IInv, MoneyOK,
           \/ \E p \in prep : \/ Sweep(p)
                              \/ \E r \in Reqs : CommitSubmit(r, p) \/ RevealSubmit(r, p) \/ BrokerSubmit(r, p)
           \/ \E terms \in Terms : Prepare(terms)
           \/ \E r \in Reqs : \/ CommitAccepted(r) \/ CommitReplyLost(r) \/ CommitRefused(r)
                              \/ CommitSeen(r) \/ List(r) \/ BrokerList(r) \/ MakerGivenUp(r)
                              \/ TakerGivenUp(r) \/ NotifyMaker(r) \/ MarkFilled(r) \/ StopBeforeMark(r)
           \/ \E o \in offers : Withdraw(o)
           \/ UNCHANGED vars
    PROVE  MoneyOK'
<1>1. PICK book \in [Ids -> Terms] : BookOK(book)
  BY DEF IInv
<1>2. Costed(Idle)
  BY DEF Costed, Idle
<1>3. ASSUME NEW pc \in {"committing", "listing", "brokered"}, NEW t
      PROVE  Costed([pc |-> pc, terms |-> t])
  BY DEF Costed
<1>4. ASSUME NEW r \in Reqs, CommitAccepted(r) PROVE Costed([req[r] EXCEPT !.pc = "waiting"])
  BY <1>1, <1>4, MakerKnows DEF CommitAccepted, Making, MakerOK, Costed
<1>5. ASSUME NEW r \in Reqs, NotifyMaker(r) PROVE Costed([req[r] EXCEPT !.pc = "settled"])
  BY <1>1, <1>5, TakerKnows DEF NotifyMaker, Taking, TakerOK, Costed
<1>6. PICK d : d = Browsing
  OBVIOUS
<1>7. UNCHANGED coins /\ (UNCHANGED deal \/ \E w : Hold(w, d))
  BY <1>6 DEF Sweep, CommitSubmit, RevealSubmit, BrokerSubmit, Prepare, CommitAccepted, CommitReplyLost,
              CommitRefused, CommitSeen, List, BrokerList, MakerGivenUp, TakerGivenUp, NotifyMaker,
              MarkFilled, StopBeforeMark, Withdraw, Answered, Committed, chain, vars
<1>8. UNCHANGED req \/ \E h : Costed(h) /\ \E r \in Reqs : Become(r, h)
  <2>1. ASSUME NEW p \in prep, NEW r \in Reqs, CommitSubmit(r, p) \/ RevealSubmit(r, p) \/ BrokerSubmit(r, p)
        PROVE  \E h : Costed(h) /\ Become(r, h)
    BY <1>3, <2>1 DEF CommitSubmit, RevealSubmit, BrokerSubmit
  <2>2. ASSUME NEW r \in Reqs,
               \/ CommitAccepted(r) \/ CommitReplyLost(r) \/ CommitRefused(r)
               \/ CommitSeen(r) \/ List(r) \/ BrokerList(r) \/ MakerGivenUp(r)
               \/ TakerGivenUp(r) \/ NotifyMaker(r) \/ MarkFilled(r) \/ StopBeforeMark(r)
        PROVE  \E h : Costed(h) /\ Become(r, h)
    BY <1>2, <1>4, <1>5, <2>2 DEF CommitAccepted, CommitReplyLost, CommitRefused, CommitSeen, List,
         BrokerList, MakerGivenUp, TakerGivenUp, NotifyMaker, MarkFilled, StopBeforeMark, Answered
  <2> QED
    BY <2>1, <2>2 DEF Sweep, Prepare, Withdraw, vars
<1> QED
  BY <1>2, <1>6, <1>7, <1>8, MoneyMoves

LEMMA InitCosts == Init => MoneyOK
BY DirectSwapAssumption DEF Init, MoneyOK, Costed, Idle, Browsing

LEMMA StepCosts == IInv /\ MoneyOK /\ [Next]_vars => MoneyOK'
<1> SUFFICES ASSUME IInv, MoneyOK, [Next]_vars PROVE MoneyOK'
  OBVIOUS
<1>1. ASSUME NEW r \in Reqs, NEW n \in 1..3,
             \/ AskSignatures(r, n) \/ AskChangeSignatures(r, n) \/ AskBroker(r, n)
             \/ AcceptExact(r, n) \/ AcceptWithChange(r, n)
      PROVE  MoneyOK'
  BY <1>1, AsksCosts, AcceptCosts, n \in Nat
<1>2. ASSUME NEW r \in Reqs, \/ AcceptBroker(r) \/ Finalize(r)
                             \/ \E w, active \in Wallets : WalletSend(r, w, active)
      PROVE  MoneyOK'
  BY <1>2, AcceptBrokerCosts, FinalizeCosts, WalletSendCosts
<1>3. ASSUME NEW o \in offers, NEW w \in Wallets, Preview(w, o) PROVE MoneyOK'
  BY <1>3, PreviewCosts
<1> QED
  BY <1>1, <1>2, <1>3, OtherCosts DEF Next

THEOREM CostsInvariance == Spec => [](IInv /\ MoneyOK)
<1>1. Init => IInv /\ MoneyOK
  BY InitKept, InitCosts
<1>2. IInv /\ MoneyOK /\ [Next]_vars => (IInv /\ MoneyOK)'
  BY StepKept, StepCosts
<1> QED
  BY <1>1, <1>2, PTL DEF Spec

\* Only the node's answer makes a fill a sale.
LEMMA SentByFinalize ==
    ASSUME IInv, [Next]_vars, NEW r \in Reqs, req[r].pc = "finalizing", req'[r].pc = "sent"
    PROVE  Finalize(r)
<1>1. PICK book \in [Ids -> Terms] : BookOK(book)
  BY DEF IInv
<1>2. \A h : \A q \in Reqs : Become(q, h) /\ h.pc # "sent" => q # r
  BY <1>1 DEF BookOK, ReqsOK, Become
<1>3. \A h : \A q \in Reqs : Become(q, h) /\ q # r => req'[r] = req[r]
  BY <1>1 DEF BookOK, ReqsOK, Become
<1>4. ~ \E h : \E q \in Reqs : Become(q, h) /\ h.pc # "sent"
  BY <1>2, <1>3
<1>5. Idle.pc # "sent" /\ req'[r] # req[r]
  BY DEF Idle
<1>6. ASSUME NEW q \in Reqs, CommitAccepted(q) PROVE FALSE
  <2>1. [req[q] EXCEPT !.pc = "waiting"].pc # "sent"
    BY <1>1, <1>6, MakerKnows DEF CommitAccepted, Making, MakerOK
  <2> QED
    BY <1>4, <1>6, <2>1 DEF CommitAccepted
<1>7. ASSUME NEW q \in Reqs, NEW n \in 1..3, AcceptExact(q, n) \/ AcceptWithChange(q, n) PROVE FALSE
  <2>1. PICK change : Accepted(q, n, change)
    BY <1>7 DEF AcceptExact, AcceptWithChange
  <2>2. TakerOK(req[q], book)
    BY <1>1, <1>7, TakerKnows DEF AcceptExact, AcceptWithChange, Accepting, Taking
  <2>3. [req[q] EXCEPT !.pc = "finalizing", !.ins = First(req[q], n), !.change = change].pc # "sent"
    BY <2>2 DEF TakerOK
  <2> QED
    BY <1>4, <2>1, <2>3 DEF Accepted
<1>8. ASSUME NEW q \in Reqs, AcceptBroker(q) \/ NotifyMaker(q) PROVE FALSE
  <2>1. TakerOK(req[q], book)
    BY <1>1, <1>8, TakerKnows DEF AcceptBroker, NotifyMaker, Taking
  <2>2. /\ [req[q] EXCEPT !.pc = "finalizing", !.ins = req[q].signed].pc # "sent"
        /\ [req[q] EXCEPT !.pc = "settled"].pc # "sent"
    BY <2>1 DEF TakerOK
  <2> QED
    BY <1>4, <1>8, <2>2 DEF AcceptBroker, NotifyMaker
<1>9. ASSUME NEW q \in Reqs, \E w, active \in Wallets : WalletSend(q, w, active) PROVE FALSE
  <2>1. PICK w \in Wallets, active \in Wallets : WalletSend(q, w, active)
    BY <1>9
  <2> QED
    BY <1>4, <2>1 DEF WalletSend
<1>10. ASSUME NEW p \in prep, NEW q \in Reqs, CommitSubmit(q, p) \/ RevealSubmit(q, p) \/ BrokerSubmit(q, p)
       PROVE  FALSE
  BY <1>4, <1>10 DEF CommitSubmit, RevealSubmit, BrokerSubmit
<1>11. ASSUME NEW q \in Reqs,
              \/ CommitReplyLost(q) \/ CommitRefused(q) \/ CommitSeen(q) \/ List(q) \/ BrokerList(q)
              \/ MakerGivenUp(q) \/ TakerGivenUp(q) \/ MarkFilled(q) \/ StopBeforeMark(q)
       PROVE  FALSE
  BY <1>4, <1>5, <1>11 DEF CommitReplyLost, CommitRefused, CommitSeen, List, BrokerList, MakerGivenUp,
                           TakerGivenUp, MarkFilled, StopBeforeMark, Answered
<1>12. ASSUME NEW q \in Reqs, NEW n \in 1..3,
              AskSignatures(q, n) \/ AskChangeSignatures(q, n) \/ AskBroker(q, n)
       PROVE  FALSE
  BY <1>4, <1>5, <1>12 DEF AskSignatures, AskChangeSignatures, AskBroker, Asks, Answered
<1>13. ~UNCHANGED req
  BY <1>5
<1>14. \E q \in Reqs : Finalize(q)
  BY <1>6, <1>7, <1>8, <1>9, <1>10, <1>11, <1>12, <1>13
     DEF Next, vars, Prepare, Sweep, Withdraw, Preview
<1>15. PICK q \in Reqs : Finalize(q)
  BY <1>14
<1> QED
  BY <1>3, <1>5, <1>15 DEF Finalize

\* A taker pays the price and one fee and has the rest back, whatever is asked
\* of browser and broker in between, and whatever other fills do to the coins.
THEOREM SalesCostTheirPrice == Spec => SaleCostsItsPrice
<1> DEFINE Cost == \A r \in Reqs : req[r].pc = "finalizing" /\ req'[r].pc = "sent" =>
          Total(coins[req[r].active]) - Total(coins'[req[r].active]) = req[r].offer.price + Fee
<1>1. IInv /\ MoneyOK /\ [Next]_vars => [Cost]_vars
  <2> SUFFICES ASSUME IInv, MoneyOK, [Next]_vars, NEW r \in Reqs, req[r].pc = "finalizing",
                      req'[r].pc = "sent"
               PROVE  Total(coins[req[r].active]) - Total(coins'[req[r].active]) = req[r].offer.price + Fee
    OBVIOUS
  <2>1. Finalize(r)
    BY SentByFinalize
  <2>2. /\ req[r].active \in Wallets /\ coins' = [coins EXCEPT ![req[r].active] = Spent(req[r])]
        /\ Total(coins[req[r].active]) - Total(Spent(req[r])) = req[r].offer.price + Fee
    BY <2>1, FinalizeSpends
  <2>3. coins'[req[r].active] = Spent(req[r])
    BY <2>2 DEF MoneyOK
  <2> QED
    BY <2>2, <2>3
<1> QED
  BY <1>1, CostsInvariance, PTL DEF Spec, SaleCostsItsPrice
=============================================================================
