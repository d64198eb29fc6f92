---------------------------- MODULE IssuerToken ----------------------------
(***************************************************************************)
(* KCC20 issuer tokens: the routes /api/covenants/issuer-token/ of         *)
(* server.ts that deploy a token, issue more of it, give its controller to *)
(* a new owner, transfer it, burn it, and take what was burned off the     *)
(* issued supply, with the burn receipts and the consumed issuance         *)
(* authorizations that they keep beside the tracked records.               *)
(*                                                                         *)
(* Every operation is a build, which caches an unsigned transaction, and a *)
(* submit, which sends the signed one, waits until its outputs show, and   *)
(* then writes the records.  A handler runs without interruption between   *)
(* two awaits, so one action below is the code between two awaits; a       *)
(* build, which only reads, is one action, except where it reads two files *)
(* that must agree.  Sessions, licences, networks, keys and native coins   *)
(* only refuse a request, and are left out; the regulated policy is module *)
(* RegulatedToken's.                                                       *)
(***************************************************************************)
EXTENDS RequestTable, TokenRecords

CONSTANTS
    Events,       \* verified deposits or test authorizations, for an issue
    EventAmount,  \* the amount_raw that each of them authorizes
    MaxBuilds,    \* bound: builds cached together
    MaxCutOff     \* bound: handlers cut off after their transaction

ASSUME IssuerAssumption ==
    /\ EventAmount \in [Events -> Amounts]
    /\ MaxBuilds \in Nat /\ MaxCutOff \in Nat
    /\ IsFiniteSet(Reqs)

VARIABLES
    regulated,  \* the token carries a regulated profile
    receipts,   \* burn receipts of each user
    consumed,   \* consumption records of all users
    cache,      \* the build caches of the operations
    cutOff,     \* accepted transactions whose handler was cut off
    used,       \* history: the event and the transaction of every accepted issue
    loose       \* history: events that two issues held at one time, or one lost

vars == <<regulated, live, ntx, store, receipts, consumed, cache, req, cutOff, used, loose>>

NoEvent == "none"
Receipt == [tx: 1..MaxTx, wallet: Wallets, amount: Amounts, pending: BOOLEAN]
Operations == {"deploy", "issue", "change_owner", "transfer", "burn", "reclaim"}
Stages == {"checked", "accepted", "issued", "verified", "recorded"}

User(e) == OwnerOf[e.wallet]

\* The entries of the build caches have these fields in common.  record: the
\* verified record that the build started from; new: the new owner's or the
\* recipient's wallet; receipts: transactions whose receipts are reclaimed.
EntryOK(e) ==
    /\ e.op \in Operations /\ e.wallet \in Wallets /\ e.new \in Wallets
    /\ e.spends \subseteq Outpoints /\ e.outs \in UNION {[1..n -> Output] : n \in 0..2}
    /\ e.record \in Record /\ e.amount \in Amounts
    /\ e.event \in Events \cup {NoEvent} /\ e.receipts \subseteq 1..MaxTx

HandlerOK(h) ==
    \/ h = Idle
    \/ h.pc \in Stages /\ EntryOK(h.entry) /\ h.tx \in 0..MaxTx
    \/ /\ h.pc = "reclaim_build" /\ h.wallet \in Wallets
       /\ h.receipts \subseteq Receipt /\ h.records \subseteq Record

TypeOK ==
    /\ regulated \in BOOLEAN
    /\ live \subseteq LiveOutput /\ ntx \in 0..MaxTx
    /\ RecordsOK /\ \A u \in Users : receipts[u] \subseteq Receipt
    /\ consumed \subseteq [event: Events, tx: 1..MaxTx]
    /\ \A e \in cache : EntryOK(e)
    /\ \A r \in Reqs : HandlerOK(req[r])
    /\ cutOff \in 0..MaxCutOff
    /\ used \subseteq [event: Events, tx: 1..MaxTx]
    /\ loose \subseteq Events

Init ==
    /\ regulated \in BOOLEAN
    /\ live = {} /\ ntx = 0 /\ consumed = {} /\ cache = {} /\ used = {} /\ loose = {}
    /\ store = [u \in Users |-> {}] /\ receipts = [u \in Users |-> {}]
    /\ req = [r \in Reqs |-> Idle]
    /\ cutOff = 0

(***************************************************************************)
(* The files.                                                              *)
(***************************************************************************)
\* appendOmaL1BurnReceiptRecord
WithReceipt(old, tx, w, n) ==
    {x \in old : ~ (x.tx = tx /\ x.amount = n)}
    \cup {[tx |-> tx, wallet |-> w, amount |-> n, pending |-> TRUE]}

\* pendingOmaL1BurnReceiptsForControllerSupply, all or the one asked for
PendingReceipts(u, w) == {x \in receipts[u] : x.wallet = w /\ x.pending}

\* mutant: the receipts are not marked
NoReceiptMarked(old, txs) == old

\* markOmaL1BurnReceiptsControllerSupplyUpdated
ReceiptsMarked(old, txs) ==
    {[x EXCEPT !.pending = @ /\ x.tx \notin txs] : x \in old}

\* omaL1IssuanceAuthorizationEventConsumed reads the files of all users.
Consumed(event) == \E c \in consumed : c.event = event

(***************************************************************************)
(* The caches and the chain.                                               *)
(***************************************************************************)
NotBuilding == Cardinality(cache) < MaxBuilds /\ ntx < MaxTx
Entry(op, w, new, spends, outs, rec, n, event, txs) ==
    [op |-> op, wallet |-> w, new |-> new, spends |-> spends, outs |-> outs,
     record |-> rec, amount |-> n, event |-> event, receipts |-> txs]

Cached(e) ==
    /\ NotBuilding /\ cache' = cache \cup {e}
    /\ UNCHANGED <<regulated, live, ntx, store, receipts, consumed, req, cutOff, used, loose>>

\* Any request may find the build expired.
Expire(e) ==
    /\ cache' = cache \ {e}
    /\ UNCHANGED <<regulated, live, ntx, store, receipts, consumed, req, cutOff, used, loose>>

\* What the browser sends back: the build, signed, or with another amount.
SignedTxs(e) ==
    {[spends |-> e.spends, outs |-> e.outs]}
    \cup {[spends |-> e.spends, outs |-> [e.outs EXCEPT ![i].amount = n]] :
             i \in DOMAIN e.outs, n \in Amounts}

\* The authorizations that handlers at these stages hold.
Held(stages) == {req[r].entry.event : r \in {q \in Reqs : req[q].pc \in stages}} \cap Events

\* A submit whose checks of the signed transaction and of its inputs pass goes
\* on with its entry, which it holds by reference: the cache may lose the entry
\* meanwhile, and the inputs may be spent.
Submitted(r, e, signed) ==
    /\ ntx < MaxTx
    /\ Become(r, [pc |-> "checked", tx |-> 0,
                  entry |-> [e EXCEPT !.spends = signed.spends, !.outs = signed.outs]])
    /\ loose' = loose \cup (Held(Stages) \cap {e.event})
    /\ UNCHANGED <<regulated, live, ntx, store, receipts, consumed, cache, cutOff, used>>

Unrecorded(r) == req[r].pc \in {"accepted", "issued", "verified"}

\* rpc.submitTransaction: the node takes a transaction with live inputs, and
\* the handler goes on by deleting the build.  A deploy makes a new asset: only
\* one of them makes this one.
Accept(r) ==
    /\ req[r].pc = "checked" /\ ntx < MaxTx
    /\ LET e == req[r].entry IN
       /\ AllUnspent(e.spends)
       /\ e.op = "deploy" => ntx = 0
       /\ live' = {o \in live : o.at \notin e.spends} \cup OutputsAt(e.outs, ntx + 1)
       /\ cache' = {x \in cache : x.op # e.op \/ x.spends # e.spends \/ x.outs # e.outs}
       /\ used' = IF e.event = NoEvent THEN used
                  ELSE used \cup {[event |-> e.event, tx |-> ntx + 1]}
       /\ Become(r, [pc |-> "accepted", tx |-> ntx + 1, entry |-> e])
    /\ ntx' = ntx + 1
    /\ UNCHANGED <<regulated, store, receipts, consumed, cutOff, loose>>

\* A check fails, an input is spent, or a call to the node fails.
Refused(r) ==
    /\ req[r].pc \in {"checked", "reclaim_build"}
    /\ Become(r, Idle)
    /\ UNCHANGED <<regulated, live, ntx, store, receipts, consumed, cache, cutOff, used, loose>>

(***************************************************************************)
(* deploy                                                                  *)
(***************************************************************************)
\* A regulated token starts empty.
DeployTermsOK(n) == n <= MaxSupply /\ (regulated => n = 0)

\* An empty token has no holder output.
DeployOutputs(w, n) ==
    <<Out("controller", w, n)>> \o (IF n = 0 THEN <<>> ELSE <<Out("holder", w, n)>>)

DeployEntry(w, n) ==
    Entry("deploy", w, w, {}, DeployOutputs(w, n),
          [wallet |-> w, issuer |-> w, issued |-> n, controller |-> NoHolder,
           holder |-> NoHolder, amount |-> n, status |-> "candidate"], n, NoEvent, {})

BuildDeploy(w, n) == DeployTermsOK(n) /\ ntx = 0 /\ Cached(DeployEntry(w, n))

DeployAsBuilt(e, signed) ==
    signed.spends = {} /\ signed.outs = DeployOutputs(e.wallet, e.amount)

SubmitDeploy(r, e) ==
    /\ req[r] = Idle /\ e.op = "deploy" /\ DeployTermsOK(e.amount)
    /\ \E signed \in SignedTxs(e) : DeployAsBuilt(e, signed) /\ Submitted(r, e, signed)

\* omaL1DeploySubmitTrackedAssetCandidate: none for an empty standard token
DeployCandidates(e, tx) ==
    IF e.amount = 0 /\ ~ regulated THEN {}
    ELSE {[e.record EXCEPT !.controller = <<tx, 0>>, !.status = "live_verified",
                           !.holder = IF e.amount = 0 THEN NoHolder ELSE <<tx, 1>>]}

RecordDeploy(r) ==
    /\ req[r].pc = "accepted" /\ req[r].entry.op = "deploy"
    /\ LET u == User(req[r].entry)
           new == {rec \in DeployCandidates(req[r].entry, req[r].tx) :
                     RecordIsLive(rec, req[r].entry.wallet)}
       IN  store' = [store EXCEPT ![u] = IF new = {} THEN @
                                         ELSE Upserted(@, CHOOSE rec \in new : TRUE)]
    /\ Become(r, Idle)
    /\ UNCHANGED <<regulated, live, ntx, receipts, consumed, cache, cutOff, used, loose>>

(***************************************************************************)
(* issue                                                                   *)
(***************************************************************************)
\* The records through which a wallet finds its controller.
ControllerRecords(records, w) == {rec \in records : rec.issuer = w /\ RecordIsLive(rec, w)}

IssueSources(w) == ControllerRecords(store[OwnerOf[w]], w)

IssueWithinSupply(rec, n) == rec.issued + n <= MaxSupply

IssueAuthorized(n, event) ==
    IF regulated THEN event \in Events /\ EventAmount[event] = n /\ ~ Consumed(event)
    ELSE event = NoEvent

IssueOutputs(w, new, rec, n) ==
    <<Out("controller", w, rec.issued + n), Out("holder", new, n)>>

IssueEntry(w, new, rec, n, event) ==
    Entry("issue", w, new, {rec.controller}, IssueOutputs(w, new, rec, n), rec, n, event, {})

BuildIssue(w, new, n, event) ==
    /\ n > 0 /\ IssueAuthorized(n, event)
    /\ \E rec \in IssueSources(w) :
          IssueWithinSupply(rec, n) /\ Cached(IssueEntry(w, new, rec, n, event))

IssueAsBuilt(e, signed) ==
    /\ signed.spends = {e.record.controller}
    /\ signed.outs = IssueOutputs(e.wallet, e.new, e.record, e.amount)

\* mutant: the authorization is asked by the build only
IssueCheckedOnce(e) == AllUnspent({e.record.controller})

\* The controller is live, and the authorization is still unused.
IssueChecked(e) == AllUnspent({e.record.controller}) /\ ~ Consumed(e.event)

SubmitIssue(r, e) ==
    /\ req[r] = Idle /\ e.op = "issue" /\ IssueChecked(e)
    /\ \E signed \in SignedTxs(e) : IssueAsBuilt(e, signed) /\ Submitted(r, e, signed)

IssuedRecord(e, tx) ==
    [wallet |-> e.new, issuer |-> e.wallet, issued |-> e.record.issued + e.amount,
     controller |-> <<tx, 0>>, holder |-> <<tx, 1>>, amount |-> e.amount,
     status |-> "candidate"]

\* Only the caller's file is told, whoever the recipient is.
WriteIssue(e, tx, new) ==
    store' = [store EXCEPT ![User(e)] =
        ReplacedAfterIssue(@, e.record.controller, <<tx, 0>>, e.record.issued + e.amount, new)]

RecordIssue(r) ==
    /\ req[r].pc = "accepted" /\ req[r].entry.op = "issue"
    /\ WriteIssue(req[r].entry, req[r].tx, IssuedRecord(req[r].entry, req[r].tx))
    /\ req' = [req EXCEPT ![r].pc = "issued"]
    /\ UNCHANGED <<regulated, live, ntx, receipts, consumed, cache, cutOff, used, loose>>

\* The new record is verified, unless the outputs do not show in time.
VerifyIssue(r) ==
    /\ req[r].pc = "issued"
    /\ \/ /\ RecordIsLive(IssuedRecord(req[r].entry, req[r].tx), req[r].entry.wallet)
          /\ req' = [req EXCEPT ![r].pc = "verified"]
       \/ req' = [req EXCEPT ![r].pc = "recorded"]
    /\ UNCHANGED <<regulated, live, ntx, store, receipts, consumed, cache, cutOff, used, loose>>

\* The second write, whatever was written while the node answered.
RecordVerifiedIssue(r) ==
    /\ req[r].pc = "verified"
    /\ WriteIssue(req[r].entry, req[r].tx,
                  [IssuedRecord(req[r].entry, req[r].tx) EXCEPT !.status = "live_verified"])
    /\ req' = [req EXCEPT ![r].pc = "recorded"]
    /\ UNCHANGED <<regulated, live, ntx, receipts, consumed, cache, cutOff, used, loose>>

\* appendOmaL1IssuanceAuthorizationConsumptionRecord throws when it is there.
AppendConsumption(event, tx) ==
    consumed' = IF event = NoEvent \/ Consumed(event) THEN consumed
                ELSE consumed \cup {[event |-> event, tx |-> tx]}

ConsumeEvent(r) ==
    /\ req[r].pc = "recorded"
    /\ AppendConsumption(req[r].entry.event, req[r].tx)
    /\ Become(r, Idle)
    /\ UNCHANGED <<regulated, live, ntx, store, receipts, cache, cutOff, used, loose>>

(***************************************************************************)
(* change-owner                                                            *)
(***************************************************************************)
\* The new owner gets an empty holder output to be recognized by.
ChangeOutputs(new, rec) == <<Out("controller", new, rec.issued), Out("holder", new, 0)>>

ChangeSources(w) == ControllerRecords(store[OwnerOf[w]], w)

ChangeEntry(w, new, rec) ==
    Entry("change_owner", w, new, {rec.controller}, ChangeOutputs(new, rec), rec, 0, NoEvent, {})

BuildChange(w, new) ==
    new # w /\ \E rec \in ChangeSources(w) : Cached(ChangeEntry(w, new, rec))

ChangeAsBuilt(e, signed) ==
    signed.spends = {e.record.controller} /\ signed.outs = ChangeOutputs(e.new, e.record)

ChangeChecked(e) == AllUnspent({e.record.controller})

SubmitChange(r, e) ==
    /\ req[r] = Idle /\ e.op = "change_owner" /\ ChangeChecked(e)
    /\ \E signed \in SignedTxs(e) : ChangeAsBuilt(e, signed) /\ Submitted(r, e, signed)

RecognitionRecord(e, tx) ==
    [wallet |-> e.new, issuer |-> e.new, issued |-> e.record.issued, controller |-> <<tx, 0>>,
     holder |-> <<tx, 1>>, amount |-> 0, status |-> "candidate"]

RecordChange(r) ==
    /\ req[r].pc = "accepted" /\ req[r].entry.op = "change_owner"
    /\ LET e == req[r].entry
       IN  store' = ReplacedAfterChange(<<req[r].tx, 0>>, e.new, e.record.issued,
                                        RecognitionRecord(e, req[r].tx))
    /\ Become(r, Idle)
    /\ UNCHANGED <<regulated, live, ntx, receipts, consumed, cache, cutOff, used, loose>>

(***************************************************************************)
(* holder-transfer                                                         *)
(***************************************************************************)
LiveLots(w) ==
    {rec \in store[OwnerOf[w]] : RecordIsLive(rec, w) /\ rec.holder # NoHolder /\ rec.amount > 0}

\* The smallest record that covers the amount, or else the largest ones, as
\* many as it takes.
Selections(S, n) ==
    LET covering == {rec \in S : rec.amount >= n}
    IN  IF covering # {}
        THEN {{rec} : rec \in {x \in covering : \A y \in covering : x.amount <= y.amount}}
        ELSE {T \in SUBSET S :
                /\ Total(T) >= n
                /\ \A x \in T, y \in S \ T : x.amount >= y.amount
                /\ \E x \in T : Total(T \ {x}) < n /\ \A y \in T : x.amount <= y.amount}

\* mutant: what is left is not given back
NoChangeOutput(w, n) == <<>>

ChangeOutput(w, n) == IF n = 0 THEN <<>> ELSE <<Out("holder", w, n)>>

TransferSources(w, n) == Selections(LiveLots(w), n)

TransferOutputs(w, new, total, n) == <<Out("holder", new, n)>> \o ChangeOutput(w, total - n)

TransferEntry(w, new, S, rec, n) ==
    Entry("transfer", w, new, {x.holder : x \in S}, TransferOutputs(w, new, Total(S), n), rec, n,
          NoEvent, {})

BuildTransfer(w, new, n) ==
    /\ n > 0
    /\ \E S \in TransferSources(w, n) : \E rec \in S : Cached(TransferEntry(w, new, S, rec, n))

TransferAsBuilt(e, signed) == signed.spends = e.spends /\ signed.outs = e.outs

TransferChecked(e) == AllUnspent(e.spends)

SubmitTransfer(r, e) ==
    /\ req[r] = Idle /\ e.op = "transfer" /\ TransferChecked(e)
    /\ \E signed \in SignedTxs(e) : TransferAsBuilt(e, signed) /\ Submitted(r, e, signed)

\* omaL1HolderTransferTrackedAssetCandidate: the controller and the supply are
\* those of the build.
HolderCandidate(e, tx, i) ==
    [e.record EXCEPT !.wallet = e.outs[i].wallet, !.holder = <<tx, i - 1>>,
                     !.amount = e.outs[i].amount, !.status = "candidate"]

\* The recipient gets a record when it is another wallet of the same user.
RecordTransfer(r) ==
    /\ req[r].pc = "accepted" /\ req[r].entry.op = "transfer"
    /\ LET e == req[r].entry
           new == {HolderCandidate(e, req[r].tx, i) :
                     i \in {j \in DOMAIN e.outs : OwnerOf[e.outs[j].wallet] = User(e)}}
       IN  store' = [store EXCEPT ![User(e)] = ReplacedHolders(@, e.spends, new)]
    /\ Become(r, Idle)
    /\ UNCHANGED <<regulated, live, ntx, receipts, consumed, cache, cutOff, used, loose>>

(***************************************************************************)
(* burn                                                                    *)
(***************************************************************************)
BurnSources(w, n) == Selections(LiveLots(w), n)

BurnOutputs(w, total, n) == ChangeOutput(w, total - n)

BurnEntry(w, S, rec, n) ==
    Entry("burn", w, w, {x.holder : x \in S}, BurnOutputs(w, Total(S), n), rec, n, NoEvent, {})

\* A regulated token goes by the lawful-order path.
BuildBurn(w, n) ==
    /\ n > 0 /\ ~ regulated
    /\ \E S \in BurnSources(w, n) : \E rec \in S : Cached(BurnEntry(w, S, rec, n))

BurnAsBuilt(e, signed) == signed.spends = e.spends /\ signed.outs = e.outs

BurnChecked(e) == AllUnspent(e.spends) /\ ~ regulated

SubmitBurn(r, e) ==
    /\ req[r] = Idle /\ e.op = "burn" /\ BurnChecked(e)
    /\ \E signed \in SignedTxs(e) : BurnAsBuilt(e, signed) /\ Submitted(r, e, signed)

\* omaL1HolderBurnTrackedAssetCandidate
BurnCandidates(e, tx) == {HolderCandidate(e, tx, i) : i \in DOMAIN e.outs}

RecordBurn(r) ==
    /\ req[r].pc = "accepted" /\ req[r].entry.op = "burn"
    /\ LET e == req[r].entry
           u == User(e)
       IN  /\ store' = [store EXCEPT ![u] =
                            ReplacedHolders(@, e.spends, BurnCandidates(e, req[r].tx))]
           /\ receipts' = [receipts EXCEPT ![u] = WithReceipt(@, req[r].tx, e.wallet, e.amount)]
    /\ Become(r, Idle)
    /\ UNCHANGED <<regulated, live, ntx, consumed, cache, cutOff, used, loose>>

(***************************************************************************)
(* burn/controller-supply, reclaim below                                   *)
(***************************************************************************)
\* Both files are read here; the node is asked afterwards.
StartReclaim(r, w) ==
    /\ req[r] = Idle /\ ntx < MaxTx
    /\ LET u == OwnerOf[w]
           pending == PendingReceipts(u, w)
       IN  /\ pending # {}
           /\ \E chosen \in {pending} \cup {{x} : x \in pending} :
                 Become(r, [pc |-> "reclaim_build", wallet |-> w, receipts |-> chosen,
                            records |-> store[u]])
    /\ UNCHANGED <<regulated, live, ntx, store, receipts, consumed, cache, cutOff, used, loose>>

ReclaimSources(records, w, n) == {rec \in ControllerRecords(records, w) : n <= rec.issued}

ReclaimOutputs(w, rec, n) == <<Out("controller", w, rec.issued - n)>>

ReclaimEntry(w, rec, n, txs) ==
    Entry("reclaim", w, w, {rec.controller}, ReclaimOutputs(w, rec, n), rec, n, NoEvent, txs)

\* mutant: the records are read when the node has answered
BuildReclaimReread(r) ==
    /\ req[r].pc = "reclaim_build" /\ NotBuilding
    /\ LET w == req[r].wallet
           n == Total(req[r].receipts)
       IN  \E rec \in ReclaimSources(store[OwnerOf[w]], w, n) :
             cache' = cache \cup {ReclaimEntry(w, rec, n, {x.tx : x \in req[r].receipts})}
    /\ Become(r, Idle)
    /\ UNCHANGED <<regulated, live, ntx, store, receipts, consumed, cutOff, used, loose>>

BuildReclaim(r) ==
    /\ req[r].pc = "reclaim_build" /\ NotBuilding
    /\ LET w == req[r].wallet
           n == Total(req[r].receipts)
       IN  \E rec \in ReclaimSources(req[r].records, w, n) :
             cache' = cache \cup {ReclaimEntry(w, rec, n, {x.tx : x \in req[r].receipts})}
    /\ Become(r, Idle)
    /\ UNCHANGED <<regulated, live, ntx, store, receipts, consumed, cutOff, used, loose>>

ReclaimAsBuilt(e, signed) ==
    /\ signed.spends = {e.record.controller}
    /\ signed.outs = ReclaimOutputs(e.wallet, e.record, e.amount)

ReclaimChecked(e) == AllUnspent({e.record.controller})

SubmitReclaim(r, e) ==
    /\ req[r] = Idle /\ e.op = "reclaim" /\ ReclaimChecked(e)
    /\ \E signed \in SignedTxs(e) : ReclaimAsBuilt(e, signed) /\ Submitted(r, e, signed)

RecordReclaim(r) ==
    /\ req[r].pc = "accepted" /\ req[r].entry.op = "reclaim"
    /\ LET e == req[r].entry
           u == User(e)
       IN  /\ store' = [store EXCEPT ![u] =
                            ReplacedAfterReclaim(@, <<req[r].tx, 0>>, e.record.issued - e.amount)]
           /\ receipts' = [receipts EXCEPT ![u] = ReceiptsMarked(@, e.receipts)]
    /\ Become(r, Idle)
    /\ UNCHANGED <<regulated, live, ntx, consumed, cache, cutOff, used, loose>>

(***************************************************************************)
(* Faults.                                                                 *)
(***************************************************************************)
\* The node took the transaction and the answer is lost, or a deploy does not
\* show before the handler gives up: the handler ends without a record.
ReplyLost(r) ==
    /\ req[r].pc = "accepted" /\ cutOff < MaxCutOff
    /\ Become(r, Idle)
    /\ cutOff' = cutOff + 1
    /\ loose' = loose \cup ({req[r].entry.event} \cap Events)
    /\ UNCHANGED <<regulated, live, ntx, store, receipts, consumed, cache, used>>

\* The caches are in memory, the files on disk.
Restart ==
    /\ cutOff' = cutOff + Cardinality({r \in Reqs : Unrecorded(r) \/ req[r].pc = "recorded"})
    /\ cutOff' <= MaxCutOff
    /\ loose' = loose \cup Held(Stages \ {"checked"})
    /\ cache' = {} /\ req' = [r \in Reqs |-> Idle]
    /\ UNCHANGED <<regulated, live, ntx, store, receipts, consumed, used>>

Builds ==
    \E w \in Wallets :
       \/ \E n \in Amounts : BuildDeploy(w, n) \/ BuildBurn(w, n)
       \/ \E new \in Wallets :
             \/ BuildChange(w, new)
             \/ \E n \in Amounts :
                   \/ BuildTransfer(w, new, n)
                   \/ \E event \in Events \cup {NoEvent} : BuildIssue(w, new, n, event)

Submits(r) ==
    \/ \E w \in Wallets : StartReclaim(r, w)
    \/ \E e \in cache :
          \/ SubmitDeploy(r, e) \/ SubmitIssue(r, e) \/ SubmitChange(r, e)
          \/ SubmitTransfer(r, e) \/ SubmitBurn(r, e) \/ SubmitReclaim(r, e)

Handler(r) ==
    \/ BuildReclaim(r) \/ Accept(r)
    \/ RecordDeploy(r) \/ RecordIssue(r) \/ VerifyIssue(r) \/ RecordVerifiedIssue(r)
    \/ ConsumeEvent(r) \/ RecordChange(r) \/ RecordTransfer(r) \/ RecordBurn(r)
    \/ RecordReclaim(r)

Next ==
    \/ Builds
    \/ \E r \in Reqs : Submits(r) \/ Handler(r) \/ Refused(r) \/ ReplyLost(r)
    \/ \E e \in cache : Expire(e)
    \/ Restart

Spec == Init /\ [][Next]_vars

(***************************************************************************)
(* Properties.                                                             *)
(***************************************************************************)
\* What was burned and not yet taken off the supply, as the files and the
\* handlers that are about to write them say.
Pending ==
    MapThenSumSet(LAMBDA u : Total({x \in receipts[u] : x.pending}), Users)
    + MapThenSumSet(LAMBDA r :
         IF ~ Unrecorded(r) THEN 0
         ELSE CASE req[r].entry.op = "burn" -> req[r].entry.amount
                [] req[r].entry.op = "reclaim" -> 0 - req[r].entry.amount
                [] OTHER -> 0,
         Reqs)

\* The controller never says less than what its holders have, and no burn is
\* taken off the supply twice: the supply is what the holders have and what the
\* pending receipts say, unless a handler was cut off after its transaction.
SupplyConserved ==
    \A c \in Controllers :
        /\ c.amount >= Total(Holders)
        /\ cutOff = 0 => c.amount = Total(Holders) + Pending

\* No balance is shown that the wallet does not have: no two live records of a
\* file stand for one holder output.
ShownIsOwned ==
    \A w \in Wallets :
        Total(Shown(OwnerOf[w], w)) <= Total({o \in Holders : o.wallet = w})

\* The chain takes a second issue on one authorization only if their submits
\* overlapped, or a handler was cut off before it recorded the authorization as
\* consumed: it is tested before the broadcast and recorded after the outputs
\* showed, and whoever comes later is refused, whatever was built before.
AuthorizationUsedOnce ==
    \A u, v \in used : u.event = v.event => u = v \/ u.event \in loose

=============================================================================
