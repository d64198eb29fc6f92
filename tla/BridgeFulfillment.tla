------------------------- MODULE BridgeFulfillment -------------------------
(***************************************************************************)
(* How prepared purchases are paid out: routes/wallet_send.ts (the claim   *)
(* and the result of a bridge execution), storage/                         *)
(* bridgeFulfillmentResultStore.ts, and the broker's browser,              *)
(* static/js/bulk_transfer_helper.js over send_engine.js, on top of the    *)
(* bridge queue.                                                           *)
(*                                                                         *)
(* The control node prepares rows into a batch, each with a fresh nonce,   *)
(* and hands out a transfer file.  A browser tab sends the file's rows by  *)
(* the four stages of a KRC-20 transfer.  Its build stage claims the row   *)
(* with the nonce; its reveal stage pays on chain and then writes the      *)
(* result that the control node collects.  The claim is the only lock: the *)
(* later stages check nothing.                                             *)
(*                                                                         *)
(* The control node is external.  It is assumed to prepare only rows that  *)
(* are ready or not yet claimed, and to collect a batch only once every    *)
(* row of it has a result.                                                 *)
(***************************************************************************)
EXTENDS BridgeQueue

CONSTANTS
    Tabs,       \* browser tabs of the broker
    Batches,    \* bound: fulfillment batches
    MaxNonce,   \* bound: preparations
    MaxFaults   \* bound: crashes, lost answers and cleared queues

ASSUME FulfillmentAssumption ==
    /\ Batches \subseteq Nat \ {0} /\ MaxNonce \in Nat /\ MaxFaults \in Nat

VARIABLES
    files,    \* the rows of the transfer files handed out
    tab,      \* what each tab is sending, and how far it came
    paid,     \* history: payouts on chain per nonce
    results,  \* the result file: rows per batch
    known,    \* the result rows that the control node collected
    lost,     \* history: nonces whose payout no result tells of, after a fault
    faults

fulfillVars == <<files, tab, paid, results, known, lost, faults>>
vars == <<queueVars, fulfillVars>>

Nonces == 1..MaxNonce
FileRow == [id: PurchaseIds, batch: Batches, nonce: Nonces]
Resting == [pc |-> "resting"]
\* revealing: the node has the reveal, the server awaits its answer
Sending == [pc: {"built", "committed", "revealing"}, row: FileRow]

FulfillTypeOK ==
    /\ TypeOK
    /\ files \subseteq FileRow
    /\ tab \in [Tabs -> {Resting} \cup Sending]
    /\ paid \in [Nonces -> Nat]
    /\ results \in [Batches -> SUBSET FileRow]
    /\ known \subseteq FileRow
    /\ lost \subseteq Nonces
    /\ faults \in 0..MaxFaults

Init ==
    /\ QueueInit
    /\ files = {}
    /\ tab = [t \in Tabs |-> Resting]
    /\ paid = [n \in Nonces |-> 0]
    /\ results = [b \in Batches |-> {}]
    /\ known = {} /\ lost = {} /\ faults = 0

(***************************************************************************)
(* The control node.                                                       *)
(***************************************************************************)
Used == {f.nonce : f \in files}

Prepare(p, b) ==
    /\ p \in DOMAIN purchases
    /\ purchases[p].status \in {"ready_for_fulfillment", "fulfillment_prepared"}
    /\ purchases[p].user \notin frozen
    /\ \E n \in Nonces \ Used :
          /\ \A m \in Nonces \ Used : n <= m
          /\ UpdatePurchase(p, [status |-> "fulfillment_prepared", batch |-> b, nonce |-> n])
          /\ files' = files \cup {[id |-> p, batch |-> b, nonce |-> n]}
    /\ UNCHANGED <<tab, paid, results, known, lost, faults>>

\* the rows of a batch that still stand as prepared or claimed in the queue
BatchRows(b) == {p \in DOMAIN purchases : purchases[p].batch = b}

\* GET and consume fulfillment-results: collect a complete batch
Collect(b) ==
    /\ results[b] # {}
    /\ BatchRows(b) \subseteq {f.id : f \in results[b] \cup known}
    /\ known' = known \cup results[b]
    /\ results' = [results EXCEPT ![b] = {}]
    /\ UNCHANGED <<queueVars, files, tab, paid, lost, faults>>

\* a collected row is marked as submitted
MarkSubmitted(f) ==
    /\ f \in known /\ f.id \in DOMAIN purchases
    /\ purchases[f.id].status = "fulfillment_executing" /\ purchases[f.id].nonce = f.nonce
    /\ UpdatePurchase(f.id, [status |-> "fulfillment_submitted"])
    /\ UNCHANGED fulfillVars

(***************************************************************************)
(* The wallet.                                                             *)
(***************************************************************************)
\* mutant: the status is not asked
MatchesAnyStatus(row, f) == row.batch = f.batch /\ row.nonce = f.nonce

Matches(row, f) ==
    /\ row.status = "fulfillment_prepared"
    /\ row.batch = f.batch
    /\ row.nonce = f.nonce

\* Stage krc_commit_build: claimPreparedBridgePurchaseExecution runs without
\* an await.  What follows it may fail, which leaves the claim in place.
Build(t, f) ==
    /\ tab[t] = Resting /\ f \in files
    /\ f.id \in DOMAIN purchases
    /\ Matches(purchases[f.id], f)
    /\ purchases' = [purchases EXCEPT ![f.id] =
                        Patched(@, [status |-> "fulfillment_executing"])]
    /\ tab' = [tab EXCEPT ![t] = [pc |-> "built", row |-> f]]
    /\ UNCHANGED <<now, redeems, numbered, wiped, req, asked, frozen, together>>
    /\ UNCHANGED <<files, paid, results, known, lost, faults>>

\* stage krc_commit_submit, then krc_reveal_wait
Commit(t) ==
    /\ tab[t].pc = "built"
    /\ tab' = [tab EXCEPT ![t].pc = "committed"]
    /\ UNCHANGED <<queueVars, files, paid, results, known, lost, faults>>

\* stage krc_reveal_submit: the node takes the payout
Reveal(t) ==
    /\ tab[t].pc = "committed"
    /\ tab' = [tab EXCEPT ![t].pc = "revealing"]
    /\ paid' = [paid EXCEPT ![tab[t].row.nonce] = @ + 1]
    /\ UNCHANGED <<queueVars, files, results, known, lost, faults>>

\* a stage before the payout fails: the tab gives up, the claim stays
GiveUp(t) ==
    /\ tab[t].pc \in {"built", "committed"}
    /\ tab' = [tab EXCEPT ![t] = Resting]
    /\ UNCHANGED <<queueVars, files, paid, results, known, lost, faults>>

\* mutant: the batch's other rows are dropped
UpsertedAlone(rows, f) == {f}

\* persistPreparedBridgePurchaseExecutionResult: the purchase's row of the
\* batch is replaced, the others stay
Upserted(rows, f) == {g \in rows : g.id # f.id} \cup {f}

Persist(t) ==
    /\ tab[t].pc = "revealing"
    /\ tab' = [tab EXCEPT ![t] = Resting]
    /\ LET f == tab[t].row IN
       IF f.id \in DOMAIN purchases
       THEN results' = [results EXCEPT ![f.batch] = Upserted(@, f)] /\ UNCHANGED lost
       ELSE lost' = lost \cup {f.nonce} /\ UNCHANGED results
    /\ UNCHANGED <<queueVars, files, paid, known, faults>>

\* the node's answer to a reveal is lost, or writing the result fails
LoseResult(t) ==
    /\ tab[t].pc = "revealing" /\ faults < MaxFaults
    /\ tab' = [tab EXCEPT ![t] = Resting]
    /\ lost' = lost \cup {tab[t].row.nonce}
    /\ faults' = faults + 1
    /\ UNCHANGED <<queueVars, files, paid, results, known>>

\* the server restarts: only the requests it was serving are gone
Revealing == {t \in Tabs : tab[t].pc = "revealing"}

RestartServer ==
    /\ Crash /\ faults < MaxFaults
    /\ lost' = lost \cup {tab[t].row.nonce : t \in Revealing}
    /\ tab' = [t \in Tabs |-> IF t \in Revealing THEN Resting ELSE tab[t]]
    /\ faults' = faults + 1
    /\ UNCHANGED <<files, paid, results, known>>

Clear ==
    /\ ClearQueue /\ faults < MaxFaults
    /\ faults' = faults + 1
    /\ UNCHANGED <<files, tab, paid, results, known, lost>>

Next ==
    \/ QueueStep /\ UNCHANGED fulfillVars
    \/ \E b \in Batches : Collect(b) \/ \E p \in PurchaseIds : Prepare(p, b)
    \/ \E f \in files : MarkSubmitted(f) \/ \E t \in Tabs : Build(t, f)
    \/ \E t \in Tabs : Commit(t) \/ Reveal(t) \/ GiveUp(t) \/ Persist(t) \/ LoseResult(t)
    \/ RestartServer \/ Clear

Spec == Init /\ [][Next]_vars

(***************************************************************************)
(* Properties.                                                             *)
(***************************************************************************)

(* A purchase is paid out at most once, however many tabs load its file,   *)
(* however often it is prepared again, and across restarts: the claim and  *)
(* its nonce are the execution guard of the build stage; and the queue     *)
(* shows what was paid as taken, so it is not prepared or claimed again.   *)
PaidOnce ==
    /\ \A n \in Nonces : paid[n] <= 1
    /\ \A f, g \in files : f.id = g.id /\ paid[f.nonce] > 0 /\ paid[g.nonce] > 0 => f = g
    /\ \A f \in files : paid[f.nonce] > 0 /\ f.id \in DOMAIN purchases =>
        /\ purchases[f.id].nonce = f.nonce
        /\ purchases[f.id].status \in {"fulfillment_executing", "fulfillment_submitted"}

(* Every payout is on its way to the control node or known to it, unless a *)
(* fault hit between the payout and the write of its result: results of    *)
(* the rows of one batch, written by several tabs, do not lose each other. *)
(* And what the queue reports as submitted was paid out.                   *)
PaidIsReported ==
    /\ \A f \in files : paid[f.nonce] > 0 =>
        \/ f \in results[f.batch] \cup known
        \/ f.nonce \in lost
        \/ \E t \in Revealing : tab[t].row = f
    /\ \A p \in DOMAIN purchases : purchases[p].status = "fulfillment_submitted" =>
        purchases[p].nonce \in Nonces /\ paid[purchases[p].nonce] = 1

\* What the queue ever took in; the payouts, each known by the nonce it was
\* sent under and counted; what the control node knows to be paid.
Booked == DOMAIN purchases \cup DOMAIN redeems \cup wiped
PayoutsMade ==
    UNION {{[order |-> f.id, name |-> <<f.nonce, k>>] : k \in 1..paid[f.nonce]} : f \in files}
Told == {f.id : f \in known}
Submitted == {p \in DOMAIN purchases : purchases[p].status = "fulfillment_submitted"}

TheSettlement == INSTANCE Settlement WITH
    Orders <- PurchaseIds, HandBacks <- RedeemIds, Names <- Nonces \X {1, 2},
    booked <- Booked, payouts <- PayoutsMade, told <- Told, submitted <- Submitted

(* The bridge settles: step by step, an order is booked, paid out once,    *)
(* told to the control node, and then shown as submitted; and the control  *)
(* node is asked for no redeem that the queue had not stored, across       *)
(* failed calls, restarts and cleared queues.                              *)
IsASettlement == TheSettlement!Spec
=============================================================================
