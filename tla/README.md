# A verification of the Standard Wallet server

The repository is the Token Depot "standard wallet": a browser wallet for KAS, KRC-20 tokens and KCC20
covenant assets on the Kaspa network, and the Node/Express server behind it (`server/src`), which builds and
submits transactions and keeps its state in JSON files. The specifications here model the parts of the server
where several requests, a crash or a lost answer meet one piece of state: what is stored in the files against
what happened on the chain.

One fact shapes every module. The server is one JavaScript process: a handler runs without interruption from one
`await` to the next, and every file access is synchronous. So the code between two awaits is one action, the
handlers in flight are a function from requests to how far they came and what they carry, and an interleaving is
an order of those actions. What a handler read before an await it may use after it, and most of the hazards of this
code are of that form. Files survive a restart; caches and handlers do not.

## 1. Inventory

| Component | Source (under `server/src` unless noted) | State | Operations | Model |
|---|---|---|---|---|
| TN10 faucet | `routes/tn10_faucet.ts`, `storage/tn10FaucetStore.ts` | usage file; UTXOs on the node | claim, status | `Faucet` |
| Programmable-KAS locks, nine families | `server.ts` 2885-5829, 33378-47602 | lock records per user; build caches; UTXOs | build, submit, release/recovery/refund build and submit, track | `CovenantLock` |
| Redeem scripts of the locks | `server.ts` 3048-5165 | none (scripts) | run by the node | `CovenantScript` |
| Bridge queue | `routes/bridge_queue.ts`, `storage/bridgeQueueStore.ts` | queue file | purchase and redeem requests, admin updates, clear, lazy expiry | `BridgeQueue` |
| Bridge fulfillment | `routes/wallet_send.ts`, `storage/bridgeFulfillmentResultStore.ts`, `static/js/bulk_transfer_helper.js` | queue file, result file, the browser's run | claim, four transfer stages, results | `BridgeFulfillment` |
| Open swaps | `routes/swap_mode_open_v2.ts`, `routes/open_swap_send.ts`, `storage/openSwapOffersStore.ts` | offer file; three caches; the listed output | list, cancel, buy | `OpenSwap` |
| Entitlement tokens | `storage/entitlementTokenStore.ts` | rules and sales | sale of a fill, rule update, package arithmetic | sales in `OpenSwap` |
| Energy sites | `routes/energy.ts`, `storage/energyStore.ts`, gate of `routes/krc20_issue.ts` | energy file (sites, ledgers, token locks) | add, remove, download, lock, prepare, issue, finalize | `Energy` |
| KCC20 issuer tokens | `server.ts` 9089-11579, 17881-26945 | tracked records, burn receipts, consumption records per user; build caches; controller and holder outputs | deploy, issue, change of owner, holder transfer, burn, supply update, each build and submit | `TokenRecords`, `IssuerToken` |
| Regulated policy, registry, controls | `server.ts` 12033-17186, 21879-22440, 25826-26452 | saved policy, audit journal, registry records and outputs | create, update, reset, publish; deploy, issue, transfer, seize, forced burn under the policy | `PolicyRegistry`, `RegulatedToken` |
| KCC20 atomic swaps | `server.ts` 5238-5829, 27717-33375 | swap records, tracked holders, offers; build caches; locked outputs | lock, claim, refund (open and direct), finalize-pending, repair | `AtomicSwap`, `Exchange` |
| Direct swaps, legacy open offers | `routes/swap_mode_direct.ts`, `swap_mode_open.ts`, `wallet_send.ts` (pskt), `storage/offersStore.ts`, `static/js/offers.js`, `swaps.js` | preparations, offers file, commits | prepare, commit, list, withdraw, preview, fill in rounds of signatures | `DirectSwap`, `Exchange` |
| Accounts and sessions | `routes/v1_users.ts`, `storage/userStore.ts`, code stores, `auth/session.ts` | users, codes, reset codes, cookies | sign-up, login in two steps, reset, change of address and phone, freeze, delete | `Accounts` |
| KRC-20 deploy, issue, ownership, import | `routes/krc20_*.ts`, `storage/wrappedConfigStore.ts`, pages `deploy-ui.js`, `issue-ui.js`, `wrapped-ui.js` | deployers and owners of tokens; reservations | commit and reveal of a deploy, a hand-over, an issue; import; admin edit | `TokenRegistry`; the issue gate of a site in `Energy` |
| Token metadata cache and reconciler | `storage/tokenMetadataCacheStore.ts`, `krc20MetadataReconciler.ts` | owner shown for a token | reconcile after an issue, a hand-over or an import | in `TokenRegistry` |
| Wallet send | `routes/wallet_send.ts` | caches | stages of a KRC-20 transfer, a taker's payment, plain sends | stages in `BridgeFulfillment`, payment in `DirectSwap` |
| Wallets | `routes/wallets.ts`, `storage/walletStore.ts` | wallets and the active one | select, import, rename, archive | selection in `CovenantLock` and `TokenRegistry` |
| Frozen users | `storage/userStateStore.ts` | frozen accounts | freeze, unfreeze | in `BridgeQueue` and `Accounts` |

`PROJECT.json` lists every component, the small ones included, with its files and what is left out of it.

**How they interact.** The routes meet in files (a purchase is written by `bridge_queue`, claimed by `wallet_send`
and patched by the control node through the admin routes; an offer is written by the maker's routes and by the
taker's finalize; an energy lock is written by `energy`, `krc20_deploy` and `krc20_import` and read by
`krc20_issue`), on the chain (a coin or an output has one spender, whoever was first), and in the browser, which
carries intermediate results between stages. The node, the indexer, Hoymiles and the broker's control node are
external: the models have an answer, a refusal, and an answer that is lost after the effect.

**What is hard, and what makes each component correct:**

- *Faucet.* The quota is tested before five awaits and charged after them. Correct: the file never shows more than
  the limit, charges only payments, and races overdraw by a bounded amount.
- *Locks.* A record is written two awaits after the node took the transaction, releases race with each other,
  track writes what the node said earlier, and nine families look their records up in different ways. Correct: records
  are true of the chain, a release is final, promised parties are let through, and every accepted lock is recorded.
- *Scripts.* A branch that is open to the wrong signer, time or destination, or a stack that is not clean, loses coins
  or locks them for ever. Correct: exactly the promised spends.
- *Bridge.* Lazy expiry against late payments, a row prepared again while a tab holds the older file, two tabs on one
  file, results of one batch from several tabs, restarts between payout and result. Correct: paid once, asked for
  and reported unless a fault hit, one unpaid order per payer, but for requests that wait for their addresses together.
- *Open swaps.* Maker and takers spend one output and report to one record; caches are swept under waiting handlers.
  Correct: the record says what the chain says, a listing is never lost, a sale is booked to the one who has the tokens.
- *Energy.* Handlers write back the file they read before waiting for Hoymiles. Correct: a ledger adds up, a plant has
  one site, no plant has more issued than it produced.
- *Issuer tokens.* The chain has the supply and the balances, and the server finds them only through records it writes
  after several awaits, in the files of sender and recipient. Correct: supply and holdings agree, no balance is shown
  twice, an issuance authorization is good for one issue, but for two that are submitted together or one cut off.
- *Regulated tokens.* Build, submit and record of a control read a policy that may change between any two of them.
  Correct: an epoch names one policy, every change and publication is in the journal first, a registry's line is unbroken.
- *Atomic swaps.* A claim and a refund race for one output, several writes follow each, and a late confirmation may
  repair them. Correct: an exchange happens as a whole or not at all, the maker can always take a locked swap back.
- *Direct swaps.* A commit stands at an address that only the terms determine, a fill goes through rounds of signatures
  and writes back the offers file it read first. Correct: settled once, by the named taker, at the price.
- *Accounts.* Codes are valid for minutes, and what they stand for may change meanwhile. Correct: an address and a phone
  with digits are one account's, accounts and sessions are of those who read the mail that was sent for them, a failed
  sign-up removes no account in use.
- *KRC-20 registry.* The server's record of who may issue lags behind the ledger. Correct: nobody without a claim is
  recorded, the record follows the ledger but for named accidents, a deploy on the ledger is registered.

`PROJECT.json` lists the hazards one by one, at their lines, with the properties that look at them.

## 2. Modules

| Module | What it is | Lines of source |
|---|---|---|
| `RequestTable` | the table of requests in flight, `req`, that the modules with handlers extend | |
| `Faucet` | the claim handler, the usage file, the faucet's coins | `tn10_faucet.ts`, `tn10FaucetStore.ts` |
| `CovenantFamilies` | the nine kinds of lock: what a build route can make, what is promised about spending | shared by the next two |
| `CovenantScript` | every redeem script, run opcode by opcode against every transaction | `server.ts` 3048-5165 |
| `CovenantLock` | the lock handlers over stores, caches and chain | `server.ts` 2885-5829, 33378-47602 |
| `BridgeQueue` | the queue | `bridge_queue.ts`, `bridgeQueueStore.ts` |
| `Settlement` | abstract: what the bridge promises for orders and hand-backs | none |
| `BridgeFulfillment` | an implementation of `Settlement`, extends `BridgeQueue`: control node, transfer files, tabs, payouts, results | `wallet_send.ts`, result store, `bulk_transfer_helper.js` |
| `OpenSwap` | listing, cancelling, buying, the sale of a fill | `swap_mode_open_v2.ts`, `open_swap_send.ts`, stores |
| `Energy` | sites, ledgers, locks, issuing | `energy.ts`, `energyStore.ts`, `krc20_issue.ts` |
| `TokenRecords` | a KCC20 token on the chain, and the tracked-asset file of each user with its replacements | `server.ts` 9301-9440, 10135-11579, 19171-19195 |
| `IssuerToken` | extends `TokenRecords`: the six operations of an issuer token, receipts, consumption records | `server.ts` 7775-7929, 10364-11176, 17942-25822, 26311-26940 |
| `PolicyRegistry` | the saved policy, its journal, the records and outputs of its registries | `server.ts` 12033-13785, 15320-16169 |
| `RegulatedToken` | extends `PolicyRegistry`: publications, and a token's operations under the policy | `server.ts` 15833-17186, 18212-26303 where the policy is read |
| `Exchange` | abstract: what any atomic swap promises | none |
| `AtomicSwap` | KCC20 swaps, an implementation of `Exchange` | `server.ts` 5238-5829, 27717-33375 |
| `DirectSwap` | KRC-20 swaps between named parties, an implementation of `Exchange` | `swap_mode_direct.ts`, `swap_mode_open.ts`, `wallet_send.ts`, `offersStore.ts`, `offers.js`, `swaps.js` |
| `Accounts` | accounts, codes, sessions | `v1_users.ts`, `userStore.ts`, `emailAuthCodeStore.ts`, `passwordResetStore.ts`, `session.ts` |
| `TokenRegistry` | who may issue a KRC-20 token: ledger against files | `krc20_*.ts`, `wrappedConfigStore.ts`, `tokenMetadataCacheStore.ts`, `krc20MetadataReconciler.ts`, three pages |
| `CovenantProofs` | theorems about `CovenantLock` and `CovenantScript` | |
| `BridgeProofs` | theorems about `BridgeQueue` and `BridgeFulfillment`, with the refinement of `Settlement` | |
| `UserProofs` | theorems about `Faucet` and `Accounts` | |
| `Krc20Proofs` | theorems about `Energy`, `TokenRegistry` and `OpenSwap` | |
| `IssuerProofs` | theorems about `IssuerToken` | |
| `TokenProofs` | theorems about `RegulatedToken` with `PolicyRegistry` | |
| `AtomicSwapProofs`, `SwapProofs` | theorems about `AtomicSwap` and about `DirectSwap`, with their refinements of `Exchange` | |
| `MC*` | model values and symmetry for TLC | |

`BridgeFulfillment`, `IssuerToken` and `RegulatedToken` compose by extension: the base module has the state, its
invariants and the actions on it alone, the extending one adds the actors that work on the same state. A module of
theorems may extend several components that share nothing: their formulas then carry the component's name
(`AccountsSpec`, `OpenSpec`, `RegistrySpec`, `ScriptSpec`), and `req` is read as the table of the component at hand.

### Correspondence

- A request in flight is `req[r]` of `RequestTable`, a record with the place `pc` it waits at and the values it carries.
  `Idle` is no request. An action that needs `req[r] = Idle` starts a handler, the other handler actions continue one.
- History variables (`paid`, `booked`, `lost`, `days`, `together`, `used`, `loose`, `named`, `mailed`, `claims`,
  `astray`, `orphans`) say what happened; no guard reads them, except where a bound is named.
- **Faucet**: `CheckQuota` is the handler up to its first RPC await, `ReadUtxos` the answer of `getUtxosByAddresses`,
  `Submit` one accepted transaction of the batch, `Record` `recordTn10FaucetClaim`. Coins are numbers in the node's order,
  and a claim spends the first one it saw: two claims built from one listing conflict on the node.
- **CovenantLock**: a coin is a funding UTXO and names the lock that spends it. `cache[token]` is a build snapshot,
  `fresh`, `cached` or `gone`. `BuildLock`, `BuildRelease` are whole build handlers; a submit handler is `Submit*`
  (its checks), `Broadcast*` (the node's acceptance, its reply, `cache.delete`) and `Record*` (the write after the
  scans). `Releasable` has, family by family, how the release-build routes find the record: by role, by `wallet_id`, by
  derived address, or not at all. `RecordRelease` upserts the copy read before the awaits for DelayedRecovery, and
  patches the stored record otherwise, as the code does.
- **CovenantScript** (besides the scripts, `*Builds` and `*Admits` are what the release-build routes make and what the
  release-submit routes let through, route by route): a key, an address and a script public key are a wallet; a transaction has a signer, a lock time,
  an input sequence and the wallets it pays. `Skip`, `Execute`, `If`, `Else`, `EndIf`, `Finish` are the engine. The opcode
  sources are not in the repository (the directory `crypto/txscript/src/opcodes` of the vendored crate is missing), so
  each opcode is external, as the vendored engine uses it.
- **BridgeQueue**: rows are functions from ids to what the routes decide on. `Normalized` is the lazy expiry that
  readers run. A redeem patch passes absent fields on as `undefined` and hides the row's (`UpdateRedeem`). `together` has
  the pairs of purchases whose requests waited for their deposit addresses at one time.
- **BridgeFulfillment**: a transfer file's rows are `(purchase, batch, nonce)`; a tab goes `built`, `committed`,
  `revealing`. `Build` claims without an await; the later stages check nothing.
- **OpenSwap**: an offer stands for its preparation, terms and output. `prep`, and `rids` for the cancel and finalize
  caches, are swept as the routes sweep them, refused requests included. A cancel carries the record it read first.
- **Energy**: a site and its ledger are one record, a day produces one Wh, one token per network. `Added` and
  `Downloaded` write the snapshot of their handler, not the current file. The browser's part between prepare and
  finalize-refresh is `tab`.
- **TokenRecords, IssuerToken**: one asset. An output is named by transaction and index; `store[u]` is the
  tracked-asset file of a user, and wallets belong to users, so that a transfer writes two files. `Shown` is the balance
  a page gets. Every operation has the same places: `Build*` caches an entry, `Submit*` has the checks up to the first
  await (`*AsBuilt` against the entry, `*Checked` against the chain), `Accept` is the node, `Record*` the writes after
  the outputs showed. An issue goes on through `VerifyIssue`, `RecordVerifiedIssue` and `ConsumeEvent`. A burn leaves a
  receipt that a later supply update ("reclaim") takes off the controller. `ReplyLost` and `Restart` cut a handler off.
  `used` has the authorizations of the issues that the chain took, `loose` those that two handlers held at one time,
  between the submit and the record of the consumption, or that a handler lost when it was cut off.
- **PolicyRegistry, RegulatedToken**: a policy stands for its root, the hash of content and epoch. Every save writes
  the journal before and after (`planned`, then the outcome), and may stop between the two. A registry covenant is one
  live output with the policy it publishes and the one before. Controllers and lots carry the registry and the epoch of
  the profile they were made under. `BuildSeize` and `BuildForcedBurn` move the registry output with the lot.
- **Settlement**: `booked`, `payouts`, `told`, `submitted`, `asked` with the actions `Book`, `PayOut`, `Tell`, `Submit`,
  `Clear`, `Ask`. `PayOut` needs an order that is booked and was not paid, whatever batch or nonce it goes under.
- **Exchange**: `deals`, `ended`, `told` with the actions `Offer`, `Settle`, `TakeBack`, `Tell`. `Settle` pays the maker
  and hands over in one step.
- **AtomicSwap**: outputs are named by their transaction; one lot size, one token, one price. `Entries` are the build
  caches, `Lock` and `Release` what the node does, `Record*` the writes to swap record, holder record and offer, between
  which `Stop` may come. A claim writes a copy of the record read before its awaits, a refund the stored one. `late`
  are offers that ran out, which bars claims and no refunds. A claim of an open swap may name an offer or none, and the
  one it names need not be its swap's: the routes test and close what was named (`:30155-30165`, `:30693-30699`,
  `:30883`). The page always names the swap's own (`offers_open.js:1229-1260`). `named` has what accepted claims named.
- **DirectSwap**: `prep` is the cache of preparations, swept after a time; `commits` are outputs at the address of the
  terms; `req[r]` is a fill from the taker's browser on: the offers file as it was read, the coins chosen, the
  signatures asked for. A broker wallet takes and lists in one step. Amounts are small numbers, with the fee and
  `MIN_CHANGE` among them, since what is decided by amounts (exact, with change, refused) is part of the control.
- **Accounts**: a person is an address; a session is a cookie with the account and, for the property, the code it was
  opened with. `NoDigits` are phones that `normalizePhone` makes empty: the routes take any text for a phone and compare
  only what has digits. A code record has a purpose and an address and replaces an earlier one; `mailed` has what every
  code was mailed for. Mails are requests in flight: they may fail, arrive late, or arrive
  although the handler was told that they failed.
- **TokenRegistry**: `flow[f]` is one operation of a page with the stages `start`, `built`, `committed`, `seen`,
  `sending`, `sent`, `registered`, and what the indexer was asked and answered. `buckets` says whether a file knows the
  network yet: the first access to a fresh one throws.

## 3. Runs

All bounds are constants and named as such in the modules. Symmetry is declared over interchangeable requests, tabs,
users, wallets and ids, in runs of safety properties only (`IsAnExchange` and `IsASettlement` are safety properties:
`Exchange` and `Settlement` have no fairness). `CHECK_DEADLOCK FALSE` is set where a bound really ends the
behaviour (days, coins or build tokens used up, or a script that has ended).

| Run | Question | Bounds, and why they are enough |
|---|---|---|
| `faucet` | what do races, lost answers and crashes do to the quota? | 2 users, 2 claims in flight, limit 5 with claims of 2 (the limit is no multiple of the claim), 2 days so that midnight falls into a claim, 5 coins, batches of 1 or 2, 1 fault |
| `covenant_script` | do the scripts accept exactly the promised spends? | all nine families, every owner and other over 2 wallets, a stranger's key, every lock time, sequence and score up to 2, one or two outputs |
| `covenant_lock` | are the records true and the promises kept? | all families at once, 2 wallets of one user, 1 coin, 2 handlers, 2 snapshots (a lock and a release, or two of one), 1 step of the DAA score, 1 fault. A property is about one coin, so a second one adds nothing |
| `bridge` | is every purchase paid once, truthfully and visibly? | 2 purchases in 2 batches, 2 preparations (both rows once, or one twice), 2 tabs, 1 redeem, 1 fault, a clock that just reaches the expiry, 2 user requests in flight |
| `open_swap` | do maker and takers agree with the file? | 1 offer, 2 takers, 2 handlers, 2 cached ids, caches that expire while a handler waits, 1 fault |
| `energy` | do ledgers add up when whole files are written back? | 1 plant and 2 site ids (so that two users race for it and it can be removed and added again), 2 handlers, 2 tabs, 2 reveals, days 0-2, both networks |
| `issuer_token` | do chain, records and receipts agree? | 2 wallets of 2 users (a transfer crosses files), supply of 2 (a lot can be split), 4 transactions (deploy, issue, transfer or burn, and one that competes), 2 handlers, 1 cached build, 1 issuance event, 1 handler cut off |
| `regulated_token` | does a policy that changes under operations stay what it was published as? | 2 wallets, 3 epochs (so that the policy changes under an operation), 2 transactions, 2 handlers, 1 cached build, 1 cut-off; starts with nothing published, or with an issued token, which is what 2 transactions can seize, burn, transfer or overtake by a publication |
| `atomic_swap` | is every swap an exchange, and can the maker always take it back? | 2 wallets, 2 transactions (a lock and its release, or two releases that race), 2 handlers, 1 cached build, 1 stop or claim by another program; starts with a lot and a recorded swap, direct or open. Claims name their own offer, another one or none |
| `direct_swap` | is every offer settled once, by its taker, at its price? | one standard and one brokered wallet, each maker and taker; purses with an exact fit, a remainder below `MIN_CHANGE` and two coins; one offer listed and one to be made, with equal or different terms, 2 handlers, 1 stop |
| `accounts` | do codes, sessions and accounts fit together? | 2 addresses, a phone with digits and one without, 2 passwords, 2 requests waiting for mail, 2 accounts, 3 codes, 2 attempts |
| `token_registry` | does the record of the issuer follow the ledger? | 1 token, a standard and a brokered wallet, 2 operations under way of which at most one issues, an outside hand-over, both states of each file |

What the passing runs show:

- `faucet`: `RecordedWithinLimit`, `ChargedOnlyIfPaid` (a user is charged only for payments that the node took),
  `OverdraftBounded` (payments above the limit are at most one claim per other request in flight, plus what a fault hides).
- `covenant_script`: `OnlyPromisedSpends` (soundness) and `PromisedSpendsAccepted` (completeness) of the scripts
  against what `covenants.html` promises.
- `covenant_lock`: `RecordsAreOnChain`, `ReleasedRecordIsSpent`, `HoldersCanRelease`, and under fairness
  `AcceptedIsRecorded`: every accepted lock and release reaches its record unless a fault hit. The run has no symmetry.
  The exceptions the properties make are the divergences below.
- `bridge`: `PaidOnce`, `PaidIsReported`, `IsASettlement` (the refinement of `Settlement`), and `UnpaidLockHolds`: two
  orders of a user are open for one payer only if their requests waited for their addresses at one time. Such pairs do
  occur in the run; everybody else is turned away, whatever expired or was cleared in between.
- `open_swap`: `RecordIsTrue`, `OffersMatchListings` (an open offer has its tokens, and listed tokens have a record),
  `SaleWasMade`.
- `energy`: `LedgerAdds`, `SidUnique`, `BookedWithinProduction`.
- `issuer_token`: `SupplyConserved` (the controller's supply is what holders have plus what was burned and not yet
  reclaimed), `ShownIsOwned`, and `AuthorizationUsedOnce`: the chain takes a second issue on one authorization only if
  two submits held it at one time, or a handler was cut off before it recorded it. That a build tested it is not enough,
  so the submit tests it again, in the files of all users.
- `regulated_token`: `EpochNamesPolicy`, `ChangeIsAudited`, `RecordedIsLive`, and `LineageGrows`, an action property.
- `atomic_swap`: `IsAnExchange` (the refinement of `Exchange`), `TrackedIsLive`, `MakerCanTakeBack` (unless a claim of
  another swap named its offer), `OfferTellsTheTruth` (an open offer can be taken, unless its swap was claimed without
  naming it; a filled one was named by a claim that the chain took).
- `direct_swap`: `IsAnExchange` (the refinement), `EachListingItsCommit`, `FilledWasSold`, and `SaleCostsItsPrice`, an
  action property: with or without change, a taker pays the price and one fee.
- `accounts`: `IdentityIsUnique` (addresses, and phones with digits), `MailWasRead` (whoever has an account read a mail
  sent to its address for it, whoever has a session read the one that answered that account's password, though one code is
  kept for a purpose and an address and others may have replaced it), `AnnouncedIsThere`.
- `token_registry`: `RecordedHasClaim`, `RecordFollowsLedger`, `DeployIsRegistered`. `astray` and `orphans` are the
  accidents that the last two exclude; each is named where it is added, and section 4 lists them.

Every property has a mutant of the model, the code changed the way a plausible bug would change it, that violates it
under the run's own configuration. The mutants stand beside the definitions they change.

**Fairness.** Only `covenant_lock` assumes any: weak fairness of `Continue(r)`, the continuation of a handler whose
scans are over. The event loop resumes every handler whose promise is settled. Nothing is assumed of users, of the node
(it may refuse forever), of faults or of time. The other modules state no liveness: what their handlers leave undone
needs a user's next request, which the code does not force, or is not done at all (section 4).

**Refinement.** `TheExchange` instantiates `Exchange` in `AtomicSwap` and `DirectSwap`. A deal is a locked output, or a
commit; it has ended when that output is spent, by a claim that pays the maker or a refund; and what is told is what
the swap records, or the notices to the maker, say. So `IsAnExchange` has two halves: the chain's part (one spend, the
named taker, the maker paid in the same transaction) and the files' part (no record is ahead of the chain). `TheSettlement`
instantiates `Settlement` in `BridgeFulfillment`: an order or a hand-back is booked when its row is stored, and stays so
when the queue is cleared; a payout is named by its nonce and counted, so that a second one is a step that `Settlement`
does not have; told is what the control node collected, submitted is what the rows show, asked is what it was sent.

**Assumptions on the control node**, which is not in the repository: it moves a row on from the status that it has,
prepares only rows that are ready or not yet claimed, and collects a batch only when every row of it has a result. The
admin routes enforce none of this.

## 4. Where code and documents, or code and intent, part

No run expects a violation: the models follow the code, the properties say what is left of the promise, and their
exceptions are these. Each was met while modelling, at the line named.

*Locks.*

- `track` writes a lock back as live after its release was recorded, from what the node said before
  (`server.ts:43451`); no property is about the family's status after a track.
- A delegated owner of a relative-sequence lock passes no release route: they look the record up by the creator's wallet
  (`server.ts:44637`), while the build offers delegation (`:35830`). `HoldersCanRelease` excepts it.
- A relative-sequence record whose scan missed the output keeps a null block DAA score, which nothing fills in later
  (`server.ts:42253`, `:44686`); its release is refused from then on, against `covenants.html:493`.
- An absolute-time or low-level lock whose release overtakes the lock's own record is left as live (`server.ts:43164`).
- The submit of a lock stores the record for the submitting account only (`server.ts:35025`): a recovery party or escrow
  seller with another account has none, while `covenants.html:535` names it as a party that can act. `HoldersCanRelease`
  is about accounts that have the record.
- The release-submit routes check different parts of a transaction: only the relative-sequence and escrow-refund routes
  ask for the node's DAA score again, immediate recovery, owner release and protect test neither lock time nor
  sequence, absolute time tests no sequence (so a finalised transaction passes the route and is refused by the node),
  allowed destination and escrow release test no lock time. None can tell whose signature a transaction carries. The
  scripts decide; `PromisedSpendsAccepted` is about what the build routes make.

*Faucet, bridge, open swaps, energy.*

- Concurrent faucet claims of one user pay more than the daily limit (`tn10_faucet.ts:214`); `OverdraftBounded` says
  by how much.
- Two overlapping purchase requests of one payer both become open orders (`bridge_queue.ts:648`), while the page relies
  on one (`offers.js:3694`); `UnpaidLockHolds` excepts exactly these.
- `admin/redeem/update` with a `payoutTxid` alone erases the row's status (`bridge_queue.ts:1038`,
  `bridgeQueueStore.ts:513`). `redeem/request` may be repeated for one transfer (`:852`). `admin/purchase/update` takes
  any status (`:1004`), and `consume` drops a result added after the read (`:948`): the control node has to be careful.
- A claim whose build fails afterwards leaves its row in `fulfillment_executing` (`wallet_send.ts:517`). The browser
  hands tokens over before it enqueues the redeem (`wrapped-ui.js:1437`).
- A cancel that loses to a taker writes the offer back as open over the fill (`swap_mode_open_v2.ts:1582`, `:1980`
  against `open_swap_send.ts:2090`); the record carries the failure mark, which `OffersMatchListings` reads.
- A listing whose process stops before the record is written is known to nobody (`swap_mode_open_v2.ts:3033`); a commit
  that shows too late keeps its output (`:2861`); a fill after the expiry is not recorded (`open_swap_send.ts:2065`).
- A rule update that changes the seller drops earlier sales, and a changed `package_type` changes what earlier sales
  granted (`entitlementTokenStore.ts:608`).
- A site that is added or downloaded writes back the file as of its start and drops a token lock made meanwhile
  (`energy.ts:456`, `:715`). A report of an issue that never arrives leaves the amount owed (`energy-ui.js:707`), and
  the amount issued on chain is compared by nobody; only the report is.
- A download covers days up to yesterday and then starts after the last day reported; a day that Hoymiles reports
  later than the following ones is never counted.
- A new energy file has no bucket for any network and `canonicalizeEnergyStore` (`energyStore.ts:192-212`) creates none:
  locking a token then throws (`energy.ts:560`, `krc20_deploy.ts:418`, `krc20_import.ts:111`), so the reservation that
  `deploy.html:142` offers is never made. Only a file of an earlier version can lock; `Init` allows both.

*Issuer tokens, policy, atomic swaps.*

- The burn of the last lot removes the record by which a later burn or supply update finds the controller
  (`server.ts:10715`).
- A registry record left as `submitted_pending_visibility` never becomes live (`server.ts:15914-15966`,
  `:16029-16082`); a second registry of another wallet makes the choice ambiguous, which refuses every publication.
- A policy may change between the check and the broadcast of an operation; an issue whose authorization is an EVM
  deposit does not test the policy again (`server.ts:21516`). `EpochNamesPolicy` is what holds regardless.
- An authorization is tested before an issue is sent and recorded when its outputs showed (`server.ts:21505`, `:21742`).
  Two issues that are submitted within that time both pass, and the second one's handler then throws
  (`:10371`) with its issue accepted; an issue that is cut off leaves its authorization for another one.
  `AuthorizationUsedOnce` excepts exactly these.
- A process that stops between the `planned` event and the save leaves an event of a policy that never was;
  `ChangeIsAudited` is an implication for that reason.
- The claim of an open swap takes its `offer_id` from the request, as optional and without comparing it with the swap
  (`server.ts:30155-30165`, `:30693`). Without one, the swap's offer stays open when the swap is gone (`:30883`); with
  another swap's, that offer is closed and its maker's refund refused.
- An atomic swap whose lock was not seen in time stays pending (`server.ts:29896`); a stop between its record and its
  offer leaves an open swap whose refund the route refuses (`:30045`); finalize-pending needs the maker's payment to be unspent (`:33318`); a claim writes a
  copy of the record read before its awaits (`:30858`); the repair of a change is for direct locks only.

*Direct swaps.*

- `buildTxAttempt` adds a change output of `MIN_CHANGE` whatever it was asked (`swap_mode_direct.ts:2711-2722`), while
  the comment at 3754 says that dust becomes fee; a taker who needs two coins can be asked for signatures in turn
  without end (`:3764-3810`), a brokered taker with a small remainder is refused at finalize.
- A fill writes the offers file it read at its start (`wallet_send.ts:1322`, `:1481`): an offer listed or filled
  meanwhile is lost from it. The wallet route ignores the expiry, and reads the maker's balance nowhere.
- A fill takes the one output that it finds at the address of the terms, whatever transaction made it, and the address
  does not depend on the price; the preparation expires after three minutes, which a wait of two can outlast.

*Accounts.*

- A mail that fails clears the code of a newer request (`v1_users.ts:363`). The confirmation of a new address writes the
  phone and the rest as they were when it was asked (`:1090-1104`). A reset code belongs to an address and not to an
  account. A phone is any text, and two without digits are not compared (`userStore.ts:199`, `:249-253`). The mail of a reset is outside the handler's `try` (`:644`): the request is not answered. Sessions outlive
  their account, and are refused where the account is looked up.

*KRC-20 registry.*

- The first access to a network in a fresh metadata cache throws (`tokenMetadataCacheStore.ts:286`, `:305`): every import
  answers 500, and so does a deploy whose metadata resolves, after its reveal and before its reservation.
- The page records the wallet that is active at the reveal as the deployer, not the one that signed. A second wrapped
  deploy maps to the first vault (`krc20_deploy.ts:1056-1070`), and none records its deployer. `wrapped-ui.js:1836` reads
  an undefined `minSig`.
- Two hand-overs in flight, or a lost reply, leave the wrong issuer recorded until an import or the administrator
  repairs it, and a retried deploy after a lost reply of the control node deploys twice. `astray` and `orphans` are these.
- The reveals of issue and hand-over take any coin of the wallet, also those the commit left out
  (`krc20_chown.ts:700`). The administrator's edit writes the whole file it was shown.

*Left out altogether:* the verification of EVM deposits reads the receipt and the head block in two calls, does not repeat
it at the submit, and names an event by its log index, which a reorganisation may change (`server.ts` 17191-17880).

## 5. Proofs

TLAPS checks these for every value of the constants that satisfies the modules' assumptions.

| Theorem | Says |
|---|---|
| `UserProofs!FaucetTypeCorrect`, `RecordedLimit` | types; the usage file stays within the limit |
| `UserProofs!ChargesAreForPayments`, `OverdraftIsBounded` | a user is charged for payments only; racing claims and faults overdraw by so much and no more |
| `CovenantProofs!ScriptsDecide` | a script that has run to its end accepted exactly what its family's closed form `SpentBy` says |
| `CovenantProofs!SpendsArePromised`, `PromisesAreKept` | the scripts admit no spend that was not promised, and every spend that a release route builds |
| `CovenantProofs!LockTypeCorrect` | types |
| `CovenantProofs!RecordsTrueOfChain`, `ReleasedOnlyIfSpent` | no store lists a lock that the chain does not carry with the same parties and unlock score; a record marked released names the transaction that spent its lock |
| `CovenantProofs!PartiesCanRelease` | who holds a live record finds a release route, but for the named exceptions |
| `BridgeProofs!PaidOnceAlways`, `PayoutsAreReported`, `RedeemsAreStoredFirst` | a purchase is paid out once; what was paid is on its way to the control node; a redeem is stored before it is sent |
| `BridgeProofs!BridgeSettles` | the bridge implements `Settlement`: an order is booked, paid out once, told of and shown as submitted, in this order, and no redeem is asked for before it is stored |
| `BridgeProofs!UnpaidLockAlwaysHolds` | two orders of a user are open for one payer only if their requests waited at one time |
| `Krc20Proofs!LedgersAdd`, `PlantsUnique` | owed plus issued is the number of days counted, each once; a plant is one site's |
| `Krc20Proofs!IssuedWithinProduction` | no plant is booked for more than it produced, but after a write that undid another |
| `UserProofs!IdentityStaysUnique`, `MailIsRead`, `AnnouncedStay` | types and the three promises of the accounts |
| `AtomicSwapProofs!SwapTypeCorrect`, `TrackedStaysLive`, `LockedCanBeTakenBack`, `OffersTellTheTruth` | types and the three invariants of the atomic swaps |
| `AtomicSwapProofs!SwapsAreExchanges`, `SwapProofs!DirectSwapsAreExchanges` | both kinds of swap implement `Exchange` |
| `SwapProofs!OffersStandOnCommits`, `FilledIsPaid` | a shown offer stands on a commit of its own; filled means sold at the price |
| `SwapProofs!SalesCostTheirPrice` | the action property `SaleCostsItsPrice`: a taker pays the price and one fee, and has the rest back |
| `Krc20Proofs!RecordsAreTrue`, `FileMatchesListings`, `SalesWereMade` | the three invariants of the open swaps, with their types |
| `TokenProofs!PolicyForEpoch`, `ChangesAreAudited`, `RecordsAreLive` | the three invariants of the regulated tokens |
| `TokenProofs!LinesGrow` | the action property `LineageGrows`: a registry's line is unbroken |
| `Krc20Proofs!RecordedIssuersHaveClaims`, `RecordsFollowTheLedger`, `DeploysAreRegistered` | the three invariants of the KRC-20 registry |
| `IssuerProofs!SupplyInvariance`, `SupplyIsConserved` | the supply that the controller commits to covers what the holders have, and differs from it by the pending burns unless a handler was cut off |
| `IssuerProofs!ShownAreOwned` | a wallet is never shown more of the token than it holds |
| `IssuerProofs!AuthorizationsUsedOnce` | a second issue on an authorization only if two handlers held it at one time, or one that held it was cut off |

**Assumptions.** `FaucetAssumption` is what the handler tests of its configuration (a claim is positive and not above
the daily limit) and that requests are finitely many, as do `RegulatedAssumption` and `IssuerAssumption`;
`TokenAssumption` that users are finitely many and that wallets have owners; `LockAssumption` that wallets and coins
have owners; `EnergyAssumption` that activation dates are days and that site ids are finite;
`RegistryAssumption` that the markers for nobody (a blank field, a missing answer) are no wallets; `PolicyAssumption`
that the bounds admit the initial states (an issued token with a published policy); `FamiliesAssumption` that lock
times are bounded, `ScriptAssumption` that a relative delay is not the sequence number that disables relative locks;
the rest types the bounds.
The runs evaluate the same formulas for their values. No theorem has a hypothesis on the behaviour other than the
specification.

**Arguments.** Hardly any of the invariants is inductive, for one reason: a handler writes, after its await, what
it read before. Each inductive invariant says what such a handler may still rely on, and the proof goes by the actions of
`Next`, with one lemma for each group of them.

- *Faucet.* `RecordedLimit` is inductive with the type of the file: `Record` is the only writer and tests the value it
  replaces. The bound of the overdraft counts the handlers in flight: `BooksOK` says that with quota left, what was paid
  is recorded, about to be, or went with a fault; and that with the quota used up no handler passes the test any more, so
  that what was paid and what the pending ones may still pay stays below the limit plus one claim for every other
  request. The counts are cardinalities, moved by one at a time (`HandlerMoves`).
- *Locks.* Every cache entry, handler and record agrees with the chain (`IInv`), and the chain only grows (`Grows`): a
  lock stays the lock it was, a release the release it was. So what agreed before a step agrees after it, and each action
  needs only its own write. `HoldersCanRelease` needs in addition who funded a lock, in every copy of it (`MadeOK`),
  because two families are found by their funder.
- *Redeem scripts.* A verdict depends on every opcode before it. `ScriptIInv` says for each family where its run can be:
  the opcode, the stack there, the branch taken, and what was learnt on the way, since a run past a check has passed it.
  The families share blocks of code (a signature, a lock time, a recipient), each with one lemma of what it leaves on the
  stack (`SigSteps`, `TimeSteps`, ...), and the steps of a family are steps of its blocks. At the end the verdict is
  `SpentBy`, the script in closed form. The two promises are then facts about `SpentBy` alone: it implies a path whose
  party signed, whose time has come and whose payee is paid, and it follows from what any release route builds. This is
  also what joins the two covenant modules: `CovenantLock` lets the node take a release when the score allows it
  (`Mature`), and by these theorems the script decides just so about what the routes build or let through.
- *Bridge.* A row goes through stages. An early one is in no transfer file; a prepared one has a line for each nonce it
  was prepared with, none sent or paid; a claimed one keeps its nonce, and only the tab that claimed it sends that line,
  which was not paid until the tab reveals. This survives a cleared queue, since an id never returns. For the
  refinement, each step of the bridge is one of `Settlement`'s or a stutter: a new line of a transfer file has a fresh
  nonce, under which nothing was paid, and the reveal is the one step that pays. For the unpaid payer lock, an order
  that is being asked for must have waited together with all others that wait, and with every order that is already open
  for its payer (`WaitersOK`): what was open when it passed the test would have stopped it.
- *Energy.* What holds of the file is required of every file that a handler carries (`GoodFile`), and a waiting handler
  must fit its own: a download starts behind every day that its file counted, so the days are disjoint and cardinalities
  add. A write that undoes others' work therefore drops locks and breaks no ledger: what comes back is an older,
  consistent file. `Books` adds that, as long as no write undid another, a plant's site shows all that was booked for it,
  and that only days that are over are counted, whose number is below today's (`DaysCounted`).
- *Accounts.* A sign-up that waits for its mail removes an account by number if the mail fails. `RequestsOK` says whose
  number: one that this request made, that no other request waits for and that was not announced. That a new account has
  a new number needs that all numbers in use are below the next one, in files and in requests. For the mails, every code
  on file was mailed for what its record says (`MailOK`): what replaces a record is mailed again.
- *Atomic swaps.* A request that the node accepted knows that the chain has its transaction, that its record is still
  there and was recognised, and that the transaction of a lock is known to nobody else before its record is written
  (`RequestsOK`). A swap is released once, so no late write contradicts an earlier one, and the claim that released it
  says which offer, if any, was named. For the refinement each action is
  `Offer`, `Settle`, `TakeBack`, `Tell`, or a stutter: the node's acceptance is the step that offers or ends a deal, and
  the writes that follow only tell what it did.
- *Direct swaps.* A fill writes the whole file of its beginning, with the offer that a browser held. They agree because a
  number has the terms it was prepared with: `IInv` says that there is a book with the terms of every number, and that
  whatever any file, cache, request or browser holds fits it. Only a new offer adds to the book.
  `MoneyOK` follows the price: what a broker was asked to sign are coins that are exactly price, fee and change; what a
  fill sends is that, or is not funded (an exact fill has an output too many, and the node refuses it). That the coins of
  the wallet then sum to price and fee less needs lemmas about sums, below.
- *Open swaps.* A handler that waits for its write knows whose the output is, which cannot change any more; a snapshot
  was open or expired when it was taken; and an offer has a record before anybody can cancel or buy it.
- *Regulated tokens.* As long as the registry output that a build is to spend is live, it is of the registry that the
  build names, with an earlier policy, or the one it keeps. The output of an accepted move stays live until it is recorded,
  since no record names it and so no other build can. Among all policies saved, published, recorded or built upon there is
  one for an epoch. `LinesGrow` follows with the step that moves an output, an `Accept`.
- *KRC-20 registry.* A flow never names anybody without a claim; as long as no accident happened to its token, whom it
  names, or saw named, is the issuer on the ledger; and a deploy that the ledger has not seen is its token's only flow.
- *Issuer tokens.* `SupplyInvariant` says what each file, receipt, cached build and handler may say of the chain. What
  a build spends is there as it was or gone, and its outputs keep what it spends, so a transaction that the chain takes
  moves the supply and the balances by the same amount. The burns are the hard part: a supply update takes off what the
  receipts said before it asked the node, and its own receipts are closed later. It is right because it spends the
  controller: if that controller still lives, nobody else took those receipts (`Due`, `SnapshotOK`), and after the
  transaction nobody knows of the new controller until the handler has closed them (`HandlerInv`: not `Cited`). A handler
  that is cut off in between leaves a controller that no build can reach, so `Balance` keeps both sums: what anybody
  finds covers all pending burns; what nobody finds covers the holders. `ShownIsOwned` needs that no two records of a
  file stand for one holder output (`FileOK`), through replacements by any two operations that overlap.
  For the authorizations, one that was used is on record, held by the handler that used it, or `loose` (`UsedIsTold`). A
  submit finds the first by its test, and makes the second `loose`; so what a handler holds that has still to send, and is
  not `loose`, nobody has used (`HeldIsUnused`).
- *Sums.* The library's induction theorems take an operator and cannot be used; its theorem that the naturals are well
  founded can, and gives the least element of a set of naturals, from it an induction for sets of numbers and one for the
  subsets of a finite set (`Least`, `Induction`, `SubsetInduction`). With them a fold exists and does not depend on the
  order in which it picks (`FoldExists`, `FoldAddsUp`). `IssuerProofs` has from this that the sum over a set is that of
  its parts, and of any set it matches one to one (`SumUnion`, `TotalSplit`, `TotalMatched`); `SwapProofs` that the sum
  of a sequence is what one expects of `Append`, `\o`, `SubSeq` and `InsertAt` (`TotalAppend` to `TotalInsert`).

**Only model-checked.**

- `AcceptedIsRecorded`: liveness under fairness is out of the prover's reach. It is the only one of the runs' properties
  without a theorem.

`PolicyAssumption` and `RegistryAssumption` were made to say what the proofs showed to be needed: an initial state with
an issued token is a state only if the bounds admit its epochs and transactions, and an address that equals the marker
of a missing answer would be read as one. The runs already had such values.

## 6. Not modelled, and what is left

Not modelled:

- The bytes of transactions: validation of what was signed, fee floors, covenant outputs (`server.ts` 581-8836), PSKB and
  PSKT shapes. They enter as a guard that may refuse, or as what the node refuses.
- The choice of coins and the plain sends of `wallet_send.ts` (145-390, 1690-2430), bulk transfers without a purchase.
- The verification of EVM deposits; `IssuerToken` has an authorized event with its amount.
- The package arithmetic of entitlement tokens (active months, stacking, grace), the views and projections of the policy
  journal, reconstruction and read-only routes, the import of one known test token, previews of KCC20 direct swaps.
- Sponsored offers, licence locations and shell packs: files written by synchronous handlers; nothing waits, a unit test
  reaches them. Mail and Hoymiles clients: pure I/O, their failures are inputs. Rendering in pages, the reference edge
  gateway, administration scripts, three-line Rust stubs, the vendored rusty-kaspa.

What is left, in this order:

1. Modules: `Entitlement` as functions against a reference definition; the plain wallet sends with the choice of coins;
   the authorization of an issue by an EVM deposit.
2. What the control node may do beyond the assumptions named in section 3, once its code is at hand.

To repeat a check: `tlc -config MCEnergy.cfg MCEnergy`, and `tlapm Krc20Proofs.tla`.
