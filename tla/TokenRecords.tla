---------------------------- MODULE TokenRecords ----------------------------
(***************************************************************************)
(* What the KCC20 routes of server.ts know about a token: its outputs on   *)
(* the chain and the tracked asset records of each user's file             *)
(* oma-l1-tracked-assets.json.                                             *)
(*                                                                         *)
(* The chain holds one controller output, which says how much was issued,  *)
(* and holder outputs, which say who has how much.  The server finds them  *)
(* only through its records: a record counts when the outputs that it      *)
(* describes are live.  Every file is read, changed and written without    *)
(* an await in between, so each of the replacements below is one step.     *)
(*                                                                         *)
(* The module follows one asset.  Native coins (funding, fees, change),    *)
(* scripts, keys and carrier amounts are left out.                         *)
(***************************************************************************)
EXTENDS Integers, Sequences, FiniteSets, FiniteSetsExt

CONSTANTS
    Wallets,      \* READY wallets in the users' wallet stores
    Users,
    OwnerOf,      \* the user whose wallet store has the wallet
    MaxSupply,    \* max_supply_raw
    MaxTx         \* bound: accepted transactions

ASSUME TokenAssumption ==
    /\ OwnerOf \in [Wallets -> Users]
    /\ MaxSupply \in Nat \ {0} /\ MaxTx \in Nat
    /\ IsFiniteSet(Users)

VARIABLES
    live,       \* unspent outputs of the asset
    ntx,        \* accepted transactions of the asset; the last one's id
    store       \* tracked asset records of each user

Amounts == 0..MaxSupply
Outpoints == (0..MaxTx) \X (0..2)
NoHolder == <<0, 0>>
Roles == {"controller", "holder"}
\* An output without its place; a controller's amount is the issued supply.
Output == [role: Roles, wallet: Wallets, amount: Amounts]
LiveOutput == [at: Outpoints, role: Roles, wallet: Wallets, amount: Amounts]
Statuses == {"candidate", "live_verified"}
\* OmaL1TrackedAssetRecord: NoHolder when controller_only_zero_supply
Record == [wallet: Wallets, issuer: Wallets, issued: Amounts, controller: Outpoints,
           holder: Outpoints, amount: Amounts, status: Statuses]

Total(S) == MapThenSumSet(LAMBDA o : o.amount, S)
Holders == {o \in live : o.role = "holder"}
Controllers == {o \in live : o.role = "controller"}
AllUnspent(spends) == spends \subseteq {o.at : o \in live}
Out(role, w, n) == [role |-> role, wallet |-> w, amount |-> n]
\* Output i of transaction n has the index i - 1.
OutputsAt(outs, n) ==
    {[at |-> <<n, i - 1>>, role |-> outs[i].role, wallet |-> outs[i].wallet,
      amount |-> outs[i].amount] : i \in DOMAIN outs}

RecordsOK == \A u \in Users : store[u] \subseteq Record

(***************************************************************************)
(* When a tracked record counts.                                           *)
(***************************************************************************)
\* omaL1ExpectedEnvelopesFromTrackedRecord: the outputs that the record
\* describes, or none when it is not the wallet's or its numbers are wrong.
ExpectedOutputs(rec, w) ==
    IF rec.wallet # w \/ rec.amount > rec.issued THEN {}
    ELSE {[at |-> rec.controller, role |-> "controller",
           wallet |-> rec.issuer, amount |-> rec.issued]}
         \cup (IF rec.holder = NoHolder THEN {}
               ELSE {[at |-> rec.holder, role |-> "holder",
                      wallet |-> w, amount |-> rec.amount]})

\* verifyOmaL1TrackedAssetRecordLive
RecordIsLive(rec, w) ==
    LET expected == ExpectedOutputs(rec, w)
    IN  expected # {} /\ expected \subseteq live

\* verifiedOmaL1TokensFromTrackedRecords: a record of the empty controller is
\* not shown beside one with a holder and a supply.
Shown(u, w) ==
    {rec \in store[u] :
        /\ RecordIsLive(rec, w)
        /\ rec.holder = NoHolder =>
              ~ \E other \in store[u] : other.holder # NoHolder /\ other.issued > 0}

(***************************************************************************)
(* The files.                                                              *)
(***************************************************************************)
\* upsertOmaL1TrackedAssetRecord: the only record of its asset
Upserted(records, new) == {new}

\* replaceOmaL1TrackedAssetRecordsAfterHolderTransfer and ...HolderBurn
ReplacedHolders(records, spent, new) ==
    {rec \in records : rec.holder \notin spent /\ \A n \in new : n.holder # rec.holder} \cup new

\* mutant: the records of the old holder stay
ReplacedHoldersAppended(records, spent, new) == records \cup new

\* Every record of the asset gets the new controller and supply.
WithController(records, at, supply) ==
    {[rec EXCEPT !.controller = at, !.issued = supply, !.status = "candidate"] : rec \in records}

\* mutant: a record of the issued holder that is there already stays there
ReplacedAfterIssueAppended(records, old, at, supply, new) ==
    WithController({rec \in records : ~ (rec.holder = NoHolder /\ rec.controller = old)},
                   at, supply) \cup {new}

\* replaceOmaL1TrackedAssetRecordsAfterIssueSubmit
ReplacedAfterIssue(records, old, at, supply, new) ==
    WithController({rec \in records : /\ rec.holder # new.holder
                                      /\ ~ (rec.holder = NoHolder /\ rec.controller = old)},
                   at, supply) \cup {new}

\* replaceOmaL1TrackedAssetRecordsAfterChangeOwnership, for every user
ReplacedAfterChange(at, issuer, supply, new) ==
    [u \in Users |->
        LET isNew == u = OwnerOf[issuer]
            kept == {rec \in store[u] : ~ (isNew /\ rec.holder = new.holder)}
        IN  {[rec EXCEPT !.issuer = issuer] : rec \in WithController(kept, at, supply)}
            \cup (IF isNew THEN {new} ELSE {})]

\* replaceOmaL1TrackedAssetRecordsAfterBurnControllerSupply
ReplacedAfterReclaim(records, at, supply) == WithController(records, at, supply)

=============================================================================
