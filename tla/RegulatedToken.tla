--------------------------- MODULE RegulatedToken ---------------------------
(***************************************************************************)
(* A regulated KCC20 token under the policy of module PolicyRegistry: the  *)
(* routes of server.ts that publish the policy in a registry, deploy a     *)
(* token under it, issue and transfer it as the policy allows, and seize   *)
(* or burn what a frozen wallet holds (15833-17186, 18212-18272,           *)
(* 19083-19131, 20280-20421, 21996-22440, 22801-22826, 25826-26305,        *)
(* 26417-26452).                                                           *)
(*                                                                         *)
(* Every transaction is built and cached, and then submitted in steps: the *)
(* checks up to the first await, the reply of the node, the records.  The  *)
(* policy may change between any two of them.  A lot moves as a whole;     *)
(* amounts, supply and receipts are module IssuerToken's.                  *)
(***************************************************************************)
EXTENDS RequestTable, PolicyRegistry

CONSTANTS
    MaxBuilds,    \* bound: builds cached together
    MaxCutOff     \* bound: handlers cut off by a stop or a lost reply

ASSUME RegulatedAssumption ==
    IsFiniteSet(Reqs) /\ MaxBuilds \in Nat /\ MaxCutOff \in Nat

VARIABLES
    ctl,       \* the live controller output of the token, if it is deployed
    lots,      \* its live holder outputs
    tracked,   \* the tracked asset records of the user
    ntx,       \* accepted transactions
    cache,     \* the build caches
    cutOff     \* handlers cut off so far

vars == <<policy, audit, registries, registry, ctl, lots, tracked, ntx, cache, req, cutOff>>

\* pr, pe: the registry and the epoch that the output's profile names
Controllers == [at: 1..MaxTx, wallet: Wallets, pr: 1..MaxTx, pe: 1..MaxEpoch]
Lots == [at: 1..MaxTx, wallet: Wallets, pe: 1..MaxEpoch]
\* lot is 0 in the record of an empty token
Tracked == [lot: 0..MaxTx, ctl: 1..MaxTx]
RegistryOps == {"registry_deploy", "registry_update"}
ControlOps == {"seize", "forced_burn"}
Ops == RegistryOps \cup ControlOps \cup {"deploy", "issue", "transfer"}
\* reg, lot, ctl: what the transaction spends, or 0; pr: the registry it is
\* about; test: an issue under a manual test authorization
Entries == [op: Ops, wallet: Wallets, to: Wallets, policy: Policies, pr: 0..MaxTx,
            reg: 0..MaxTx, lot: 0..MaxTx, ctl: 0..MaxTx, test: BOOLEAN]
Entry(op, w, to, pr, reg, lot, c, test) ==
    [op |-> op, wallet |-> w, to |-> to, policy |-> policy, pr |-> pr, reg |-> reg,
     lot |-> lot, ctl |-> c, test |-> test]

TypeOK ==
    /\ PolicyOK
    /\ ctl \subseteq Controllers /\ Cardinality(ctl) <= 1
    /\ lots \subseteq Lots /\ tracked \subseteq Tracked
    /\ ntx \in 0..MaxTx /\ cutOff \in 0..MaxCutOff
    /\ cache \subseteq Entries
    /\ \A r \in Reqs :
          \/ req[r] = Idle
          \/ /\ req[r].pc \in {"checked", "sent", "accepted"}
             /\ req[r].entry \in Entries /\ req[r].tx \in 0..MaxTx

\* Nothing yet; or the wallet w deployed the token, had it governed, published
\* that, and issued a lot to one of the wallets.
Init ==
    /\ \/ PolicyInit /\ ctl = {} /\ lots = {} /\ tracked = {} /\ ntx = 4
       \/ \E w, holder \in Wallets :
             /\ PublishedInit(w)
             /\ ctl = {[at |-> 4, wallet |-> w, pr |-> 1, pe |-> 2]}
             /\ lots = {[at |-> 4, wallet |-> holder, pe |-> 2]}
             /\ tracked = {[lot |-> 4, ctl |-> 4]}
             /\ ntx = 4
    /\ cache = {} /\ req = [r \in Reqs |-> Idle] /\ cutOff = 0

policyVars == <<policy, audit, registries, registry>>
tokenVars == <<ctl, lots, tracked>>

(***************************************************************************)
(* Policy requests, with the process stopping in the middle or not.        *)
(***************************************************************************)
InFlight == {r \in Reqs : req[r].pc \in {"sent", "accepted"}}

SavePolicy ==
    /\ ChangePolicy(3)
    /\ UNCHANGED <<tokenVars, ntx, cache, req, cutOff>>

\* The caches and the handlers are in memory.
Stop ==
    /\ cutOff' = cutOff + Cardinality(InFlight) + 1 /\ cutOff' <= MaxCutOff
    /\ \/ \E writes \in 1..2 : ChangePolicy(writes)
       \/ UNCHANGED policyVars
    /\ cache' = {} /\ req' = [r \in Reqs |-> Idle]
    /\ UNCHANGED <<tokenVars, ntx>>

(***************************************************************************)
(* Builds.                                                                 *)
(***************************************************************************)
Cached(e) ==
    /\ policy # NoPolicy
    /\ Cardinality(cache) < MaxBuilds /\ ntx < MaxTx
    /\ cache' = cache \cup {e}
    /\ UNCHANGED <<policy, registries, registry, tokenVars, ntx, req, cutOff>>

Expire(e) ==
    /\ cache' = cache \ {e}
    /\ UNCHANGED <<policyVars, tokenVars, ntx, req, cutOff>>

\* verifyOmaL1TrackedAssetRecordLive: the outputs that a record names are live.
RecordIsLive(rec) ==
    /\ \E c \in ctl : c.at = rec.ctl
    /\ rec.lot = 0 \/ \E l \in lots : l.at = rec.lot
LiveLots == {l \in lots : \E rec \in tracked : rec.lot = l.at /\ RecordIsLive(rec)}
\* The registries that governed tracked tokens name.
Profile == {c.pr : c \in {x \in ctl : tracked # {}}}
Referenced == IF policy.content.governed THEN Profile ELSE {}

\* policy-registry/deploy/build.  A policy that is published already is shown as
\* the current one; otherwise the wallet continues the registry that it has,
BuildRegistryUpdate(w) ==
    /\ policy # NoPolicy
    /\ ~ Ambiguous(Referenced) /\ IsAuthority(w, Referenced) /\ NothingNewer(w, Referenced)
    /\ \E rec \in UpdateSource(w, Referenced) :
          Cached(Entry("registry_update", w, w, rec.id, rec.at, 0, 0, FALSE))
    /\ UNCHANGED audit

\* or starts one.
BuildRegistryDeploy(w) ==
    /\ policy # NoPolicy
    /\ ~ Ambiguous(Referenced) /\ IsAuthority(w, Referenced)
    /\ ActiveRecords(w, Referenced) = {}
    /\ Cached(Entry("registry_deploy", w, w, 0, 0, 0, 0, FALSE))
    /\ UNCHANGED audit

\* The terms of a regulated deploy, at the build and again at the submit: the
\* authority's registry publishes the policy whose epoch the token takes.
DeployTermsOK(w, pr) ==
    /\ \E rec \in RecordOf(pr) : rec.wallet = w
    /\ LiveRegistry(pr)

BuildDeploy(w) ==
    /\ ctl = {}
    /\ \E rec \in registries :
          DeployTermsOK(w, rec.id) /\ Cached(Entry("deploy", w, w, rec.id, 0, 0, 0, FALSE))
    /\ UNCHANGED audit

\* The recipient, the issuer and the token are as the policy wants them.
IssueAllowed(w, to) ==
    /\ policy.content.governed /\ to \in policy.content.allowed
    /\ {w, to} \cap policy.content.frozen = {}

BuildIssue(w, to, test) ==
    /\ policy # NoPolicy /\ IssueAllowed(w, to)
    /\ \E c \in ctl, rec \in tracked :
          /\ c.wallet = w /\ RecordIsLive(rec) /\ c.pe <= policy.epoch
          /\ RegistryRecordMatchesPolicy(c.pr) /\ LiveRegistry(c.pr)
          /\ Cached(Entry("issue", w, to, c.pr, 0, 0, c.at, test))
    /\ UNCHANGED audit

\* omaKcc20RegulatedDemoHolderTransferPolicyDecision
TransferAllowed(l, to, pr) ==
    /\ policy.content.governed /\ l.pe <= policy.epoch
    /\ to \in policy.content.allowed /\ {l.wallet, to} \cap policy.content.frozen = {}
    /\ RegistryRecordMatchesPolicy(pr)

BuildTransfer(to) ==
    /\ policy # NoPolicy
    /\ \E c \in ctl, l \in LiveLots :
          /\ TransferAllowed(l, to, c.pr)
          /\ Cached(Entry("transfer", l.wallet, to, c.pr, 0, l.at, 0, FALSE))
    /\ UNCHANGED audit

\* The record of the registry whose authority also controls the token.
ControlRecord(w, c) ==
    {rec \in RecordOf(c.pr) :
        c.wallet = w /\ rec.wallet = w /\ RegistryRecordMatchesPolicy(c.pr) /\ LiveRegistry(c.pr)}

\* control/seize/build: from a frozen wallet to another one of the user
BuildSeize(w, to) ==
    /\ policy # NoPolicy /\ policy.content.governed
    /\ \E c \in ctl, l \in LiveLots : \E rec \in ControlRecord(w, c) :
          /\ l.wallet \in policy.content.frozen /\ to # l.wallet
          /\ Cached(Entry("seize", w, to, c.pr, rec.at, l.at, 0, FALSE))
    /\ UNCHANGED audit

\* control/forced-burn/build: a frozen wallet's, or the controller's own
BuildForcedBurn(w) ==
    /\ policy # NoPolicy /\ policy.content.governed
    /\ \E c \in ctl, l \in LiveLots : \E rec \in ControlRecord(w, c) :
          /\ l.wallet \in policy.content.frozen \cup {w}
          /\ Cached(Entry("forced_burn", w, l.wallet, c.pr, rec.at, l.at, 0, FALSE))
    /\ UNCHANGED audit

(***************************************************************************)
(* Submits.                                                                *)
(***************************************************************************)
Submitted(r, e, pc) ==
    /\ req[r] = Idle /\ ntx < MaxTx
    /\ Become(r, [pc |-> pc, entry |-> e, tx |-> 0])
    /\ UNCHANGED <<policyVars, tokenVars, ntx, cache, cutOff>>

SubmitRegistry(r, e) ==
    e.op \in RegistryOps /\ e.policy = policy /\ Submitted(r, e, "checked")

RegistrySourceLive(e) == e.reg = 0 \/ \E o \in registry : o.at = e.reg

\* The source is still unspent; the journal is told before the node.
SendRegistry(r) ==
    /\ req[r].pc = "checked" /\ RegistrySourceLive(req[r].entry)
    /\ audit' = audit \cup {Event("submitted", req[r].entry.policy)}
    /\ req' = [req EXCEPT ![r].pc = "sent"]
    /\ UNCHANGED <<policy, registries, registry, tokenVars, ntx, cache, cutOff>>

SubmitDeploy(r, e) ==
    /\ e.op = "deploy" /\ e.policy.epoch = policy.epoch /\ DeployTermsOK(e.wallet, e.pr)
    /\ Submitted(r, e, "sent")

\* Only an issue under a test authorization looks at the policy again.
SubmitIssue(r, e) ==
    /\ e.op = "issue"
    /\ e.test => e.policy = policy /\ IssueAllowed(e.wallet, e.to) /\ LiveRegistry(e.pr)
    /\ Submitted(r, e, "sent")

SubmitTransfer(r, e) ==
    /\ e.op = "transfer" /\ e.policy = policy
    /\ \E l \in lots : l.at = e.lot /\ TransferAllowed(l, e.to, e.pr)
    /\ Submitted(r, e, "sent")

SubmitControl(r, e) ==
    /\ e.op \in ControlOps /\ e.policy = policy
    /\ \E rec \in RecordOf(e.pr) : rec.live /\ rec.at = e.reg /\ rec.policy = policy
    /\ \E l \in lots : l.at = e.lot /\ (e.op = "seize" => l.wallet \in policy.content.frozen)
    /\ Submitted(r, e, "sent")

Refused(r) ==
    /\ req[r].pc \in {"checked", "sent"}
    /\ Become(r, Idle)
    /\ UNCHANGED <<policyVars, tokenVars, ntx, cache, cutOff>>

(***************************************************************************)
(* The node.                                                               *)
(***************************************************************************)
Unspent(e) ==
    /\ RegistrySourceLive(e)
    /\ e.lot = 0 \/ \E l \in lots : l.at = e.lot
    /\ e.ctl = 0 \/ \E c \in ctl : c.at = e.ctl
    /\ e.op = "deploy" => ctl = {}

\* A genesis starts from the zero root, an update from the root it replaces;
\* a seizure or a forced burn hands the registry on as it is.
RegistryOutputs(e, n) ==
    CASE e.op = "registry_deploy" ->
           {[id |-> n, at |-> n, wallet |-> e.wallet, policy |-> e.policy, prev |-> NoPolicy]}
      [] e.op = "registry_update" ->
           {[o EXCEPT !.at = n, !.policy = e.policy, !.prev = o.policy] :
              o \in {x \in registry : x.at = e.reg}}
      [] e.op \in ControlOps -> {[o EXCEPT !.at = n] : o \in {x \in registry : x.at = e.reg}}
      [] OTHER -> {}

\* The outputs of an issue take the epoch of the policy it was built under.
ControllerOutputs(e, n) ==
    IF e.op \in {"deploy", "issue"}
    THEN {[at |-> n, wallet |-> e.wallet, pr |-> e.pr, pe |-> e.policy.epoch]} ELSE {}

LotOutputs(e, n) ==
    IF e.op \in {"issue", "transfer", "seize"}
    THEN {[at |-> n, wallet |-> e.to, pe |-> e.policy.epoch]} ELSE {}

Accept(r) ==
    /\ req[r].pc = "sent" /\ ntx < MaxTx /\ Unspent(req[r].entry)
    /\ LET e == req[r].entry
           n == ntx + 1
       IN  /\ registry' = {o \in registry : o.at # e.reg} \cup RegistryOutputs(e, n)
           /\ ctl' = {c \in ctl : c.at # e.ctl} \cup ControllerOutputs(e, n)
           /\ lots' = {l \in lots : l.at # e.lot} \cup LotOutputs(e, n)
           /\ cache' = cache \ {e}
           /\ Become(r, [pc |-> "accepted", entry |-> e, tx |-> n])
    /\ ntx' = ntx + 1
    /\ UNCHANGED <<policy, audit, registries, tracked, cutOff>>

(***************************************************************************)
(* Records, when the outputs were looked for.                              *)
(***************************************************************************)
RegistryRecord(e, n, visible) ==
    [id |-> IF e.pr = 0 THEN n ELSE e.pr, at |-> n, wallet |-> e.wallet,
     policy |-> e.policy, live |-> visible]

RecordRegistry(r) ==
    /\ req[r].pc = "accepted" /\ req[r].entry.op \in RegistryOps
    /\ \E visible \in BOOLEAN :
          registries' = Upserted(RegistryRecord(req[r].entry, req[r].tx, visible))
    /\ Become(r, Idle)
    /\ UNCHANGED <<policy, audit, registry, tokenVars, ntx, cache, cutOff>>

\* replaceOmaL1TrackedAssetRecordsAfter...: of a deploy, an issue, or a lot
\* that moved or went
TrackedAfter(e, n) ==
    CASE e.op = "deploy" -> {[lot |-> 0, ctl |-> n]}
      [] e.op = "issue" ->
           {[rec EXCEPT !.ctl = n] :
              rec \in {x \in tracked : ~ (x.lot = 0 /\ x.ctl = e.ctl)}}
           \cup {[lot |-> n, ctl |-> n]}
      [] OTHER ->
           {rec \in tracked : rec.lot # e.lot}
           \cup {[rec EXCEPT !.lot = n] :
                   rec \in {x \in tracked : x.lot = e.lot /\ e.op # "forced_burn"}}

RecordToken(r) ==
    /\ req[r].pc = "accepted" /\ req[r].entry.op \in {"deploy", "issue", "transfer"}
    /\ tracked' = TrackedAfter(req[r].entry, req[r].tx)
    /\ Become(r, Idle)
    /\ UNCHANGED <<policyVars, ctl, lots, ntx, cache, cutOff>>

\* mutant: the record keeps the registry output that was spent
RecordControlOnly(r) ==
    /\ req[r].pc = "accepted" /\ req[r].entry.op \in ControlOps
    /\ tracked' = TrackedAfter(req[r].entry, req[r].tx)
    /\ Become(r, Idle)
    /\ UNCHANGED <<policyVars, ctl, lots, ntx, cache, cutOff>>

\* The registry moved, too: its record is written from the one of the submit.
RecordControl(r) ==
    /\ req[r].pc = "accepted" /\ req[r].entry.op \in ControlOps
    /\ tracked' = TrackedAfter(req[r].entry, req[r].tx)
    /\ \E visible \in BOOLEAN :
          registries' = Upserted(RegistryRecord(req[r].entry, req[r].tx, visible))
    /\ Become(r, Idle)
    /\ UNCHANGED <<policy, audit, registry, ctl, lots, ntx, cache, cutOff>>

\* The node took the transaction and the reply is lost.
ReplyLost(r) ==
    /\ req[r].pc = "accepted" /\ cutOff < MaxCutOff
    /\ Become(r, Idle)
    /\ cutOff' = cutOff + 1
    /\ UNCHANGED <<policyVars, tokenVars, ntx, cache>>

Builds ==
    \E w, to \in Wallets :
       \/ BuildRegistryUpdate(w) \/ BuildRegistryDeploy(w)
       \/ BuildDeploy(w) \/ BuildTransfer(to) \/ BuildSeize(w, to) \/ BuildForcedBurn(w)
       \/ \E test \in BOOLEAN : BuildIssue(w, to, test)

Submits(r) ==
    \E e \in cache :
       \/ SubmitRegistry(r, e) \/ SubmitDeploy(r, e) \/ SubmitIssue(r, e)
       \/ SubmitTransfer(r, e) \/ SubmitControl(r, e)

Next ==
    \/ SavePolicy \/ Stop \/ Builds
    \/ \E e \in cache : Expire(e)
    \/ \E r \in Reqs :
          \/ Submits(r) \/ SendRegistry(r) \/ Accept(r) \/ Refused(r) \/ ReplyLost(r)
          \/ RecordRegistry(r) \/ RecordToken(r) \/ RecordControl(r)

Spec == Init /\ [][Next]_vars

(***************************************************************************)
(* Properties.                                                             *)
(***************************************************************************)
Quiet == \A r \in Reqs : req[r].pc # "accepted"

\* An epoch names one policy: whatever was saved, published or recorded with
\* the same epoch has the same content, so `epoch and root match' means that
\* nothing changed.  And a token output never carries an epoch that the registry
\* it names has not published, however policy changes, publications and
\* operations interleave.
EpochNamesPolicy ==
    LET saved == {x.policy : x \in {y \in audit : y.stage # "planned"}}
                 \cup {o.policy : o \in registry} \cup {rec.policy : rec \in registries}
                 \cup {policy}
    IN  /\ \A p, q \in saved : p.epoch = q.epoch => p = q
        /\ \A c \in ctl : \A o \in {x \in registry : x.id = c.pr} :
              \A n \in {c.pe} \cup {l.pe : l \in lots} : n <= o.policy.epoch

\* A change of policy is announced in the journal before it is made, and a
\* publication before it is sent, wherever the process stops.
ChangeIsAudited ==
    /\ policy # NoPolicy => Event("planned", policy) \in audit
    /\ \A o \in registry : Event("submitted", o.policy) \in audit

\* The record of a registry names its live output, also after seizures and
\* forced burns, which move the registry with the lot.
RecordedIsLive ==
    Quiet /\ cutOff = 0 => \A rec \in registries : RegistryIsLive(rec)

\* A registry's line is not broken: a successor has a later policy and the
\* root of the output it spends, or the same policy and the same root before.
LineContinues(old, new) ==
    \/ new.policy.epoch > old.policy.epoch /\ new.prev = old.policy
    \/ new.policy = old.policy /\ new.prev = old.prev

LineageGrows ==
    [][\A new \in registry' \ registry :
          \/ new.id = ntx' /\ new.prev = NoPolicy
          \/ \E old \in registry \ registry' : old.id = new.id /\ LineContinues(old, new)]_vars

=============================================================================
