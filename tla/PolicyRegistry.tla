--------------------------- MODULE PolicyRegistry ---------------------------
(***************************************************************************)
(* The regulated policy of one user (server.ts 12090-13034), its audit     *)
(* journal (13522-13785), the records of the on-chain registries that      *)
(* publish it (13271-13315) and the choice of the registry that the next   *)
(* publication continues (15320-15395, 16007-16169).                       *)
(*                                                                         *)
(* A saved policy has an epoch, one higher for each change of content.     *)
(* Its root is a hash of both, so a policy stands for its root.  A         *)
(* registry is a covenant that holds one output at a time, with the epoch  *)
(* and root that it publishes and the root before.                         *)
(***************************************************************************)
EXTENDS Integers, FiniteSets

CONSTANTS
    Wallets,    \* READY wallets of the user
    Updates,    \* contents that the user posts to demo-policy/update
    MaxEpoch,   \* bound standing for OMA_KCC20_REGULATED_DEMO_POLICY_MAX_EPOCH
    MaxTx       \* bound: accepted transactions

\* governed: the token is one of regulated_asset_covenant_ids.  Blacklists and
\* frozen outpoints refuse a request as an allowlist and frozen holders do.
Contents == [governed: BOOLEAN, allowed: SUBSET Wallets, frozen: SUBSET Wallets]
\* The template governs no token: whom it allows does not matter.
Template == [governed |-> FALSE, allowed |-> {}, frozen |-> {}]

\* The states that a run may start in have two policies and four transactions.
ASSUME PolicyAssumption ==
    /\ Updates \subseteq Contents
    /\ MaxEpoch \in Nat /\ MaxEpoch >= 2 /\ MaxTx \in Nat /\ MaxTx >= 4

VARIABLES
    policy,      \* oma-kcc20-regulated-demo-policy, or NoPolicy
    audit,       \* audit events of policy changes and of publications
    registries,  \* registry records, one for each registry
    registry     \* live registry outputs

NoPolicy == [epoch |-> 0]
Policies == [epoch: 1..MaxEpoch, content: Contents]
\* A registry is named by the transaction that made it.
Registries == [id: 1..MaxTx, at: 1..MaxTx, wallet: Wallets, policy: Policies,
               prev: Policies \cup {NoPolicy}]
RegistryRecords == [id: 1..MaxTx, at: 1..MaxTx, wallet: Wallets, policy: Policies,
                    live: BOOLEAN]
Event(stage, p) == [stage |-> stage, policy |-> p]
Events == [stage: {"planned", "tracking_updated", "submitted"}, policy: Policies]

PolicyOK ==
    /\ policy \in Policies \cup {NoPolicy}
    /\ audit \subseteq Events
    /\ registries \subseteq RegistryRecords
    /\ registry \subseteq Registries

\* Nothing saved yet; or the second policy, which lets every wallet hold the
\* governed token, published by wallet w after the template.
PublishedInit(w) ==
    LET first == [epoch |-> 1, content |-> Template]
        second == [epoch |-> 2,
                   content |-> [governed |-> TRUE, allowed |-> Wallets, frozen |-> {}]]
    IN  /\ policy = second
        /\ audit = {Event(stage, p) : stage \in {"planned", "tracking_updated", "submitted"},
                                      p \in {first, second}}
        /\ registries = {[id |-> 1, at |-> 3, wallet |-> w, policy |-> second, live |-> TRUE]}
        /\ registry = {[id |-> 1, at |-> 3, wallet |-> w, policy |-> second, prev |-> first]}
PolicyInit == policy = NoPolicy /\ audit = {} /\ registries = {} /\ registry = {}

(***************************************************************************)
(* The policy routes: no await, so a request is one step; but it writes    *)
(* three files, and the process may stop after any of them.                *)
(***************************************************************************)
\* mutant: the policy is written before its change is announced
SaveAnnouncedAfter(p, writes) ==
    /\ policy' = p
    /\ audit' = audit \cup (IF writes >= 2 THEN {Event("planned", p)} ELSE {})
                     \cup (IF writes >= 3 THEN {Event("tracking_updated", p)} ELSE {})
    /\ UNCHANGED <<registries, registry>>

\* An event that the journal has already is not appended again.
Save(p, writes) ==
    /\ policy' = IF writes >= 2 THEN p ELSE policy
    /\ audit' = audit \cup {Event("planned", p)}
                     \cup (IF writes >= 3 THEN {Event("tracking_updated", p)} ELSE {})
    /\ UNCHANGED <<registries, registry>>

\* demo-policy/create
CreatePolicy(writes) ==
    policy = NoPolicy /\ Save([epoch |-> 1, content |-> Template], writes)

\* mutant: the epoch stays
NextPolicySameEpoch(content) == [policy EXCEPT !.content = content]

NextPolicy(content) == [epoch |-> policy.epoch + 1, content |-> content]

\* demo-policy/update
UpdatePolicy(content, writes) ==
    /\ policy # NoPolicy /\ content # policy.content /\ policy.epoch < MaxEpoch
    /\ Save(NextPolicy(content), writes)

\* demo-policy/reset
ResetPolicy(writes) ==
    \/ policy = NoPolicy /\ Save([epoch |-> 1, content |-> Template], writes)
    \/ /\ policy # NoPolicy /\ policy.content # Template /\ policy.epoch < MaxEpoch
       /\ Save(NextPolicy(Template), writes)

ChangePolicy(writes) ==
    \/ CreatePolicy(writes) \/ ResetPolicy(writes)
    \/ \E content \in Updates : UpdatePolicy(content, writes)

(***************************************************************************)
(* The registry records.                                                   *)
(***************************************************************************)
RecordOf(id) == {rec \in registries : rec.id = id}

\* upsertOmaKcc20PolicyRegistryRecord
Upserted(rec) == {x \in registries : x.id # rec.id} \cup {rec}

\* omaVerifyLiveKcc20PolicyRegistryRecord
RegistryIsLive(rec) ==
    \E o \in registry : o.id = rec.id /\ o.at = rec.at /\ o.policy = rec.policy

\* omaVerifyLiveKcc20PolicyRegistry
LiveRegistry(id) ==
    \E rec \in RecordOf(id) : rec.policy = policy /\ RegistryIsLive(rec)

\* The gate of every regulated operation on the stored record.
RegistryRecordMatchesPolicy(id) ==
    \E rec \in RecordOf(id) : rec.live /\ rec.policy = policy

\* omaResolveKcc20PolicyRegistryCanonicalRecord: the sets that it may choose
\* from; referenced: registries that tracked governed tokens name.
CanonicalRecords(referenced) ==
    IF referenced # {} THEN {rec \in registries : rec.id \in referenced}
    ELSE {rec \in registries : rec.live}

Ambiguous(referenced) ==
    IF referenced # {}
    THEN Cardinality(referenced) > 1 \/ CanonicalRecords(referenced) = {}
    ELSE Cardinality(CanonicalRecords(referenced)) > 1

\* The records of the active wallet, of the canonical registry if there is one.
ActiveRecords(w, referenced) ==
    {rec \in registries : /\ rec.wallet = w
                          /\ CanonicalRecords(referenced) # {} =>
                                rec \in CanonicalRecords(referenced)}

IsAuthority(w, referenced) == \A rec \in CanonicalRecords(referenced) : rec.wallet = w

\* mutant: what is published may be published again
NothingLater(w, referenced) ==
    \A rec \in ActiveRecords(w, referenced) : rec.policy.epoch <= policy.epoch

\* Nothing of this wallet publishes this policy or a later one.
NothingNewer(w, referenced) ==
    \A rec \in ActiveRecords(w, referenced) : rec.policy.epoch < policy.epoch

\* The record with the highest epoch, alone in it and live.
UpdateSource(w, referenced) ==
    LET active == ActiveRecords(w, referenced)
        top == {rec \in active : \A x \in active : x.policy.epoch <= rec.policy.epoch}
    IN  {rec \in top : Cardinality(top) = 1 /\ RegistryIsLive(rec)}

=============================================================================
