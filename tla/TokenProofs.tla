---------------------------- MODULE TokenProofs ----------------------------
(***************************************************************************)
(* The regulated token, for any number of wallets, registries, requests    *)
(* and transactions.                                                       *)
(*                                                                         *)
(* Between a build, its submit, the reply and the record, the policy, the  *)
(* registry and the token may all change.  IInv says what does not.  As    *)
(* long as the registry output that an entry is to spend is live, it is of *)
(* the registry that the entry names, with an earlier policy, or the one   *)
(* that the entry keeps.  The output of a move that was accepted stays     *)
(* live until it is recorded: no record names it, and so no other entry    *)
(* can.  And among all policies that were saved, published, recorded or    *)
(* built upon there is one for an epoch.                                   *)
(***************************************************************************)
EXTENDS RegulatedToken, TLAPS, FiniteSetTheorems

Handlers == [pc: {"checked", "sent", "accepted"}, entry: Entries, tx: 0..MaxTx]

Types ==
    /\ PolicyOK
    /\ ctl \subseteq Controllers /\ lots \subseteq Lots /\ tracked \subseteq Tracked
    /\ ntx \in 0..MaxTx /\ cutOff \in 0..MaxCutOff
    /\ cache \subseteq Entries
    /\ req \in [Reqs -> {Idle} \cup Handlers]

Busy == {r \in Reqs : req[r].pc # "idle"}
InUse == cache \cup {req[r].entry : r \in Busy}

\* Every policy that was saved, published, recorded, or built upon.
Known ==
    {x.policy : x \in {y \in audit : y.stage # "planned"}}
    \cup {o.policy : o \in registry} \cup {rec.policy : rec \in registries}
    \cup {policy} \cup {e.policy : e \in InUse}

\* One of them for an epoch, and the saved one is the latest.
PoliciesOK ==
    /\ \A p \in Known : p.epoch <= policy.epoch
    /\ \A p, q \in Known : p.epoch = q.epoch => p = q

\* A registry has one output; the token has one controller; what they are named
\* by has happened.
ChainOK ==
    /\ \A o, q \in registry : o.at = q.at \/ o.id = q.id => o = q
    /\ \A o \in registry : o.at <= ntx /\ o.id <= ntx
    /\ \A c, d \in ctl : c = d
    /\ \A c \in ctl : c.pr <= ntx
    /\ ctl = {} => lots = {}

RecordsOK ==
    /\ \A rec, x \in registries : rec.id = x.id => rec = x
    /\ \A rec \in registries : rec.at <= ntx /\ rec.id <= ntx
    /\ \A rec \in registries, o \in registry :
          o.id = rec.id => rec.policy.epoch <= o.policy.epoch

Moves(e) == e.op = "registry_update" \/ e.op \in ControlOps
OfToken(e) == e.op \in {"issue", "transfer"} \cup ControlOps

\* What an entry may rely on until it is dropped: the output that it spends is of
\* the registry that it names, with an earlier policy or the one that it keeps;
\* the registry publishes its policy, or a later one; the token is governed by
\* that registry.
EntryOK(e) ==
    /\ e.pr <= ntx /\ e.reg <= ntx
    /\ e.op \notin RegistryOps \cup ControlOps => e.reg = 0
    /\ e.op = "registry_deploy" => e.reg = 0 /\ e.pr = 0
    /\ Moves(e) => e.reg # 0 /\ e.pr # 0
    /\ \A o \in registry :
          /\ Moves(e) /\ o.at = e.reg => o.id = e.pr
          /\ e.op = "registry_update" /\ o.at = e.reg => o.policy.epoch < e.policy.epoch
          /\ e.op \in ControlOps /\ o.at = e.reg => o.policy = e.policy
          /\ e.op \notin RegistryOps /\ o.id = e.pr => e.policy.epoch <= o.policy.epoch
    /\ OfToken(e) => ctl # {} /\ \A c \in ctl : c.pr = e.pr
    /\ e.op = "deploy" => e.pr # 0 /\ e.lot = 0
    /\ e.op = "issue" <=> e.ctl # 0

EntriesOK == \A e \in InUse : EntryOK(e)

\* A handler whose transaction moved a registry, and which has not recorded it:
\* its output is live, and no record or entry names it yet.
Registers(h) == h.pc = "accepted" /\ h.entry.op \in RegistryOps \cup ControlOps
Named(h) == IF h.entry.pr = 0 THEN h.tx ELSE h.entry.pr
AcceptedOK ==
    /\ \A r \in Reqs : req[r].pc = "accepted" => req[r].tx \in 1..ntx
    /\ \A r, s \in Reqs :
          req[r].pc = "accepted" /\ req[s].pc = "accepted" /\ req[r].tx = req[s].tx => r = s
    /\ \A r \in Reqs : Registers(req[r]) =>
          /\ \A rec \in registries : rec.at # req[r].tx
          /\ \A e \in InUse : e.reg # req[r].tx
          /\ \E o \in registry : /\ o.id = Named(req[r]) /\ o.at = req[r].tx
                                 /\ o.policy = req[r].entry.policy

EpochsOK ==
    \A c \in ctl, o \in registry : o.id = c.pr =>
       c.pe <= o.policy.epoch /\ \A l \in lots : l.pe <= o.policy.epoch

SentOK ==
    \A r \in Reqs : req[r].pc = "sent" /\ req[r].entry.op \in RegistryOps =>
       Event("submitted", req[r].entry.policy) \in audit

\* Until it is recorded, the move of a registry excuses its record.
Recorded ==
    cutOff = 0 => \A rec \in registries :
       RegistryIsLive(rec) \/ \E r \in Reqs : Registers(req[r]) /\ req[r].entry.pr = rec.id

IInv ==
    /\ Types /\ PoliciesOK /\ ChainOK /\ RecordsOK /\ EntriesOK /\ AcceptedOK
    /\ EpochsOK /\ SentOK /\ ChangeIsAudited /\ Recorded

-----------------------------------------------------------------------------
\* What is said of epochs and of records follows.
LEMMA Implied ==
  ASSUME IInv
  PROVE  EpochNamesPolicy /\ RecordedIsLive
<1> USE DEF IInv
<1>1. EpochNamesPolicy
  <2>1. \A p, q \in {x.policy : x \in {y \in audit : y.stage # "planned"}}
                 \cup {o.policy : o \in registry} \cup {rec.policy : rec \in registries}
                 \cup {policy} : p.epoch = q.epoch => p = q
    BY DEF PoliciesOK, Known
  <2>2. \A c \in ctl : \A o \in {x \in registry : x.id = c.pr} :
              \A n \in {c.pe} \cup {l.pe : l \in lots} : n <= o.policy.epoch
    BY DEF EpochsOK
  <2> QED
    BY <2>1, <2>2 DEF EpochNamesPolicy
<1>2. RecordedIsLive
  BY DEF Recorded, RecordedIsLive, Quiet, Registers
<1> QED
  BY <1>1, <1>2

-----------------------------------------------------------------------------
(* Steps that leave the chain and the records alone. *)

chain == <<ctl, lots, tracked, ntx, registries, registry>>

LEMMA KnownTyped ==
  ASSUME Types
  PROVE  /\ Known \subseteq Policies \cup {NoPolicy}
         /\ \A p \in Known : p.epoch \in Nat
<1>1. \A e \in InUse : e.policy \in Policies
  <2>1. \A r \in Busy : req[r].entry \in Entries
    BY DEF Types, Busy, Handlers, Idle
  <2> QED
    BY <2>1 DEF Types, InUse, Entries
<1>2. Known \subseteq Policies \cup {NoPolicy}
  BY <1>1 DEF Types, PolicyOK, Known, Events, Registries, RegistryRecords
<1>3. \A p \in Policies \cup {NoPolicy} : p.epoch \in Nat
  BY PolicyAssumption DEF Policies, NoPolicy
<1> QED
  BY <1>2, <1>3

\* No policy is made, and no request goes further than it may: the entries in use
\* are among those of before.
LEMMA FewerEntries ==
  ASSUME IInv, Types', UNCHANGED <<policy, registries, registry, ctl, lots, ntx>>,
         InUse' \subseteq InUse, Known' \subseteq Known
  PROVE  PoliciesOK' /\ ChainOK' /\ RecordsOK' /\ EntriesOK' /\ EpochsOK'
<1> USE DEF IInv
<1>1. PoliciesOK'
  BY DEF PoliciesOK
<1>2. ChainOK' /\ RecordsOK' /\ EpochsOK'
  BY DEF ChainOK, RecordsOK, EpochsOK
<1>3. EntriesOK'
  BY DEF EntriesOK, EntryOK, Moves, OfToken
<1> QED
  BY <1>1, <1>2, <1>3

LEMMA ChangeSaves ==
  ASSUME Types, NEW writes \in 1..3, ChangePolicy(writes)
  PROVE  \E p \in Policies : p.epoch = policy.epoch + 1 /\ Save(p, writes)
<1>0. policy \in Policies \cup {NoPolicy} /\ Template \in Contents
  BY DEF Types, PolicyOK, Template, Contents
<1>1. ASSUME policy = NoPolicy, Save([epoch |-> 1, content |-> Template], writes)
      PROVE  \E p \in Policies : p.epoch = policy.epoch + 1 /\ Save(p, writes)
  <2>1. PICK p : p = [epoch |-> 1, content |-> Template]
    OBVIOUS
  <2>2. p \in Policies /\ p.epoch = policy.epoch + 1
    BY <1>0, <1>1, <2>1, PolicyAssumption DEF Policies, NoPolicy
  <2> QED
    BY <1>1, <2>1, <2>2
<1>2. ASSUME NEW content \in Contents, policy # NoPolicy, policy.epoch < MaxEpoch,
             Save(NextPolicy(content), writes)
      PROVE  \E p \in Policies : p.epoch = policy.epoch + 1 /\ Save(p, writes)
  <2>1. PICK p : p = NextPolicy(content)
    OBVIOUS
  <2>2. p \in Policies /\ p.epoch = policy.epoch + 1
    BY <1>0, <1>2, <2>1, PolicyAssumption DEF Policies, NextPolicy
  <2> QED
    BY <1>2, <2>1, <2>2
<1>3. CASE CreatePolicy(writes)
  BY <1>1, <1>3 DEF CreatePolicy
<1>4. CASE ResetPolicy(writes)
  BY <1>0, <1>1, <1>2, <1>4 DEF ResetPolicy
<1>5. ASSUME NEW content \in Updates, UpdatePolicy(content, writes)
      PROVE  \E p \in Policies : p.epoch = policy.epoch + 1 /\ Save(p, writes)
  BY <1>2, <1>5, PolicyAssumption DEF UpdatePolicy
<1> QED
  BY <1>3, <1>4, <1>5 DEF ChangePolicy

\* A policy that is saved is newer than all that are known.
LEMMA SaveKept ==
  ASSUME IInv, NEW writes \in 1..3, ChangePolicy(writes),
         UNCHANGED <<tokenVars, ntx>>, InUse' \subseteq InUse
  PROVE  /\ PolicyOK' /\ PoliciesOK' /\ ChainOK' /\ RecordsOK' /\ EntriesOK' /\ EpochsOK'
         /\ ChangeIsAudited' /\ audit \subseteq audit' /\ UNCHANGED <<registries, registry>>
<1> USE DEF IInv
<1>1. PICK p \in Policies : p.epoch = policy.epoch + 1 /\ Save(p, writes)
  BY ChangeSaves
<1>2. UNCHANGED <<registries, registry, ctl, lots, tracked, ntx>>
  BY <1>1 DEF Save, tokenVars
<1>3. PICK e1, e2 : e1 = Event("planned", p) /\ e2 = Event("tracking_updated", p)
  OBVIOUS
<1>4. /\ e1.stage = "planned" /\ e1.policy = p /\ e2.policy = p
      /\ e1 \in Events /\ e2 \in Events
  BY <1>3 DEF Event, Events
<1>5. /\ audit' \subseteq audit \cup {e1, e2} /\ audit \subseteq audit' /\ e1 \in audit'
      /\ policy' = p \/ (policy' = policy /\ audit' = audit \cup {e1})
  BY <1>1, <1>3 DEF Save
<1>6. PolicyOK'
  BY <1>2, <1>4, <1>5 DEF Types, PolicyOK
<1>7. policy.epoch \in Nat /\ \A q \in Known : q.epoch \in Nat /\ q.epoch <= policy.epoch
  BY KnownTyped DEF PoliciesOK, Known
<1>8. \A q \in Known' : q \in Known \/ (q = p /\ policy' = p)
  <2>1. \A x \in audit' : x.stage # "planned" => x \in audit \/ (x.policy = p /\ policy' = p)
    BY <1>4, <1>5
  <2>2. \A e \in InUse' : e \in InUse
    OBVIOUS
  <2>3. policy' = policy \/ policy' = p
    BY <1>5
  <2> QED
    BY <1>2, <2>1, <2>2, <2>3 DEF Known
<1>9. PoliciesOK'
  <2>1. policy' = p \/ policy' = policy
    BY <1>5
  <2>2. ASSUME NEW q \in Known'
        PROVE  q.epoch <= policy'.epoch
    BY <1>1, <1>7, <1>8, <2>1, <2>2
  <2>3. ASSUME NEW q \in Known', NEW s \in Known', q.epoch = s.epoch
        PROVE  q = s
    BY <1>1, <1>7, <1>8, <2>3 DEF PoliciesOK
  <2> QED
    BY <2>2, <2>3 DEF PoliciesOK
<1>10. ChainOK' /\ RecordsOK' /\ EpochsOK'
  BY <1>2 DEF ChainOK, RecordsOK, EpochsOK
<1>11. EntriesOK'
  BY <1>2 DEF EntriesOK, EntryOK, Moves, OfToken
<1>12. ChangeIsAudited'
  BY <1>2, <1>3, <1>5 DEF ChangeIsAudited
<1> QED
  BY <1>2, <1>5, <1>6, <1>9, <1>10, <1>11, <1>12

LEMMA SavePolicyStep ==
  ASSUME IInv, SavePolicy
  PROVE  IInv'
<1> USE DEF IInv
<1>1. /\ ChangePolicy(3) /\ UNCHANGED <<ctl, lots, tracked, ntx, cache, req, cutOff>>
      /\ UNCHANGED <<tokenVars, ntx>>
  BY DEF SavePolicy, tokenVars
<1>2. InUse' = InUse
  BY <1>1 DEF InUse, Busy
<1>3. /\ PolicyOK' /\ PoliciesOK' /\ ChainOK' /\ RecordsOK' /\ EntriesOK' /\ EpochsOK'
      /\ ChangeIsAudited' /\ audit \subseteq audit' /\ UNCHANGED <<registries, registry>>
  BY <1>1, <1>2, SaveKept
<1>4. Types'
  BY <1>1, <1>3 DEF Types
<1>5. AcceptedOK'
  BY <1>1, <1>2, <1>3 DEF AcceptedOK, Registers, Named
<1>6. SentOK' /\ Recorded'
  BY <1>1, <1>3 DEF SentOK, Recorded, RegistryIsLive, Registers
<1> QED
  BY <1>3, <1>4, <1>5, <1>6

LEMMA StopStep ==
  ASSUME IInv, Stop
  PROVE  IInv'
<1> USE DEF IInv
<1>1. /\ cache' = {} /\ req' = [r \in Reqs |-> Idle]
      /\ UNCHANGED <<ctl, lots, tracked, ntx>> /\ UNCHANGED <<tokenVars, ntx>>
      /\ cutOff' = cutOff + Cardinality(InFlight) + 1 /\ cutOff' <= MaxCutOff
      /\ \/ \E writes \in 1..3 : ChangePolicy(writes)
         \/ UNCHANGED <<policy, audit, registries, registry>>
  BY DEF Stop, tokenVars, policyVars
<1>2. \A r \in Reqs : req'[r].pc = "idle"
  BY <1>1 DEF Idle
<1>3. InUse' = {}
  BY <1>1, <1>2 DEF InUse, Busy
<1>4. /\ PolicyOK' /\ PoliciesOK' /\ ChainOK' /\ RecordsOK' /\ EntriesOK' /\ EpochsOK'
      /\ ChangeIsAudited' /\ audit \subseteq audit' /\ UNCHANGED <<registries, registry>>
  <2>1. ASSUME NEW writes \in 1..3, ChangePolicy(writes)
        PROVE  /\ PolicyOK' /\ PoliciesOK' /\ ChainOK' /\ RecordsOK' /\ EntriesOK' /\ EpochsOK'
               /\ ChangeIsAudited' /\ audit \subseteq audit' /\ UNCHANGED <<registries, registry>>
    BY <1>1, <1>3, <2>1, SaveKept
  <2>2. CASE UNCHANGED <<policy, audit, registries, registry>>
    <3>1. Known' \subseteq Known
      BY <1>3, <2>2 DEF Known
    <3>2. PolicyOK' /\ ChangeIsAudited'
      BY <2>2 DEF Types, PolicyOK, ChangeIsAudited
    <3>3. PoliciesOK' /\ ChainOK' /\ RecordsOK' /\ EpochsOK'
      BY <1>1, <2>2, <3>1 DEF PoliciesOK, ChainOK, RecordsOK, EpochsOK
    <3>4. EntriesOK'
      BY <1>3 DEF EntriesOK
    <3> QED
      BY <2>2, <3>2, <3>3, <3>4
  <2> QED
    BY <1>1, <2>1, <2>2
<1>5. cutOff' \in 1..MaxCutOff
  <2>1. Cardinality(InFlight) \in Nat
    BY RegulatedAssumption, FS_Subset, FS_CardinalityType DEF InFlight
  <2> QED
    BY <1>1, <2>1, RegulatedAssumption DEF Types
<1>6. Types'
  BY <1>1, <1>4, <1>5 DEF Types
<1>7. AcceptedOK' /\ SentOK' /\ Recorded'
  BY <1>2, <1>5 DEF AcceptedOK, Registers, SentOK, Recorded
<1> QED
  BY <1>4, <1>6, <1>7

-----------------------------------------------------------------------------
(* Builds. *)

LEMMA PolicyTyped ==
  ASSUME IInv, policy # NoPolicy
  PROVE  policy \in Policies
BY DEF IInv, Types, PolicyOK

\* An entry that is cached names what is true now.
LEMMA CachedKept ==
  ASSUME IInv, NEW e \in Entries, e.policy = policy, EntryOK(e), Cached(e), UNCHANGED audit,
         \A r \in Reqs : Registers(req[r]) => e.reg # req[r].tx
  PROVE  IInv'
<1> USE DEF IInv
<1>1. /\ cache' = cache \cup {e}
      /\ UNCHANGED <<policy, audit, registries, registry, ctl, lots, tracked, ntx, req, cutOff>>
  BY DEF Cached, tokenVars
<1>2. InUse' = InUse \cup {e}
  BY <1>1 DEF InUse, Busy
<1>3. Known' \subseteq Known
  BY <1>1, <1>2 DEF Known
<1>4. Types'
  BY <1>1 DEF Types, PolicyOK
<1>5. PoliciesOK' /\ ChainOK' /\ RecordsOK' /\ EpochsOK'
  BY <1>1, <1>3 DEF PoliciesOK, ChainOK, RecordsOK, EpochsOK
<1>6. EntriesOK'
  BY <1>1, <1>2 DEF EntriesOK, EntryOK, Moves, OfToken
<1>7. AcceptedOK'
  BY <1>1, <1>2 DEF AcceptedOK, Registers, Named
<1>8. SentOK' /\ ChangeIsAudited' /\ Recorded'
  BY <1>1 DEF SentOK, ChangeIsAudited, Recorded, RegistryIsLive, Registers
<1> QED
  BY <1>4, <1>5, <1>6, <1>7, <1>8

\* The record of a registry that it is about to move.
LEMMA RecordKnown ==
  ASSUME IInv, NEW rec \in registries
  PROVE  /\ rec.id \in 1..MaxTx /\ rec.at \in 1..MaxTx /\ rec.id <= ntx /\ rec.at <= ntx
         /\ \A r \in Reqs : Registers(req[r]) => rec.at # req[r].tx
         /\ RegistryIsLive(rec) =>
               \A o \in registry : o.at = rec.at \/ o.id = rec.id =>
                  o.id = rec.id /\ o.at = rec.at /\ o.policy = rec.policy
         /\ \A o \in registry : o.id = rec.id => rec.policy.epoch <= o.policy.epoch
BY DEF IInv, Types, PolicyOK, RegistryRecords, RecordsOK, AcceptedOK, RegistryIsLive, ChainOK

LEMMA ZeroIsFree ==
  ASSUME IInv
  PROVE  \A r \in Reqs : Registers(req[r]) => 0 # req[r].tx
BY DEF IInv, AcceptedOK, Registers

LEMMA BuildUpdateStep ==
  ASSUME IInv, NEW w \in Wallets, BuildRegistryUpdate(w)
  PROVE  IInv'
<1>1. PICK rec \in UpdateSource(w, Referenced) :
        Cached(Entry("registry_update", w, w, rec.id, rec.at, 0, 0, FALSE))
  BY DEF BuildRegistryUpdate
<1>2. rec \in registries /\ RegistryIsLive(rec) /\ rec \in ActiveRecords(w, Referenced)
  BY <1>1 DEF UpdateSource, ActiveRecords
<1>3. rec.policy.epoch < policy.epoch /\ policy # NoPolicy
  BY <1>2 DEF BuildRegistryUpdate, NothingNewer
<1>4. PICK e : e = Entry("registry_update", w, w, rec.id, rec.at, 0, 0, FALSE)
  OBVIOUS
<1>5. 0 \in 0..MaxTx /\ rec.id \in 0..MaxTx /\ rec.at \in 0..MaxTx /\ "registry_update" \in Ops
  BY <1>2, RecordKnown, PolicyAssumption DEF Ops, RegistryOps
<1>6. /\ e \in Entries /\ e.policy = policy /\ e.op = "registry_update"
      /\ e.pr = rec.id /\ e.reg = rec.at /\ e.ctl = 0
  BY <1>3, <1>4, <1>5, PolicyTyped DEF Entry, Entries
<1>7. EntryOK(e)
  BY <1>2, <1>3, <1>6, RecordKnown DEF EntryOK, Moves, OfToken, RegistryOps, ControlOps
<1>8. \A r \in Reqs : Registers(req[r]) => e.reg # req[r].tx
  BY <1>2, <1>6, RecordKnown
<1> QED
  BY <1>1, <1>4, <1>6, <1>7, <1>8, CachedKept DEF BuildRegistryUpdate

LEMMA BuildRegistryDeployStep ==
  ASSUME IInv, NEW w \in Wallets, BuildRegistryDeploy(w)
  PROVE  IInv'
<1>1. PICK e : e = Entry("registry_deploy", w, w, 0, 0, 0, 0, FALSE)
  OBVIOUS
<1>2. 0 \in 0..MaxTx /\ "registry_deploy" \in Ops /\ policy # NoPolicy /\ 0 <= ntx
  BY PolicyAssumption DEF Ops, RegistryOps, BuildRegistryDeploy, IInv, Types
<1>3. /\ e \in Entries /\ e.policy = policy /\ e.op = "registry_deploy" /\ e.pr = 0 /\ e.reg = 0
      /\ e.ctl = 0
  BY <1>1, <1>2, PolicyTyped DEF Entry, Entries
<1>4. EntryOK(e)
  <2>1. \A o \in registry : o.at # 0
    BY DEF IInv, Types, PolicyOK, Registries
  <2> QED
    BY <1>2, <1>3, <2>1 DEF EntryOK, Moves, OfToken, RegistryOps, ControlOps
<1>5. \A r \in Reqs : Registers(req[r]) => e.reg # req[r].tx
  BY <1>3, ZeroIsFree
<1> QED
  BY <1>1, <1>3, <1>4, <1>5, CachedKept DEF BuildRegistryDeploy

\* The registry that publishes the policy of now.
LEMMA PublishedHere ==
  ASSUME IInv, NEW pr, RegistryRecordMatchesPolicy(pr) \/ LiveRegistry(pr)
  PROVE  /\ pr \in 1..MaxTx /\ pr <= ntx
         /\ \A o \in registry : o.id = pr => policy.epoch <= o.policy.epoch
<1>1. PICK rec \in registries : rec.id = pr /\ rec.policy = policy
  BY DEF RegistryRecordMatchesPolicy, LiveRegistry, RecordOf
<1> QED
  BY <1>1, RecordKnown

LEMMA BuildTokenStep ==
  ASSUME IInv, NEW op \in {"deploy", "issue", "transfer"}, NEW w \in Wallets, NEW to \in Wallets,
         NEW pr, NEW lot \in 0..MaxTx, NEW c \in 0..MaxTx, NEW test \in BOOLEAN,
         RegistryRecordMatchesPolicy(pr) \/ LiveRegistry(pr),
         Cached(Entry(op, w, to, pr, 0, lot, c, test)), UNCHANGED audit,
         op # "deploy" => \E k \in ctl : k.pr = pr,
         op = "deploy" => lot = 0,
         op = "issue" <=> c # 0
  PROVE  IInv'
<1>1. PICK e : e = Entry(op, w, to, pr, 0, lot, c, test)
  OBVIOUS
<1>2. /\ pr \in 0..MaxTx /\ pr # 0 /\ pr <= ntx
      /\ \A o \in registry : o.id = pr => policy.epoch <= o.policy.epoch
  BY PublishedHere
<1>3. 0 \in 0..MaxTx /\ op \in Ops /\ policy # NoPolicy /\ 0 <= ntx
  BY PolicyAssumption DEF Ops, Cached, IInv, Types
<1>4. /\ e \in Entries /\ e.policy = policy /\ e.op = op /\ e.pr = pr /\ e.reg = 0
      /\ e.lot = lot /\ e.ctl = c
  BY <1>1, <1>2, <1>3, PolicyTyped DEF Entry, Entries
<1>5. op # "deploy" => ctl # {} /\ \A k \in ctl : k.pr = pr
  BY DEF IInv, ChainOK
<1>6. EntryOK(e)
  BY <1>2, <1>3, <1>4, <1>5 DEF EntryOK, Moves, OfToken, RegistryOps, ControlOps
<1>7. \A r \in Reqs : Registers(req[r]) => e.reg # req[r].tx
  BY <1>4, ZeroIsFree
<1> QED
  BY <1>1, <1>4, <1>6, <1>7, CachedKept

LEMMA BuildControlStep ==
  ASSUME IInv, NEW op \in ControlOps, NEW w \in Wallets, NEW to \in Wallets, NEW c \in ctl,
         NEW lot \in 0..MaxTx, NEW rec \in ControlRecord(w, c),
         Cached(Entry(op, w, to, c.pr, rec.at, lot, 0, FALSE)), UNCHANGED audit
  PROVE  IInv'
<1>1. PICK e : e = Entry(op, w, to, c.pr, rec.at, lot, 0, FALSE)
  OBVIOUS
<1>2. rec \in registries /\ rec.id = c.pr /\ LiveRegistry(c.pr)
  BY DEF ControlRecord, RecordOf
<1>3. PICK x \in registries : x.id = c.pr /\ x.policy = policy /\ RegistryIsLive(x)
  BY <1>2 DEF LiveRegistry, RecordOf
<1>4. x = rec
  BY <1>2, <1>3 DEF IInv, RecordsOK
<1>5. /\ c.pr \in 1..MaxTx /\ rec.at \in 1..MaxTx /\ c.pr <= ntx /\ rec.at <= ntx
      /\ \A r \in Reqs : Registers(req[r]) => rec.at # req[r].tx
      /\ \A o \in registry : o.at = rec.at => o.id = c.pr /\ o.policy = policy
      /\ \A o \in registry : o.id = c.pr => policy.epoch <= o.policy.epoch
  BY <1>2, <1>3, <1>4, RecordKnown
<1>6. /\ 0 \in 0..MaxTx /\ op \in Ops /\ policy # NoPolicy
      /\ c.pr \in 0..MaxTx /\ rec.at \in 0..MaxTx /\ FALSE \in BOOLEAN
  BY <1>5, PolicyAssumption DEF Ops, Cached
<1>7. /\ e \in Entries /\ e.policy = policy /\ e.op = op /\ e.pr = c.pr /\ e.reg = rec.at
      /\ e.ctl = 0
  BY <1>1, <1>6, PolicyTyped DEF Entry, Entries
<1>8. ctl # {} /\ \A k \in ctl : k.pr = c.pr
  BY DEF IInv, ChainOK
<1>9. EntryOK(e)
  BY <1>5, <1>7, <1>8 DEF EntryOK, Moves, OfToken, RegistryOps, ControlOps
<1> QED
  BY <1>1, <1>5, <1>7, <1>9, CachedKept

LEMMA BuildsStep ==
  ASSUME IInv, Builds
  PROVE  IInv'
<1>0. PICK w \in Wallets, to \in Wallets :
         \/ BuildRegistryUpdate(w) \/ BuildRegistryDeploy(w)
         \/ BuildDeploy(w) \/ BuildTransfer(to) \/ BuildSeize(w, to) \/ BuildForcedBurn(w)
         \/ \E test \in BOOLEAN : BuildIssue(w, to, test)
  BY DEF Builds
<1>a. /\ 0 \in 0..MaxTx /\ FALSE \in BOOLEAN
      /\ \A l \in lots : l.at \in 0..MaxTx /\ l.wallet \in Wallets
      /\ \A c \in ctl : c.at \in 1..MaxTx
  BY PolicyAssumption DEF IInv, Types, Lots, Controllers
<1>1. CASE BuildRegistryUpdate(w) \/ BuildRegistryDeploy(w)
  BY <1>1, BuildUpdateStep, BuildRegistryDeployStep
<1>2. CASE BuildDeploy(w)
  <2>1. PICK rec \in registries : LiveRegistry(rec.id) /\ Cached(Entry("deploy", w, w, rec.id, 0, 0, 0, FALSE))
    BY <1>2 DEF BuildDeploy, DeployTermsOK
  <2>2. PICK op \in {"deploy", "issue", "transfer"} : op = "deploy"
    OBVIOUS
  <2>3. UNCHANGED audit
    BY <1>2 DEF BuildDeploy
  <2> QED
    BY <1>a, <2>1, <2>2, <2>3, BuildTokenStep
<1>3. CASE BuildTransfer(to)
  <2>1. PICK c \in ctl, l \in LiveLots :
          TransferAllowed(l, to, c.pr) /\ Cached(Entry("transfer", l.wallet, to, c.pr, 0, l.at, 0, FALSE))
    BY <1>3 DEF BuildTransfer
  <2>2. PICK op \in {"deploy", "issue", "transfer"} : op = "transfer"
    OBVIOUS
  <2>3. UNCHANGED audit /\ RegistryRecordMatchesPolicy(c.pr) /\ l \in lots
    BY <1>3, <2>1 DEF BuildTransfer, TransferAllowed, LiveLots
  <2> QED
    BY <1>a, <2>1, <2>2, <2>3, BuildTokenStep
<1>4. CASE BuildSeize(w, to)
  <2>1. PICK c \in ctl, l \in LiveLots : \E rec \in ControlRecord(w, c) :
          Cached(Entry("seize", w, to, c.pr, rec.at, l.at, 0, FALSE))
    BY <1>4 DEF BuildSeize
  <2>2. PICK rec \in ControlRecord(w, c) : Cached(Entry("seize", w, to, c.pr, rec.at, l.at, 0, FALSE))
    BY <2>1
  <2>3. PICK op \in ControlOps : op = "seize"
    BY DEF ControlOps
  <2>4. UNCHANGED audit /\ l \in lots
    BY <1>4, <2>1 DEF BuildSeize, LiveLots
  <2> QED
    BY <1>a, <2>2, <2>3, <2>4, BuildControlStep
<1>5. CASE BuildForcedBurn(w)
  <2>1. PICK c \in ctl, l \in LiveLots : \E rec \in ControlRecord(w, c) :
          Cached(Entry("forced_burn", w, l.wallet, c.pr, rec.at, l.at, 0, FALSE))
    BY <1>5 DEF BuildForcedBurn
  <2>2. PICK rec \in ControlRecord(w, c) : Cached(Entry("forced_burn", w, l.wallet, c.pr, rec.at, l.at, 0, FALSE))
    BY <2>1
  <2>3. PICK op \in ControlOps : op = "forced_burn"
    BY DEF ControlOps
  <2>4. UNCHANGED audit /\ l \in lots
    BY <1>5, <2>1 DEF BuildForcedBurn, LiveLots
  <2> QED
    BY <1>a, <2>2, <2>3, <2>4, BuildControlStep
<1>6. ASSUME NEW test \in BOOLEAN, BuildIssue(w, to, test)
      PROVE  IInv'
  <2>1. PICK c \in ctl : LiveRegistry(c.pr) /\ Cached(Entry("issue", w, to, c.pr, 0, 0, c.at, test))
    BY <1>6 DEF BuildIssue
  <2>2. PICK op \in {"deploy", "issue", "transfer"} : op = "issue"
    OBVIOUS
  <2>3. UNCHANGED audit /\ c.at \in 0..MaxTx /\ c.at # 0
    BY <1>6, <1>a DEF BuildIssue
  <2> QED
    BY <1>a, <2>1, <2>2, <2>3, BuildTokenStep
<1> QED
  BY <1>0, <1>1, <1>2, <1>3, <1>4, <1>5, <1>6

-----------------------------------------------------------------------------
(* Submits, and what ends them. *)

\* A handler is replaced by one whose entry is in use already, or ends.
LEMMA HandlerStep ==
  ASSUME IInv, NEW r \in Reqs, NEW h \in {Idle} \cup Handlers, req' = [req EXCEPT ![r] = h],
         UNCHANGED <<policy, registries, registry, ctl, lots, tracked, ntx, cache>>,
         audit' = audit \/ (audit' = audit \cup {Event("submitted", h.entry.policy)} /\ h # Idle),
         h # Idle => h.entry \in InUse /\ h.pc # "accepted",
         h.pc = "sent" /\ h.entry.op \in RegistryOps =>
            Event("submitted", h.entry.policy) \in audit',
         \/ cutOff' = cutOff /\ ~Registers(req[r])
         \/ cutOff' = cutOff + 1 /\ cutOff' <= MaxCutOff
  PROVE  IInv'
<1> USE DEF IInv
<1>1. /\ \A q \in Reqs : req'[q] = IF q = r THEN h ELSE req[q]
      /\ \A q \in Reqs : req'[q] # Idle => req'[q].pc \in {"checked", "sent", "accepted"}
      /\ Idle.pc = "idle"
  BY DEF Types, Handlers, Idle
<1>2. InUse' \subseteq InUse
  <2>1. ASSUME NEW q \in Busy'
        PROVE  req'[q].entry \in InUse
    BY <1>1, <2>1 DEF Busy, InUse
  <2> QED
    BY <2>1 DEF InUse
<1>3. audit \subseteq audit' /\ audit' \subseteq Events
  <2>1. h # Idle => h.entry.policy \in Policies
    BY DEF Handlers, Entries
  <2> QED
    BY <2>1 DEF Types, PolicyOK, Event, Events
<1>4. Types'
  BY <1>3, RegulatedAssumption DEF Types, PolicyOK
<1>5. Known' \subseteq Known
  <2>1. \A x \in audit' : x.stage # "planned" => x.policy \in Known
    <3>1. h # Idle => h.entry.policy \in Known
      BY DEF Known
    <3>2. h # Idle => Event("submitted", h.entry.policy).policy = h.entry.policy
      BY DEF Event
    <3>3. \A x \in audit : x.stage # "planned" => x.policy \in Known
      BY DEF Known
    <3> QED
      BY <3>1, <3>2, <3>3
  <2>2. \A e \in InUse' : e.policy \in Known
    BY <1>2 DEF Known
  <2> QED
    BY <2>1, <2>2 DEF Known
<1>6. PoliciesOK' /\ ChainOK' /\ RecordsOK' /\ EntriesOK' /\ EpochsOK'
  BY <1>2, <1>4, <1>5, FewerEntries
<1>7. \A q \in Reqs : req'[q].pc = "accepted" => q # r /\ req'[q] = req[q]
  BY <1>1
<1>8. AcceptedOK'
  BY <1>2, <1>7 DEF AcceptedOK, Registers, Named
<1>9. SentOK' /\ ChangeIsAudited'
  BY <1>1, <1>3 DEF SentOK, ChangeIsAudited
<1>10. Recorded'
  <2>1. cutOff' = 0 => cutOff = 0 /\ ~Registers(req[r])
    BY DEF Types
  <2>2. \A q \in Reqs : q # r => req'[q] = req[q]
    BY <1>1
  <2> QED
    BY <2>1, <2>2 DEF Recorded, RegistryIsLive, Registers
<1> QED
  BY <1>4, <1>6, <1>8, <1>9, <1>10

LEMMA ExpireStep ==
  ASSUME IInv, NEW e \in cache, Expire(e)
  PROVE  IInv'
<1> USE DEF IInv
<1>1. /\ cache' = cache \ {e}
      /\ UNCHANGED <<policy, audit, registries, registry, ctl, lots, tracked, ntx, req, cutOff>>
  BY DEF Expire, policyVars, tokenVars
<1>2. InUse' \subseteq InUse
  BY <1>1 DEF InUse, Busy
<1>3. Known' \subseteq Known
  BY <1>1, <1>2 DEF Known
<1>4. Types'
  BY <1>1 DEF Types, PolicyOK
<1>5. PoliciesOK' /\ ChainOK' /\ RecordsOK' /\ EntriesOK' /\ EpochsOK'
  BY <1>1, <1>2, <1>3, <1>4, FewerEntries
<1>6. AcceptedOK'
  BY <1>1, <1>2 DEF AcceptedOK, Registers, Named
<1>7. SentOK' /\ ChangeIsAudited' /\ Recorded'
  BY <1>1 DEF SentOK, ChangeIsAudited, Recorded, RegistryIsLive, Registers
<1> QED
  BY <1>4, <1>5, <1>6, <1>7

LEMMA SubmittedKept ==
  ASSUME IInv, NEW r \in Reqs, NEW e \in cache, NEW pc \in {"checked", "sent"},
         Submitted(r, e, pc), pc = "sent" => e.op \notin RegistryOps
  PROVE  IInv'
<1>1. PICK h : h = [pc |-> pc, entry |-> e, tx |-> 0]
  OBVIOUS
<1>2. req' = [req EXCEPT ![r] = h] /\ req[r] = Idle
  BY <1>1 DEF Submitted, Become
<1>3. h \in Handlers /\ h.entry = e /\ h.pc = pc
  BY <1>1, PolicyAssumption DEF Handlers, IInv, Types
<1>4. UNCHANGED <<policy, audit, registries, registry, ctl, lots, tracked, ntx, cache, cutOff>>
  BY DEF Submitted, policyVars, tokenVars
<1>5. h.entry \in InUse /\ ~Registers(req[r])
  BY <1>2, <1>3 DEF InUse, Registers, Idle
<1> QED
  BY <1>2, <1>3, <1>4, <1>5, HandlerStep

LEMMA SubmitsStep ==
  ASSUME IInv, NEW r \in Reqs, Submits(r)
  PROVE  IInv'
<1>1. PICK e \in cache :
        \/ SubmitRegistry(r, e) \/ SubmitDeploy(r, e) \/ SubmitIssue(r, e)
        \/ SubmitTransfer(r, e) \/ SubmitControl(r, e)
  BY DEF Submits
<1>2. \E pc \in {"checked", "sent"} :
         Submitted(r, e, pc) /\ (pc = "sent" => e.op \notin RegistryOps)
  BY <1>1 DEF SubmitRegistry, SubmitDeploy, SubmitIssue, SubmitTransfer, SubmitControl,
              RegistryOps, ControlOps
<1> QED
  BY <1>2, SubmittedKept

LEMMA SendStep ==
  ASSUME IInv, NEW r \in Reqs, SendRegistry(r)
  PROVE  IInv'
<1>1. PICK h : h = [req[r] EXCEPT !.pc = "sent"]
  OBVIOUS
<1>2. req[r] \in Handlers /\ req[r].pc = "checked"
  BY DEF SendRegistry, IInv, Types, Idle
<1>3. /\ h \in Handlers /\ h.entry = req[r].entry /\ h.pc = "sent"
      /\ req' = [req EXCEPT ![r] = h]
  BY <1>1, <1>2 DEF Handlers, SendRegistry, IInv, Types
<1>4. /\ audit' = audit \cup {Event("submitted", h.entry.policy)}
      /\ UNCHANGED <<policy, registries, registry, ctl, lots, tracked, ntx, cache, cutOff>>
  BY <1>3 DEF SendRegistry, tokenVars
<1>5. h.entry \in InUse /\ ~Registers(req[r]) /\ h # Idle
  BY <1>2, <1>3 DEF InUse, Busy, Registers, Idle
<1> QED
  BY <1>3, <1>4, <1>5, HandlerStep

LEMMA RefusedStep ==
  ASSUME IInv, NEW r \in Reqs, Refused(r) \/ ReplyLost(r)
  PROVE  IInv'
<1>1. PICK h \in {Idle} : req' = [req EXCEPT ![r] = h]
  BY DEF Refused, ReplyLost, Become
<1>2. UNCHANGED <<policy, audit, registries, registry, ctl, lots, tracked, ntx, cache>>
  BY DEF Refused, ReplyLost, policyVars, tokenVars
<1>3. \/ cutOff' = cutOff /\ ~Registers(req[r])
      \/ cutOff' = cutOff + 1 /\ cutOff' <= MaxCutOff
  BY RegulatedAssumption DEF Refused, ReplyLost, Registers, IInv, Types
<1>4. h = Idle /\ h.pc # "sent"
  BY DEF Idle
<1> QED
  BY <1>1, <1>2, <1>3, <1>4, HandlerStep

-----------------------------------------------------------------------------
(* The node takes a transaction. *)

\* What a transaction makes of the registry that it spends.
Successor(e, o, n) ==
    /\ o \in Registries /\ o.at = n
    /\ \/ e.op = "registry_deploy" /\ o.id = n /\ o.policy = e.policy /\ o.prev = NoPolicy
       \/ /\ e.op = "registry_update"
          /\ \E q \in registry : /\ q.at = e.reg /\ o.id = q.id
                                 /\ o.policy = e.policy /\ o.prev = q.policy
       \/ /\ e.op \in ControlOps
          /\ \E q \in registry : /\ q.at = e.reg /\ o.id = q.id
                                 /\ o.policy = q.policy /\ o.prev = q.prev

LEMMA OutputsAre ==
  ASSUME Types, ChainOK, NEW e \in Entries, NEW n \in 1..MaxTx, RegistrySourceLive(e),
         Moves(e) => e.reg # 0
  PROVE  /\ \A o \in RegistryOutputs(e, n) : Successor(e, o, n)
         /\ \A o, q \in RegistryOutputs(e, n) : o = q
         /\ e.op \in RegistryOps \cup ControlOps => RegistryOutputs(e, n) # {}
<1>0. /\ registry \subseteq Registries /\ e.policy \in Policies /\ e.wallet \in Wallets
      /\ \A o, q \in registry : o.at = q.at => o = q
  BY DEF Types, PolicyOK, Entries, ChainOK
<1>a. PICK A, B, C :
        /\ A = {[id |-> n, at |-> n, wallet |-> e.wallet, policy |-> e.policy, prev |-> NoPolicy]}
        /\ B = {[o EXCEPT !.at = n, !.policy = e.policy, !.prev = o.policy] :
                  o \in {x \in registry : x.at = e.reg}}
        /\ C = {[o EXCEPT !.at = n] : o \in {x \in registry : x.at = e.reg}}
  OBVIOUS
<1>b. RegistryOutputs(e, n) = CASE e.op = "registry_deploy" -> A
                                [] e.op = "registry_update" -> B
                                [] e.op \in ControlOps -> C
                                [] OTHER -> {}
  BY <1>a, Zenon DEF RegistryOutputs
<1>1. CASE e.op = "registry_deploy"
  <2>1. PICK o : o = [id |-> n, at |-> n, wallet |-> e.wallet, policy |-> e.policy, prev |-> NoPolicy]
    OBVIOUS
  <2>2. RegistryOutputs(e, n) = {o}
    <3>1. RegistryOutputs(e, n) = A
      BY <1>1, <1>b DEF ControlOps
    <3> QED
      BY <1>a, <2>1, <3>1
  <2>3. Successor(e, o, n)
    BY <1>0, <1>1, <2>1 DEF Successor, Registries
  <2> QED
    BY <2>2, <2>3
<1>2. CASE e.op = "registry_update"
  <2>1. RegistryOutputs(e, n) =
          {[o EXCEPT !.at = n, !.policy = e.policy, !.prev = o.policy] :
              o \in {x \in registry : x.at = e.reg}}
    <3>1. RegistryOutputs(e, n) = B
      BY <1>2, <1>b DEF ControlOps
    <3> QED
      BY <1>a, <3>1
  <2>2. PICK q \in registry : q.at = e.reg
    BY <1>2 DEF RegistrySourceLive, Moves
  <2>3. PICK o : o = [q EXCEPT !.at = n, !.policy = e.policy, !.prev = q.policy]
    OBVIOUS
  <2>4. {x \in registry : x.at = e.reg} = {q}
    BY <1>0, <2>2
  <2>5. RegistryOutputs(e, n) = {o}
    BY <2>1, <2>3, <2>4
  <2>6. /\ o \in Registries /\ o.at = n /\ o.id = q.id /\ o.policy = e.policy /\ o.prev = q.policy
    BY <1>0, <2>3 DEF Registries
  <2>7. Successor(e, o, n)
    BY <1>2, <2>2, <2>6 DEF Successor
  <2> QED
    BY <2>5, <2>7
<1>3. CASE e.op \in ControlOps
  <2>1. RegistryOutputs(e, n) = {[o EXCEPT !.at = n] : o \in {x \in registry : x.at = e.reg}}
    <3>1. RegistryOutputs(e, n) = C
      BY <1>3, <1>b DEF ControlOps
    <3> QED
      BY <1>a, <3>1
  <2>2. PICK q \in registry : q.at = e.reg
    BY <1>3 DEF RegistrySourceLive, Moves
  <2>3. PICK o : o = [q EXCEPT !.at = n]
    OBVIOUS
  <2>4. {x \in registry : x.at = e.reg} = {q}
    BY <1>0, <2>2
  <2>5. RegistryOutputs(e, n) = {o}
    BY <2>1, <2>3, <2>4
  <2>6. /\ o \in Registries /\ o.at = n /\ o.id = q.id /\ o.policy = q.policy /\ o.prev = q.prev
    BY <1>0, <2>3 DEF Registries
  <2>7. Successor(e, o, n)
    BY <1>3, <2>2, <2>6 DEF Successor
  <2> QED
    BY <2>5, <2>7
<1>4. CASE e.op \notin RegistryOps \cup ControlOps
  <2>1. RegistryOutputs(e, n) = {}
    BY <1>4, <1>b DEF RegistryOps
  <2> QED
    BY <1>4, <2>1
<1> QED
  BY <1>1, <1>2, <1>3, <1>4 DEF RegistryOps

\* Of a step that takes the transaction of entry e as number n.
Accepted(r, e, n) ==
    /\ e \in Entries /\ EntryOK(e) /\ e \in InUse /\ req[r].pc = "sent" /\ req[r].entry = e
    /\ n = ntx + 1 /\ n \in 1..MaxTx /\ ntx' = n /\ Unspent(e)
    /\ registry' = {o \in registry : o.at # e.reg} \cup RegistryOutputs(e, n)
    /\ ctl' = {c \in ctl : c.at # e.ctl} \cup ControllerOutputs(e, n)
    /\ lots' = {l \in lots : l.at # e.lot} \cup LotOutputs(e, n)
    /\ cache' = cache \ {e}
    /\ UNCHANGED <<policy, audit, registries, tracked, cutOff>>
    /\ \E h \in Handlers : /\ req' = [req EXCEPT ![r] = h]
                           /\ h.pc = "accepted" /\ h.entry = e /\ h.tx = n

LEMMA AcceptIs ==
  ASSUME IInv, NEW r \in Reqs, Accept(r)
  PROVE  \E e, n : Accepted(r, e, n)
<1>1. PICK e, n : e = req[r].entry /\ n = ntx + 1
  OBVIOUS
<1>2. req[r] \in Handlers /\ req[r].pc = "sent"
  BY DEF Accept, IInv, Types, Idle
<1>3. e \in Entries /\ e \in InUse /\ n \in 1..MaxTx
  BY <1>1, <1>2, PolicyAssumption DEF Handlers, InUse, Busy, IInv, Types, Accept
<1>4. EntryOK(e)
  BY <1>3 DEF IInv, EntriesOK
<1>5. PICK h : h = [pc |-> "accepted", entry |-> e, tx |-> n]
  OBVIOUS
<1>6. h \in Handlers /\ h.pc = "accepted" /\ h.entry = e /\ h.tx = n
  BY <1>3, <1>5 DEF Handlers
<1>7. req' = [req EXCEPT ![r] = h]
  BY <1>1, <1>5 DEF Accept, Become
<1>8. Accepted(r, e, n)
  BY <1>1, <1>2, <1>3, <1>4, <1>6, <1>7 DEF Accept, Accepted
<1> QED
  BY <1>8

\* What a transaction makes of the registries.
LEMMA AcceptedRegistry ==
  ASSUME IInv, NEW r \in Reqs, NEW e, NEW n, Accepted(r, e, n)
  PROVE  /\ \A o \in registry' : (o \in registry /\ o.at # e.reg) \/ Successor(e, o, n)
         /\ \A o \in registry : o.at # e.reg => o \in registry'
         /\ \A o, q \in registry' : o.at = q.at \/ o.id = q.id => o = q
         /\ \A o \in registry' : o.at <= n /\ o.id <= n
         /\ e.op \in RegistryOps \cup ControlOps => \E o \in registry' : Successor(e, o, n)
         /\ \A o \in registry' : o.id = n \/ \E q \in registry :
               q.id = o.id /\ q.policy.epoch <= o.policy.epoch
         /\ \A o \in registry : o.at # n /\ o.id # n
<1> USE DEF IInv
<1>1. /\ e \in Entries /\ n \in 1..MaxTx /\ RegistrySourceLive(e) /\ (Moves(e) => e.reg # 0)
      /\ registry' = {o \in registry : o.at # e.reg} \cup RegistryOutputs(e, n)
  BY DEF Accepted, Unspent, EntryOK
<1>2. /\ \A o \in RegistryOutputs(e, n) : Successor(e, o, n)
      /\ \A o, q \in RegistryOutputs(e, n) : o = q
      /\ e.op \in RegistryOps \cup ControlOps => RegistryOutputs(e, n) # {}
  BY <1>1, OutputsAre
<1>3. /\ ntx \in Nat /\ n = ntx + 1
      /\ \A o \in registry : /\ o.at \in 1..MaxTx /\ o.id \in 1..MaxTx /\ o.at <= ntx /\ o.id <= ntx
                             /\ o.policy.epoch \in Nat
  <2>1. \A o \in registry : o.policy.epoch \in Nat
    BY KnownTyped DEF Known
  <2> QED
    BY <2>1, PolicyAssumption DEF Types, PolicyOK, Registries, ChainOK, Accepted
<1>4. \A o \in registry : o.at # n /\ o.id # n
  BY <1>3
<1>5. \A o, q \in registry' : o.at = q.at \/ o.id = q.id => o = q
  <2>1. ASSUME NEW o \in RegistryOutputs(e, n), NEW q \in registry, q.at # e.reg
        PROVE  o.at # q.at /\ o.id # q.id
    <3>1. Successor(e, o, n)
      BY <1>2
    <3> QED
      BY <1>4, <2>1, <3>1 DEF Successor, ChainOK
  <2> QED
    BY <1>1, <1>2, <2>1 DEF ChainOK
<1>6. ASSUME NEW o, Successor(e, o, n)
      PROVE  /\ o.at <= n /\ o.id <= n
             /\ o.id = n \/ \E q \in registry : q.id = o.id /\ q.policy.epoch <= o.policy.epoch
  <2>1. CASE e.op = "registry_deploy"
    BY <1>3, <1>6, <2>1 DEF Successor, ControlOps
  <2>2. CASE e.op = "registry_update"
    <3>1. PICK q \in registry : q.at = e.reg /\ o.id = q.id /\ o.policy = e.policy
      BY <1>6, <2>2 DEF Successor, ControlOps
    <3>2. q.policy.epoch < e.policy.epoch /\ e.policy.epoch \in Nat
      <4>1. e.policy.epoch \in Nat
        BY <1>1, PolicyAssumption DEF Entries, Policies
      <4> QED
        BY <2>2, <3>1, <4>1 DEF Accepted, EntryOK
    <3> QED
      BY <1>3, <1>6, <3>1, <3>2 DEF Successor
  <2>3. CASE e.op \in ControlOps
    BY <1>3, <1>6, <2>3 DEF Successor, ControlOps
  <2> QED
    BY <1>6, <2>1, <2>2, <2>3 DEF Successor
<1>7. \A o \in registry' : o.at <= n /\ o.id <= n
  BY <1>1, <1>2, <1>3, <1>6
<1>8. \A o \in registry' : o.id = n \/ \E q \in registry :
               q.id = o.id /\ q.policy.epoch <= o.policy.epoch
  BY <1>1, <1>2, <1>3, <1>6
<1> QED
  BY <1>1, <1>2, <1>4, <1>5, <1>7, <1>8

LEMMA AcceptedTypes ==
  ASSUME IInv, NEW r \in Reqs, NEW e, NEW n, Accepted(r, e, n)
  PROVE  Types' /\ InUse' \subseteq InUse /\ Known' \subseteq Known
<1> USE DEF IInv
<1>1. /\ e \in Entries /\ n \in 1..MaxTx /\ EntryOK(e) /\ e \in InUse
      /\ UNCHANGED <<policy, audit, registries, tracked, cutOff>>
      /\ cache' = cache \ {e} /\ ntx' = n
  BY DEF Accepted
<1>2. PICK h \in Handlers : req' = [req EXCEPT ![r] = h] /\ h.entry = e
  BY DEF Accepted
<1>3. InUse' \subseteq InUse
  <2>1. ASSUME NEW q \in Busy'
        PROVE  req'[q].entry \in InUse
    BY <1>1, <1>2, <2>1 DEF Busy, InUse, Types
  <2> QED
    BY <1>1, <2>1 DEF InUse
<1>4. ctl' \subseteq Controllers
  <2>1. e.op \in {"deploy", "issue"} => e.pr \in 1..MaxTx
    BY <1>1 DEF EntryOK, OfToken, Entries, Types, Controllers
  <2>2. ControllerOutputs(e, n) \subseteq Controllers
    BY <1>1, <2>1 DEF ControllerOutputs, Controllers, Entries, Policies
  <2> QED
    BY <2>2 DEF Accepted, Types
<1>5. lots' \subseteq Lots
  <2>1. LotOutputs(e, n) \subseteq Lots
    BY <1>1 DEF LotOutputs, Lots, Entries, Policies
  <2> QED
    BY <2>1 DEF Accepted, Types
<1>6. registry' \subseteq Registries
  BY AcceptedRegistry DEF Successor, Types, PolicyOK
<1>7. Types'
  <2>1. PolicyOK'
    BY <1>1, <1>6 DEF Types, PolicyOK
  <2>2. req' \in [Reqs -> {Idle} \cup Handlers]
    BY <1>2 DEF Types
  <2> QED
    BY <1>1, <1>4, <1>5, <2>1, <2>2 DEF Types
<1>8. \A o \in registry' : o.policy \in Known
  BY <1>1, AcceptedRegistry DEF Successor, Known
<1>9. Known' \subseteq Known
  BY <1>1, <1>3, <1>8 DEF Known
<1> QED
  BY <1>3, <1>7, <1>9

\* What the transaction makes of the token.
LEMMA AcceptedToken ==
  ASSUME IInv, NEW r \in Reqs, NEW e, NEW n, Accepted(r, e, n)
  PROVE  /\ \A c, d \in ctl' : c = d
         /\ \A c \in ctl' : c.pr <= ntx
         /\ ctl' = {} => lots' = {}
         /\ ctl # {} => ctl' # {} /\ \A c \in ctl', d \in ctl : c.pr = d.pr
         /\ \A c \in ctl', q \in registry : q.id = c.pr =>
               c.pe <= q.policy.epoch /\ \A l \in lots' : l.pe <= q.policy.epoch
<1> USE DEF IInv
<1>1. /\ e \in Entries /\ EntryOK(e) /\ Unspent(e)
      /\ ctl' = {c \in ctl : c.at # e.ctl} \cup ControllerOutputs(e, n)
      /\ lots' = {l \in lots : l.at # e.lot} \cup LotOutputs(e, n)
  BY DEF Accepted
<1>2. /\ \A c, d \in ctl : c = d
      /\ \A c \in ctl : c.pr <= ntx /\ c.at # 0
      /\ ctl = {} => lots = {}
      /\ \A c \in ctl, q \in registry : q.id = c.pr =>
               c.pe <= q.policy.epoch /\ \A l \in lots : l.pe <= q.policy.epoch
  BY DEF ChainOK, EpochsOK, Types, Controllers
<1>3. PICK x, y : /\ x = [at |-> n, wallet |-> e.wallet, pr |-> e.pr, pe |-> e.policy.epoch]
                  /\ y = [at |-> n, wallet |-> e.to, pe |-> e.policy.epoch]
  OBVIOUS
<1>4. x.pr = e.pr /\ x.pe = e.policy.epoch /\ y.pe = e.policy.epoch /\ e.pr <= ntx
  BY <1>1, <1>3 DEF EntryOK
<1>5. e.op \in {"deploy", "issue", "transfer"} \cup ControlOps =>
         \A q \in registry : q.id = e.pr => e.policy.epoch <= q.policy.epoch
  BY <1>1 DEF EntryOK, RegistryOps, ControlOps
<1>6. CASE e.op = "deploy"
  <2>1. ctl = {} /\ lots = {} /\ ctl' = {x} /\ lots' = {}
    BY <1>1, <1>2, <1>3, <1>6 DEF Unspent, ControllerOutputs, LotOutputs
  <2> QED
    BY <1>4, <1>5, <1>6, <2>1
<1>7. CASE e.op = "issue"
  <2>1. ctl' = {x}
    BY <1>1, <1>2, <1>3, <1>7 DEF Unspent, ControllerOutputs, EntryOK
  <2>2. lots' \subseteq lots \cup {y}
    BY <1>1, <1>3, <1>7 DEF LotOutputs
  <2>3. ctl # {} /\ \A c \in ctl : c.pr = e.pr
    BY <1>1, <1>7 DEF EntryOK, OfToken
  <2> QED
    BY <1>2, <1>4, <1>5, <1>7, <2>1, <2>2, <2>3
<1>8. CASE e.op \in {"transfer"} \cup ControlOps
  <2>1. ctl' = ctl
    BY <1>1, <1>2, <1>8 DEF ControllerOutputs, EntryOK, ControlOps
  <2>2. lots' \subseteq lots \cup {y}
    BY <1>1, <1>3 DEF LotOutputs
  <2>3. ctl # {} /\ \A c \in ctl : c.pr = e.pr
    BY <1>1, <1>8 DEF EntryOK, OfToken
  <2> QED
    BY <1>2, <1>4, <1>5, <1>8, <2>1, <2>2, <2>3
<1>9. CASE e.op \in RegistryOps
  <2>1. ctl' = ctl /\ lots' \subseteq lots
    BY <1>1, <1>2, <1>9 DEF ControllerOutputs, LotOutputs, EntryOK, RegistryOps
  <2> QED
    BY <1>2, <2>1
<1> QED
  BY <1>1, <1>6, <1>7, <1>8, <1>9 DEF Entries, Ops

LEMMA AcceptedKept ==
  ASSUME IInv, NEW r \in Reqs, NEW e, NEW n, Accepted(r, e, n)
  PROVE  PoliciesOK' /\ ChainOK' /\ RecordsOK' /\ EntriesOK' /\ EpochsOK'
<1> USE DEF IInv
<1>1. /\ EntryOK(e) /\ n = ntx + 1 /\ ntx' = n /\ ntx \in Nat /\ n \in Nat
      /\ UNCHANGED <<policy, audit, registries, tracked, cutOff>>
  BY PolicyAssumption DEF Accepted, Types
<1>2. /\ Types' /\ InUse' \subseteq InUse /\ Known' \subseteq Known
  BY AcceptedTypes
<1>3. /\ \A p \in Known : p.epoch \in Nat
      /\ \A o \in registry : o.policy \in Known /\ o.policy.epoch \in Nat
      /\ \A o \in registry' : o.policy.epoch \in Nat
      /\ \A rec \in registries : rec.policy.epoch \in Nat
      /\ \A d \in InUse : d.policy.epoch \in Nat
  <2>1. /\ \A p \in Known : p.epoch \in Nat
        /\ \A p \in Known' : p.epoch \in Nat
    BY <1>2, KnownTyped
  <2>2. /\ \A o \in registry : o.policy \in Known
        /\ \A rec \in registries : rec.policy \in Known
        /\ \A d \in InUse : d.policy \in Known
    BY DEF Known
  <2>3. \A o \in registry' : o.policy \in Known'
    BY DEF Known
  <2> QED
    BY <2>1, <2>2, <2>3
<1>4. /\ \A o \in registry' : (o \in registry /\ o.at # e.reg) \/ o.at = n
      /\ \A o, q \in registry' : o.at = q.at \/ o.id = q.id => o = q
      /\ \A o \in registry' : o.at <= n /\ o.id <= n
      /\ \A o \in registry' : o.id = n \/ \E q \in registry :
               q.id = o.id /\ q.policy.epoch <= o.policy.epoch
  BY AcceptedRegistry DEF Successor
<1>5. /\ \A c, d \in ctl' : c = d
      /\ \A c \in ctl' : c.pr <= ntx /\ c.pr \in Nat /\ c.pe \in Nat
      /\ \A l \in lots' : l.pe \in Nat
      /\ ctl' = {} => lots' = {}
      /\ ctl # {} => ctl' # {} /\ \A c \in ctl', d \in ctl : c.pr = d.pr
      /\ \A c \in ctl', q \in registry : q.id = c.pr =>
               c.pe <= q.policy.epoch /\ \A l \in lots' : l.pe <= q.policy.epoch
  <2>1. /\ \A c \in ctl' : c.pr \in Nat /\ c.pe \in Nat
        /\ \A l \in lots' : l.pe \in Nat
    BY <1>2 DEF Types, Controllers, Lots
  <2> QED
    BY <2>1, AcceptedToken
<1>6. PoliciesOK'
  BY <1>1, <1>2 DEF PoliciesOK
<1>7. ChainOK'
  BY <1>1, <1>4, <1>5 DEF ChainOK
<1>8. RecordsOK'
  <2>1. \A rec \in registries : rec.at <= n /\ rec.id <= n /\ rec.id # n
    BY <1>1 DEF RecordsOK, Types, PolicyOK, RegistryRecords
  <2>2. ASSUME NEW rec \in registries, NEW o \in registry', o.id = rec.id
        PROVE  rec.policy.epoch <= o.policy.epoch
    <3>1. PICK q \in registry : q.id = o.id /\ q.policy.epoch <= o.policy.epoch
      BY <1>4, <2>1, <2>2
    <3>2. rec.policy.epoch <= q.policy.epoch
      BY <2>2, <3>1 DEF RecordsOK
    <3> QED
      BY <1>3, <3>1, <3>2
  <2> QED
    BY <1>1, <2>1, <2>2 DEF RecordsOK
<1>9. EntriesOK'
  <2>1. SUFFICES ASSUME NEW d \in InUse
                 PROVE  EntryOK(d)'
    BY <1>2 DEF EntriesOK
  <2>2. EntryOK(d) /\ d.pr <= ntx /\ d.reg <= ntx /\ d.pr \in Nat /\ d.reg \in Nat
    <3>1. d \in Entries
      BY DEF InUse, Busy, Types, Handlers, Idle
    <3> QED
      BY <3>1 DEF EntriesOK, EntryOK, Entries
  <2>3. \A o \in registry' : (o \in registry \/ o.at # d.reg)
    BY <1>1, <1>4, <2>2
  <2>4. ASSUME NEW o \in registry', d.op \notin RegistryOps, o.id = d.pr
        PROVE  d.policy.epoch <= o.policy.epoch
    <3>1. PICK q \in registry : q.id = o.id /\ q.policy.epoch <= o.policy.epoch
      BY <1>1, <1>4, <2>2, <2>4
    <3>2. d.policy.epoch <= q.policy.epoch
      BY <2>2, <2>4, <3>1 DEF EntryOK
    <3> QED
      BY <1>3, <3>1, <3>2
  <2>5. OfToken(d) => ctl' # {} /\ \A c \in ctl' : c.pr = d.pr
    BY <1>5, <2>2 DEF EntryOK
  <2>6. d.pr <= n /\ d.reg <= n
    BY <1>1, <2>2
  <2> QED
    BY <1>1, <2>2, <2>3, <2>4, <2>5, <2>6 DEF EntryOK, Moves, OfToken
<1>10. EpochsOK'
  <2>1. SUFFICES ASSUME NEW c \in ctl', NEW o \in registry', o.id = c.pr
                 PROVE  c.pe <= o.policy.epoch /\ \A l \in lots' : l.pe <= o.policy.epoch
    BY DEF EpochsOK
  <2>2. PICK q \in registry : q.id = o.id /\ q.policy.epoch <= o.policy.epoch
    BY <1>1, <1>4, <1>5, <2>1
  <2> QED
    BY <1>3, <1>5, <2>1, <2>2
<1> QED
  BY <1>6, <1>7, <1>8, <1>9, <1>10

\* The output of a registry that is moved is the one its handler will record.
LEMMA AcceptedOutput ==
  ASSUME IInv, NEW r \in Reqs, NEW e, NEW n, Accepted(r, e, n),
         e.op \in RegistryOps \cup ControlOps
  PROVE  \E o \in registry' : /\ o.at = n /\ o.policy = e.policy
                              /\ o.id = IF e.pr = 0 THEN n ELSE e.pr
<1>1. PICK o \in registry' : Successor(e, o, n)
  BY AcceptedRegistry
<1>2. EntryOK(e)
  BY DEF Accepted
<1>3. CASE e.op = "registry_deploy"
  BY <1>1, <1>2, <1>3 DEF Successor, EntryOK, ControlOps
<1>4. CASE e.op = "registry_update"
  BY <1>1, <1>2, <1>4 DEF Successor, EntryOK, Moves, ControlOps
<1>5. CASE e.op \in ControlOps
  BY <1>1, <1>2, <1>5 DEF Successor, EntryOK, Moves, ControlOps
<1> QED
  BY <1>3, <1>4, <1>5 DEF RegistryOps

LEMMA AcceptStep ==
  ASSUME IInv, NEW r \in Reqs, Accept(r)
  PROVE  IInv'
<1> USE DEF IInv
<1>1. PICK e, n : Accepted(r, e, n)
  BY AcceptIs
<1>2. /\ EntryOK(e) /\ e \in InUse /\ n = ntx + 1 /\ ntx' = n /\ ntx \in Nat /\ n \in Nat
      /\ req[r].pc = "sent" /\ req[r].entry = e
      /\ UNCHANGED <<policy, audit, registries, tracked, cutOff>>
  BY <1>1, PolicyAssumption DEF Accepted, Types
<1>3. PICK h \in Handlers :
        req' = [req EXCEPT ![r] = h] /\ h.pc = "accepted" /\ h.entry = e /\ h.tx = n
  BY <1>1 DEF Accepted
<1>4. \A s \in Reqs : req'[s] = IF s = r THEN h ELSE req[s]
  BY <1>3 DEF Types
<1>5. /\ Types' /\ InUse' \subseteq InUse
      /\ PoliciesOK' /\ ChainOK' /\ RecordsOK' /\ EntriesOK' /\ EpochsOK'
  BY <1>1, AcceptedTypes, AcceptedKept
<1>6. /\ \A o \in registry : o.at # e.reg => o \in registry'
      /\ \A o \in registry' : (o \in registry /\ o.at # e.reg) \/ Successor(e, o, n)
  BY <1>1, AcceptedRegistry
<1>7. AcceptedOK'
  <2>1. \A s \in Reqs : req'[s].pc = "accepted" => req'[s].tx \in 1..n
    BY <1>2, <1>3, <1>4 DEF AcceptedOK
  <2>2. \A s, t \in Reqs : req'[s].pc = "accepted" /\ req'[t].pc = "accepted"
                             /\ req'[s].tx = req'[t].tx => s = t
    BY <1>2, <1>3, <1>4 DEF AcceptedOK
  <2>3. ASSUME NEW s \in Reqs, Registers(req'[s])
        PROVE  /\ \A rec \in registries : rec.at # req'[s].tx
               /\ \A d \in InUse' : d.reg # req'[s].tx
               /\ \E o \in registry' : /\ o.id = Named(req'[s]) /\ o.at = req'[s].tx
                                       /\ o.policy = req'[s].entry.policy
    <3>1. CASE s = r
      <4>1. /\ req'[s].tx = n /\ req'[s].entry = e /\ e.op \in RegistryOps \cup ControlOps
        BY <1>3, <1>4, <2>3, <3>1 DEF Registers
      <4>2. \A rec \in registries : rec.at # n
        BY <1>2 DEF RecordsOK, Types, PolicyOK, RegistryRecords
      <4>3. \A d \in InUse' : d.reg # n
        BY <1>2, <1>5 DEF EntriesOK, EntryOK
      <4> QED
        BY <1>1, <4>1, <4>2, <4>3, AcceptedOutput DEF Named
    <3>2. CASE s # r
      <4>1. req'[s] = req[s]
        BY <1>4, <3>2
      <4>2. PICK o \in registry : /\ o.id = Named(req[s]) /\ o.at = req[s].tx
                                  /\ o.policy = req[s].entry.policy
        BY <2>3, <4>1 DEF AcceptedOK
      <4>3. o \in registry'
        BY <1>2, <1>6, <2>3, <4>1, <4>2 DEF AcceptedOK
      <4> QED
        BY <1>5, <2>3, <4>1, <4>2, <4>3 DEF AcceptedOK
    <3> QED
      BY <3>1, <3>2
  <2> QED
    BY <1>2, <2>1, <2>2, <2>3 DEF AcceptedOK, Named
<1>8. SentOK'
  BY <1>2, <1>3, <1>4 DEF SentOK
<1>9. ChangeIsAudited'
  <2>1. ASSUME NEW o \in registry'
        PROVE  Event("submitted", o.policy) \in audit
    <3>1. CASE o \in registry
      BY <3>1 DEF ChangeIsAudited
    <3>2. CASE Successor(e, o, n)
      BY <1>2, <3>2 DEF Successor, SentOK, ChangeIsAudited, RegistryOps
    <3> QED
      BY <1>6, <3>1, <3>2
  <2> QED
    BY <1>2, <2>1 DEF ChangeIsAudited
<1>10. Recorded'
  <2>1. SUFFICES ASSUME cutOff = 0, NEW rec \in registries
                 PROVE  \/ RegistryIsLive(rec)'
                        \/ \E s \in Reqs : Registers(req'[s]) /\ req'[s].entry.pr = rec.id
    BY <1>2 DEF Recorded
  <2>2. CASE RegistryIsLive(rec)
    <3>1. PICK o \in registry : o.id = rec.id /\ o.at = rec.at /\ o.policy = rec.policy
      BY <2>2 DEF RegistryIsLive
    <3>2. CASE o.at # e.reg
      BY <1>6, <3>1, <3>2 DEF RegistryIsLive
    <3>3. CASE o.at = e.reg
      <4>1. e.reg # 0
        BY <3>3 DEF Types, PolicyOK, Registries
      <4>2. e.op \in RegistryOps \cup ControlOps /\ Moves(e)
        BY <1>2, <4>1 DEF EntryOK, Moves, RegistryOps
      <4>3. e.pr = rec.id
        BY <1>2, <3>1, <3>3, <4>2 DEF EntryOK
      <4> QED
        BY <1>3, <1>4, <4>2, <4>3 DEF Registers
    <3> QED
      BY <3>2, <3>3
  <2>3. ASSUME NEW s \in Reqs, Registers(req[s]), req[s].entry.pr = rec.id
        PROVE  \E t \in Reqs : Registers(req'[t]) /\ req'[t].entry.pr = rec.id
    BY <1>2, <1>4, <2>3 DEF Registers
  <2> QED
    BY <2>1, <2>2, <2>3 DEF Recorded
<1> QED
  BY <1>5, <1>7, <1>8, <1>9, <1>10

-----------------------------------------------------------------------------
(* Records. *)

LEMMA TrackedTyped ==
  ASSUME tracked \subseteq Tracked, NEW e \in Entries, NEW n \in 1..MaxTx
  PROVE  TrackedAfter(e, n) \subseteq Tracked
<1>1. n \in 0..MaxTx /\ 0 \in 0..MaxTx
  BY PolicyAssumption
<1>2. PICK A, B, C :
        /\ A = {[lot |-> 0, ctl |-> n]}
        /\ B = {[rec EXCEPT !.ctl = n] :
                  rec \in {x \in tracked : ~ (x.lot = 0 /\ x.ctl = e.ctl)}}
               \cup {[lot |-> n, ctl |-> n]}
        /\ C = {rec \in tracked : rec.lot # e.lot}
               \cup {[rec EXCEPT !.lot = n] :
                       rec \in {x \in tracked : x.lot = e.lot /\ e.op # "forced_burn"}}
  OBVIOUS
<1>3. A \subseteq Tracked /\ B \subseteq Tracked /\ C \subseteq Tracked
  BY <1>1, <1>2 DEF Tracked
<1>4. TrackedAfter(e, n) = CASE e.op = "deploy" -> A [] e.op = "issue" -> B [] OTHER -> C
  BY <1>2, Zenon DEF TrackedAfter
<1> QED
  BY <1>3, <1>4

LEMMA AcceptedHandler ==
  ASSUME IInv, NEW r \in Reqs, req[r].pc = "accepted"
  PROVE  /\ req[r] \in Handlers /\ req[r].entry \in Entries /\ req[r].entry \in InUse
         /\ EntryOK(req[r].entry) /\ req[r].tx \in 1..ntx /\ req[r].tx \in 1..MaxTx
<1>1. req[r] \in Handlers /\ req[r].entry \in InUse
  BY DEF IInv, Types, Idle, InUse, Busy
<1>2. req[r].tx \in 1..ntx /\ ntx \in 0..MaxTx
  BY DEF IInv, AcceptedOK, Types
<1> QED
  BY <1>1, <1>2, PolicyAssumption DEF Handlers, IInv, EntriesOK

LEMMA RecordTokenStep ==
  ASSUME IInv, NEW r \in Reqs, RecordToken(r)
  PROVE  IInv'
<1> USE DEF IInv
<1>1. /\ req[r].pc = "accepted" /\ req[r].entry.op \in {"deploy", "issue", "transfer"}
      /\ req' = [req EXCEPT ![r] = Idle]
      /\ UNCHANGED <<policy, audit, registries, registry, ctl, lots, ntx, cache, cutOff>>
  BY DEF RecordToken, Become, policyVars
<1>2. \A s \in Reqs : req'[s] = IF s = r THEN Idle ELSE req[s]
  BY <1>1 DEF Types
<1>3. InUse' \subseteq InUse
  BY <1>1, <1>2 DEF InUse, Busy, Idle
<1>4. Known' \subseteq Known
  BY <1>1, <1>3 DEF Known
<1>5. Types'
  <2>1. tracked' \subseteq Tracked
    BY <1>1, AcceptedHandler, TrackedTyped DEF RecordToken, Types
  <2> QED
    BY <1>1, <2>1 DEF Types, PolicyOK
<1>6. PoliciesOK' /\ ChainOK' /\ RecordsOK' /\ EntriesOK' /\ EpochsOK'
  BY <1>1, <1>3, <1>4, <1>5, FewerEntries
<1>7. ~Registers(req[r])
  BY <1>1 DEF Registers, RegistryOps, ControlOps
<1>8. \A s \in Reqs : req'[s].pc # "idle" => s # r /\ req'[s] = req[s]
  BY <1>2 DEF Idle
<1>9. AcceptedOK'
  BY <1>1, <1>3, <1>8 DEF AcceptedOK, Registers, Named
<1>10. SentOK' /\ ChangeIsAudited'
  BY <1>1, <1>8 DEF SentOK, ChangeIsAudited
<1>11. Recorded'
  BY <1>1, <1>2, <1>7 DEF Recorded, RegistryIsLive, Registers
<1> QED
  BY <1>5, <1>6, <1>9, <1>10, <1>11

\* The record that is written names the output that the transaction made.
LEMMA RegistryRecorded ==
  ASSUME IInv, NEW r \in Reqs, Registers(req[r]), NEW visible \in BOOLEAN,
         registries' = Upserted(RegistryRecord(req[r].entry, req[r].tx, visible)),
         Become(r, Idle), tracked' \subseteq Tracked,
         UNCHANGED <<policy, audit, registry, ctl, lots, ntx, cache, cutOff>>
  PROVE  IInv'
<1> USE DEF IInv
<1>1. PICK e, n : e = req[r].entry /\ n = req[r].tx
  OBVIOUS
<1>2. /\ e \in Entries /\ e \in InUse /\ EntryOK(e) /\ n \in 1..ntx /\ n \in 1..MaxTx
      /\ req[r].pc = "accepted"
  BY <1>1, AcceptedHandler DEF Registers
<1>3. PICK new : new = RegistryRecord(e, n, visible)
  OBVIOUS
<1>4. /\ new.id = Named(req[r]) /\ new.at = n /\ new.policy = e.policy
      /\ new \in RegistryRecords
  <2>1. (IF e.pr = 0 THEN n ELSE e.pr) \in 1..MaxTx
    BY <1>2 DEF Entries
  <2> QED
    BY <1>1, <1>2, <1>3, <2>1 DEF RegistryRecord, Named, RegistryRecords, Entries
<1>5. registries' = {x \in registries : x.id # new.id} \cup {new}
  BY <1>1, <1>3 DEF Upserted
<1>6. PICK o \in registry : o.id = new.id /\ o.at = n /\ o.policy = e.policy
  BY <1>1, <1>4 DEF AcceptedOK
<1>7. \A s \in Reqs : req'[s] = IF s = r THEN Idle ELSE req[s]
  BY DEF Become, Types
<1>8. \A s \in Reqs : req'[s].pc # "idle" => s # r /\ req'[s] = req[s]
  BY <1>7 DEF Idle
<1>9. InUse' \subseteq InUse
  BY <1>7, <1>8 DEF InUse, Busy
<1>10. Known' \subseteq Known
  <2>1. e.policy \in Known
    BY <1>2 DEF Known
  <2>2. \A x \in registries' : x.policy \in Known
    BY <1>4, <1>5, <2>1 DEF Known
  <2> QED
    BY <1>9, <2>2 DEF Known
<1>11. Types'
  BY <1>4, <1>5 DEF Types, PolicyOK, Become
<1>12. PoliciesOK' /\ ChainOK' /\ EpochsOK'
  BY <1>10 DEF PoliciesOK, ChainOK, EpochsOK
<1>13. EntriesOK'
  BY <1>9 DEF EntriesOK, EntryOK, Moves, OfToken
<1>14. RecordsOK'
  <2>1. \A x \in registry : x.id = new.id => x = o
    BY <1>6 DEF ChainOK
  <2>2. e.policy.epoch <= o.policy.epoch
    BY <1>2, <1>6, PolicyAssumption DEF Entries, Policies
  <2>3. new.id <= ntx /\ new.at <= ntx
    BY <1>2, <1>4, <1>6 DEF ChainOK
  <2> QED
    BY <1>4, <1>5, <2>1, <2>2, <2>3 DEF RecordsOK
<1>15. AcceptedOK'
  <2>1. \A s \in Reqs : req'[s].pc = "accepted" => s # r /\ req'[s] = req[s] /\ req[s].tx # n
    BY <1>1, <1>2, <1>8 DEF AcceptedOK
  <2>2. \A s \in Reqs : Registers(req'[s]) =>
          /\ s # r /\ req'[s] = req[s] /\ req[s].tx # n /\ Registers(req[s])
    BY <2>1 DEF Registers
  <2>3. \A s \in Reqs : Registers(req'[s]) => \A rec \in registries' : rec.at # req'[s].tx
    BY <1>4, <1>5, <2>2 DEF AcceptedOK
  <2> QED
    BY <1>9, <2>1, <2>2, <2>3 DEF AcceptedOK, Named
<1>16. SentOK' /\ ChangeIsAudited'
  BY <1>8 DEF SentOK, ChangeIsAudited
<1>17. Recorded'
  <2>1. SUFFICES ASSUME cutOff = 0, NEW rec \in registries'
                 PROVE  \/ RegistryIsLive(rec)'
                        \/ \E s \in Reqs : Registers(req'[s]) /\ req'[s].entry.pr = rec.id
    BY DEF Recorded
  <2>2. CASE rec = new
    BY <1>4, <1>6, <2>2 DEF RegistryIsLive
  <2>3. CASE rec \in registries /\ rec.id # new.id
    <3>1. CASE RegistryIsLive(rec)
      BY <3>1 DEF RegistryIsLive
    <3>2. ASSUME NEW s \in Reqs, Registers(req[s]), req[s].entry.pr = rec.id
          PROVE  \E t \in Reqs : Registers(req'[t]) /\ req'[t].entry.pr = rec.id
      <4>1. rec.id # 0
        BY <2>3 DEF Types, PolicyOK, RegistryRecords
      <4>2. s # r
        BY <1>4, <2>3, <3>2, <4>1 DEF Named
      <4> QED
        BY <1>7, <3>2, <4>2
    <3> QED
      BY <2>1, <2>3, <3>1, <3>2 DEF Recorded
  <2> QED
    BY <1>5, <2>1, <2>2, <2>3
<1> QED
  BY <1>11, <1>12, <1>13, <1>14, <1>15, <1>16, <1>17

LEMMA RecordStep ==
  ASSUME IInv, NEW r \in Reqs, RecordRegistry(r) \/ RecordControl(r)
  PROVE  IInv'
<1>1. req[r].pc = "accepted" /\ Registers(req[r]) /\ Become(r, Idle)
  BY DEF RecordRegistry, RecordControl, Registers
<1>2. PICK visible \in BOOLEAN :
        registries' = Upserted(RegistryRecord(req[r].entry, req[r].tx, visible))
  BY DEF RecordRegistry, RecordControl
<1>3. tracked' \subseteq Tracked
  BY <1>1, AcceptedHandler, TrackedTyped DEF RecordRegistry, RecordControl, tokenVars, IInv, Types
<1>4. UNCHANGED <<policy, audit, registry, ctl, lots, ntx, cache, cutOff>>
  BY DEF RecordRegistry, RecordControl, tokenVars
<1> QED
  BY <1>1, <1>2, <1>3, <1>4, RegistryRecorded

-----------------------------------------------------------------------------
(* The invariant. *)

LEMMA InitIInv ==
  ASSUME Init
  PROVE  IInv
<1>1. /\ cache = {} /\ req = [r \in Reqs |-> Idle] /\ cutOff = 0
      /\ \A r \in Reqs : req[r].pc = "idle"
  BY DEF Init, Idle
<1>2. InUse = {}
  BY <1>1 DEF InUse, Busy
<1>3. 4 \in 1..MaxTx /\ 3 \in 1..MaxTx /\ 1 \in 1..MaxTx /\ 2 \in 1..MaxEpoch /\ 1 \in 1..MaxEpoch
  BY PolicyAssumption
<1>4. EntriesOK /\ AcceptedOK /\ SentOK
  BY <1>1, <1>2 DEF EntriesOK, AcceptedOK, Registers, SentOK
<1>5. CASE PolicyInit /\ ctl = {} /\ lots = {} /\ tracked = {} /\ ntx = 4
  <2>1. Types
    BY <1>1, <1>3, <1>5, RegulatedAssumption DEF Types, PolicyInit, PolicyOK
  <2>2. Known = {NoPolicy} /\ policy = NoPolicy
    BY <1>2, <1>5 DEF Known, PolicyInit
  <2>3. PoliciesOK
    BY <2>2 DEF PoliciesOK, NoPolicy
  <2>4. ChainOK /\ RecordsOK /\ EpochsOK /\ ChangeIsAudited /\ Recorded
    BY <1>5, <2>2 DEF ChainOK, RecordsOK, EpochsOK, ChangeIsAudited, Recorded, PolicyInit
  <2> QED
    BY <1>4, <2>1, <2>3, <2>4 DEF IInv
<1>6. ASSUME NEW w \in Wallets, NEW holder \in Wallets, PublishedInit(w),
             ctl = {[at |-> 4, wallet |-> w, pr |-> 1, pe |-> 2]},
             lots = {[at |-> 4, wallet |-> holder, pe |-> 2]},
             tracked = {[lot |-> 4, ctl |-> 4]}, ntx = 4
      PROVE  IInv
  <2>1. PICK first, second :
          /\ first = [epoch |-> 1, content |-> Template]
          /\ second = [epoch |-> 2,
                       content |-> [governed |-> TRUE, allowed |-> Wallets, frozen |-> {}]]
    OBVIOUS
  <2>2. /\ first \in Policies /\ second \in Policies
        /\ first.epoch = 1 /\ second.epoch = 2
    BY <1>3, <2>1 DEF Policies, Contents, Template
  <2>3. /\ policy = second
        /\ audit = {Event(stage, p) : stage \in {"planned", "tracking_updated", "submitted"},
                                      p \in {first, second}}
        /\ registries = {[id |-> 1, at |-> 3, wallet |-> w, policy |-> second, live |-> TRUE]}
        /\ registry = {[id |-> 1, at |-> 3, wallet |-> w, policy |-> second, prev |-> first]}
    BY <1>6, <2>1 DEF PublishedInit
  <2>4. /\ audit \subseteq Events /\ \A x \in audit : x.policy \in {first, second}
        /\ Event("planned", second) \in audit /\ Event("submitted", second) \in audit
    BY <2>2, <2>3 DEF Event, Events
  <2>5. Types
    BY <1>1, <1>3, <1>6, <2>2, <2>3, <2>4, RegulatedAssumption
       DEF Types, PolicyOK, Registries, RegistryRecords, Controllers, Lots, Tracked
  <2>6. Known \subseteq {first, second}
    BY <1>2, <2>3, <2>4 DEF Known
  <2>7. PoliciesOK
    BY <2>2, <2>3, <2>6 DEF PoliciesOK
  <2>8. ChainOK /\ RecordsOK /\ EpochsOK
    <3>1. /\ \A o \in registry : o.id = 1 /\ o.at = 3 /\ o.policy = second
          /\ \A o, q \in registry : o = q
          /\ \A rec \in registries : rec.id = 1 /\ rec.at = 3 /\ rec.policy = second
          /\ \A rec, x \in registries : rec = x
      BY <2>3
    <3>2. /\ \A c \in ctl : c.pr = 1 /\ c.pe = 2
          /\ \A c, d \in ctl : c = d
          /\ \A l \in lots : l.pe = 2
          /\ ctl # {}
      BY <1>6
    <3>3. ChainOK
      <4>1. ntx = 4
        BY <1>6
      <4>2. /\ \A o, q \in registry : o.at = q.at \/ o.id = q.id => o = q
            /\ \A o \in registry : o.at <= ntx /\ o.id <= ntx
        BY <3>1, <4>1
      <4>3. /\ \A c, d \in ctl : c = d
            /\ \A c \in ctl : c.pr <= ntx
            /\ ctl = {} => lots = {}
        BY <3>2, <4>1
      <4> QED
        BY <4>2, <4>3 DEF ChainOK
    <3>4. RecordsOK
      BY <1>6, <2>2, <3>1 DEF RecordsOK
    <3>5. EpochsOK
      BY <2>2, <3>1, <3>2 DEF EpochsOK
    <3> QED
      BY <3>3, <3>4, <3>5
  <2>9. ChangeIsAudited /\ Recorded
    BY <2>3, <2>4 DEF ChangeIsAudited, Recorded, RegistryIsLive
  <2> QED
    BY <1>4, <2>5, <2>7, <2>8, <2>9 DEF IInv
<1> QED
  BY <1>5, <1>6 DEF Init

LEMMA NextIInv ==
  ASSUME IInv, [Next]_vars
  PROVE  IInv'
<1>1. CASE SavePolicy
  BY <1>1, SavePolicyStep
<1>2. CASE Stop
  BY <1>2, StopStep
<1>3. CASE Builds
  BY <1>3, BuildsStep
<1>4. ASSUME NEW e \in cache, Expire(e)
      PROVE  IInv'
  BY <1>4, ExpireStep
<1>5. ASSUME NEW r \in Reqs, Submits(r)
      PROVE  IInv'
  BY <1>5, SubmitsStep
<1>6. ASSUME NEW r \in Reqs, SendRegistry(r)
      PROVE  IInv'
  BY <1>6, SendStep
<1>7. ASSUME NEW r \in Reqs, Accept(r)
      PROVE  IInv'
  BY <1>7, AcceptStep
<1>8. ASSUME NEW r \in Reqs, Refused(r) \/ ReplyLost(r)
      PROVE  IInv'
  BY <1>8, RefusedStep
<1>9. ASSUME NEW r \in Reqs, RecordToken(r)
      PROVE  IInv'
  BY <1>9, RecordTokenStep
<1>10. ASSUME NEW r \in Reqs, RecordRegistry(r) \/ RecordControl(r)
       PROVE  IInv'
  BY <1>10, RecordStep
<1>11. CASE UNCHANGED vars
  <2>1. UNCHANGED <<policy, audit, registries, registry, ctl, lots, tracked, ntx, cache, req, cutOff>>
    BY <1>11 DEF vars
  <2>2. InUse' = InUse /\ Known' = Known
    BY <2>1 DEF InUse, Known, Busy
  <2>3. Types' /\ PoliciesOK' /\ ChainOK' /\ RecordsOK' /\ EpochsOK'
    BY <2>1, <2>2 DEF IInv, Types, PolicyOK, PoliciesOK, ChainOK, RecordsOK, EpochsOK
  <2>4. EntriesOK' /\ AcceptedOK'
    BY <2>1, <2>2 DEF IInv, EntriesOK, EntryOK, Moves, OfToken, AcceptedOK, Registers, Named
  <2>5. SentOK' /\ ChangeIsAudited' /\ Recorded'
    BY <2>1 DEF IInv, SentOK, ChangeIsAudited, Recorded, RegistryIsLive, Registers
  <2> QED
    BY <2>3, <2>4, <2>5 DEF IInv
<1> QED
  BY <1>1, <1>2, <1>3, <1>4, <1>5, <1>6, <1>7, <1>8, <1>9, <1>10, <1>11 DEF Next

\* IInv holds throughout.
THEOREM Invariance == Spec => []IInv
<1>1. Init => IInv
  BY InitIInv
<1>2. IInv /\ [Next]_vars => IInv'
  BY NextIInv
<1> QED
  BY <1>1, <1>2, PTL DEF Spec

\* An epoch names one policy, and no token output carries an epoch that the registry
\* it names has not published (the `epoch and root match' gates of server.ts).
THEOREM PolicyForEpoch == Spec => []EpochNamesPolicy
<1>1. IInv => EpochNamesPolicy
  BY Implied
<1> QED
  BY <1>1, Invariance, PTL

\* A policy is announced in the journal before it is saved, and a publication
\* before it is sent, wherever the process stops.
THEOREM ChangesAreAudited == Spec => []ChangeIsAudited
<1>1. IInv => ChangeIsAudited
  BY DEF IInv
<1> QED
  BY <1>1, Invariance, PTL

\* Between requests, the record of a registry names its live output, unless a
\* handler was cut off: seizures and forced burns, which move it, record it too.
THEOREM RecordsAreLive == Spec => []RecordedIsLive
<1>1. IInv => RecordedIsLive
  BY Implied
<1> QED
  BY <1>1, Invariance, PTL

-----------------------------------------------------------------------------
(* The line of a registry. *)

LEMMA AcceptExtendsLine ==
  ASSUME IInv, NEW r \in Reqs, Accept(r), NEW new \in registry' \ registry
  PROVE  \/ new.id = ntx' /\ new.prev = NoPolicy
         \/ \E old \in registry \ registry' : old.id = new.id /\ LineContinues(old, new)
<1>1. PICK e, n : Accepted(r, e, n)
  BY AcceptIs
<1>2. /\ EntryOK(e) /\ ntx' = n /\ e.policy.epoch \in Nat
  BY <1>1, PolicyAssumption DEF Accepted, Entries, Policies
<1>3. Successor(e, new, n)
  BY <1>1, AcceptedRegistry
<1>4. \A q \in registry : q.at = e.reg => q \notin registry'
  BY <1>1, AcceptedRegistry DEF Successor
<1>5. \A q \in registry : q.policy.epoch \in Nat
  BY KnownTyped DEF IInv, Known
<1>6. CASE e.op = "registry_deploy"
  BY <1>2, <1>3, <1>6 DEF Successor, ControlOps
<1>7. CASE e.op = "registry_update"
  <2>1. PICK q \in registry : /\ q.at = e.reg /\ new.id = q.id
                              /\ new.policy = e.policy /\ new.prev = q.policy
    BY <1>3, <1>7 DEF Successor, ControlOps
  <2>2. q.policy.epoch < e.policy.epoch
    BY <1>2, <1>7, <2>1 DEF EntryOK
  <2>3. new.policy.epoch > q.policy.epoch
    BY <1>2, <1>5, <2>1, <2>2
  <2> QED
    BY <1>4, <2>1, <2>3 DEF LineContinues
<1>8. CASE e.op \in ControlOps
  <2>1. PICK q \in registry : /\ q.at = e.reg /\ new.id = q.id
                              /\ new.policy = q.policy /\ new.prev = q.prev
    BY <1>3, <1>8 DEF Successor, ControlOps
  <2> QED
    BY <1>4, <2>1 DEF LineContinues
<1> QED
  BY <1>3, <1>6, <1>7, <1>8 DEF Successor

LEMMA OthersKeepRegistry ==
  ASSUME IInv, [Next]_vars, ~ \E r \in Reqs : Accept(r)
  PROVE  registry' = registry
<1>1. CASE SavePolicy \/ Stop
  BY <1>1 DEF SavePolicy, Stop, ChangePolicy, CreatePolicy, ResetPolicy, UpdatePolicy, Save,
              policyVars
<1>2. CASE Builds
  <2>1. ASSUME NEW w \in Wallets, NEW to \in Wallets, NEW test \in BOOLEAN,
               \/ BuildRegistryUpdate(w) \/ BuildRegistryDeploy(w) \/ BuildDeploy(w)
               \/ BuildTransfer(to) \/ BuildSeize(w, to) \/ BuildForcedBurn(w)
               \/ BuildIssue(w, to, test)
        PROVE  \E e : Cached(e)
    BY <2>1, Zenon DEF BuildRegistryUpdate, BuildRegistryDeploy, BuildDeploy, BuildTransfer,
                       BuildSeize, BuildForcedBurn, BuildIssue
  <2>2. \E e : Cached(e)
    BY <1>2, <2>1 DEF Builds
  <2> QED
    BY <2>2 DEF Cached
<1>3. CASE \E e \in cache : Expire(e)
  BY <1>3 DEF Expire, policyVars
<1>4. ASSUME NEW r \in Reqs,
             \/ Submits(r) \/ SendRegistry(r) \/ Refused(r) \/ ReplyLost(r)
             \/ RecordRegistry(r) \/ RecordToken(r) \/ RecordControl(r)
      PROVE  registry' = registry
  BY <1>4 DEF Submits, SubmitRegistry, SubmitDeploy, SubmitIssue, SubmitTransfer, SubmitControl,
              Submitted, SendRegistry, Refused, ReplyLost, RecordRegistry, RecordToken,
              RecordControl, policyVars
<1>5. CASE UNCHANGED vars
  BY <1>5 DEF vars
<1> QED
  BY <1>1, <1>2, <1>3, <1>4, <1>5 DEF Next

\* The line of a registry is not broken: each output continues the one it spends.
THEOREM LinesGrow == Spec => LineageGrows
<1>1. ASSUME IInv, [Next]_vars
      PROVE  [\A new \in registry' \ registry :
                 \/ new.id = ntx' /\ new.prev = NoPolicy
                 \/ \E old \in registry \ registry' : old.id = new.id /\ LineContinues(old, new)]_vars
  <2>1. CASE \E r \in Reqs : Accept(r)
    BY <1>1, <2>1, AcceptExtendsLine
  <2>2. CASE ~ \E r \in Reqs : Accept(r)
    BY <1>1, <2>2, OthersKeepRegistry
  <2> QED
    BY <2>1, <2>2
<1> QED
  BY <1>1, Invariance, PTL DEF Spec, LineageGrows
=============================================================================
