--------------------------- MODULE CovenantScript ---------------------------
(***************************************************************************)
(* The redeem scripts that server.ts builds for programmable-KAS locks,    *)
(* run opcode by opcode by the engine of the vendored rusty-kaspa, against *)
(* every way a transaction may try to spend the lock: whose signature it   *)
(* carries, its lock time and input sequence, what it pays and when.       *)
(*                                                                         *)
(* A public key, an address and a script public key are a wallet; a        *)
(* signature is the wallet that made it.  Sequences and lock times count   *)
(* in DAA scores.  The script pushes are data; sizes, sig-op budgets and   *)
(* the P2SH hash are left out.                                             *)
(***************************************************************************)
EXTENDS CovenantFamilies, Sequences

CONSTANT
    Strangers  \* keys that no lock names

\* The delta of a relative-sequence lock is not the sequence that disables it.
ASSUME ScriptAssumption == Delta <= MaxDaa

VARIABLES
    lock,     \* the lock being spent
    born,     \* DAA score of the block that accepted the lock
    tx,       \* the spending transaction
    pc,       \* the next opcode
    stack,    \* the data stack, its top last
    conds,    \* the condition stack
    verdict   \* "running", "true", or "error"

scriptVars == <<lock, born, tx, pc, stack, conds, verdict>>
Keys == Wallets \cup Strangers

Op(name) == [op |-> name, arg |-> 0]
Push(v) == [op |-> "Push", arg |-> v]

-----------------------------------------------------------------------------
\* The scripts.  ProtectKas pays to the destination's public key directly.
OwnerSig(l) == <<Push(l.owner), Op("CheckSig")>>
PaysOnly(w) ==
    <<Op("TxOutputCount"), Push(1), Op("EqualVerify"),
      Push(0), Op("TxOutputSpk"), Push(w), Op("EqualVerify")>>
LockTime(l) == <<Push(l.unlock), Op("CheckLockTimeVerify")>>

ImmediateRecoveryScript(l) ==
    <<Op("Dup")>> \o OwnerSig(l) \o <<Op("Swap")>>
    \o <<Push(l.other), Op("CheckSig"), Op("BoolOr")>>
\* Mutant: the recovery branch forgets the lock time.
DelayedRecoveryScriptNoLock(l) ==
    <<Op("Dup")>> \o OwnerSig(l) \o <<Op("If"), Op("Drop"), Push(1), Op("Else")>>
    \o <<Push(l.other), Op("CheckSig"), Op("EndIf")>>
DelayedRecoveryScript(l) ==
    <<Op("Dup")>> \o OwnerSig(l) \o <<Op("If"), Op("Drop"), Push(1), Op("Else")>>
    \o LockTime(l) \o <<Push(l.other), Op("CheckSig"), Op("EndIf")>>
AbsoluteTimeScript(l) == LockTime(l) \o OwnerSig(l)
RelativeSequenceScript(l) ==
    <<Push(Delta), Op("CheckSequenceVerify")>> \o OwnerSig(l)
AllowedDestinationScript(l) == PaysOnly(l.other) \o OwnerSig(l)
AbsoluteTimeDestinationScript(l) ==
    LockTime(l) \o PaysOnly(l.other) \o OwnerSig(l)
\* Mutant: the signature is not duplicated before the seller's check.
EscrowScriptNoDup(l) ==
    OwnerSig(l) \o <<Op("If")>> \o PaysOnly(l.owner) \o OwnerSig(l)
    \o <<Op("Else")>> \o LockTime(l) \o PaysOnly(l.other)
    \o <<Push(l.other), Op("CheckSig"), Op("EndIf")>>
EscrowScript(l) ==
    <<Op("Dup")>> \o OwnerSig(l) \o <<Op("If")>> \o PaysOnly(l.owner) \o OwnerSig(l)
    \o <<Op("Else")>> \o LockTime(l) \o PaysOnly(l.other)
    \o <<Push(l.other), Op("CheckSig"), Op("EndIf")>>

Script(l) ==
    CASE l.family = "ImmediateRecovery" -> ImmediateRecoveryScript(l)
      [] l.family = "DelayedRecovery" -> DelayedRecoveryScript(l)
      [] l.family = "AbsoluteTime" -> AbsoluteTimeScript(l)
      [] l.family = "RelativeSequence" -> RelativeSequenceScript(l)
      [] l.family = "AllowedDestination" -> AllowedDestinationScript(l)
      [] l.family = "AbsoluteTimeDestination" -> AbsoluteTimeDestinationScript(l)
      [] l.family = "Escrow" -> EscrowScript(l)
      [] OTHER -> OwnerSig(l)

-----------------------------------------------------------------------------
\* A transaction that the node would consider at DAA score now: its lock time
\* has passed and its sequence is an age its input has reached, unless its
\* input is final, which frees it from both.
Final == MaxDaa + 1
Txs ==
    [signer: Keys, lockTime: 0..MaxDaa, sequence: {0, Delta, Final},
     pays: {<<w>> : w \in Keys} \cup {<<v, w>> : v, w \in Keys}, now: 0..MaxDaa]
Timely(t, b) ==
    /\ b <= t.now
    /\ t.sequence # Final => t.lockTime <= t.now /\ b + t.sequence <= t.now

ScriptInit ==
    /\ \E w \in Wallets, b \in 0..MaxDaa : lock \in NewLocks(w, b) /\ born = b
    /\ tx \in {t \in Txs : Timely(t, born)}
    /\ pc = 1
    /\ stack = <<tx.signer>>
    /\ conds = <<>>
    /\ verdict = "running"

Top == stack[Len(stack)]
Bool(b) == IF b THEN 1 ELSE 0
Executing == conds # <<>> => conds[Len(conds)] = "true"

Sub(n) == SubSeq(stack, 1, Len(stack) - n)
Second == stack[Len(stack) - 1]
\* The stack after an opcode, or {} when the opcode fails.
Outcome(o) ==
    CASE o.op = "Push" -> {Append(stack, o.arg)}
      [] o.op = "Dup" -> {Append(stack, Top)}
      [] o.op = "Drop" -> {Sub(1)}
      [] o.op = "Swap" -> {Append(Append(Sub(2), Top), Second)}
      [] o.op = "CheckSig" -> {Append(Sub(2), Bool(Second = Top))}
      [] o.op = "BoolOr" -> {Append(Sub(2), Bool(1 \in {Top, Second}))}
      [] o.op = "EqualVerify" -> {s \in {Sub(2)} : Top = Second}
      [] o.op = "TxOutputCount" -> {Append(stack, Len(tx.pays))}
      [] o.op = "TxOutputSpk" -> {Append(Sub(1), tx.pays[Top + 1])}
      [] o.op = "CheckLockTimeVerify" -> 
            {s \in {Sub(1)} : tx.lockTime >= Top /\ tx.sequence # Final}
      [] o.op = "CheckSequenceVerify" ->
            {s \in {Sub(1)} : tx.sequence >= Top /\ tx.sequence # Final}

Arity(o) ==
    CASE o.op \in {"Push", "TxOutputCount"} -> 0
      [] o.op \in {"Dup", "Drop", "TxOutputSpk", "CheckLockTimeVerify",
                   "CheckSequenceVerify", "If"} -> 1
      [] o.op \in {"Else", "EndIf"} -> 0
      [] OTHER -> 2

Current == Script(lock)[pc]
Conditional == Current.op \in {"If", "Else", "EndIf"}
Fail ==
    /\ verdict' = "error"
    /\ UNCHANGED <<lock, born, tx, pc, stack, conds>>

\* An opcode in a branch that is not taken.
Skip ==
    /\ ~Conditional /\ ~Executing
    /\ pc' = pc + 1
    /\ UNCHANGED <<lock, born, tx, stack, conds, verdict>>

\* An opcode that executes; a failing one ends the script.
Execute ==
    /\ ~Conditional /\ Executing
    /\ IF Len(stack) < Arity(Current) \/ Outcome(Current) = {} THEN Fail
       ELSE /\ stack' \in Outcome(Current)
            /\ pc' = pc + 1
            /\ UNCHANGED <<lock, born, tx, conds, verdict>>

If ==
    /\ Current.op = "If" /\ Executing /\ stack # <<>>
    /\ conds' = Append(conds, IF Top = 1 THEN "true" ELSE "false")
    /\ stack' = Sub(1)
    /\ pc' = pc + 1
    /\ UNCHANGED <<lock, born, tx, verdict>>

Else ==
    /\ Current.op = "Else" /\ conds # <<>>
    /\ conds' = [conds EXCEPT ![Len(conds)] = IF @ = "true" THEN "false" ELSE "true"]
    /\ pc' = pc + 1
    /\ UNCHANGED <<lock, born, tx, stack, verdict>>

EndIf ==
    /\ Current.op = "EndIf" /\ conds # <<>>
    /\ conds' = SubSeq(conds, 1, Len(conds) - 1)
    /\ pc' = pc + 1
    /\ UNCHANGED <<lock, born, tx, stack, verdict>>

\* The script has ended: exactly one value is left, and it is true.
Finish ==
    /\ pc = Len(Script(lock)) + 1
    /\ verdict' = IF conds = <<>> /\ stack = <<1>> THEN "true" ELSE "error"
    /\ UNCHANGED <<lock, born, tx, pc, stack, conds>>

ScriptNext ==
    /\ verdict = "running"
    /\ \/ Finish
       \/ /\ pc <= Len(Script(lock))
          /\ Skip \/ Execute \/ If \/ Else \/ EndIf
ScriptSpec == ScriptInit /\ [][ScriptNext]_scriptVars

-----------------------------------------------------------------------------
ScriptTypeOK ==
    /\ lock \in Locks
    /\ pc \in 1..(Len(Script(lock)) + 1)
    /\ Len(stack) <= 5
    /\ verdict \in {"running", "true", "error"}

\* The DAA score at which the lock opens: RelativeSequence counts from birth.
Opens == IF lock.family = "RelativeSequence" THEN born + lock.unlock ELSE lock.unlock
Opened == [lock EXCEPT !.unlock = Opens]

\* What a release-submit route asks of the signed transaction before it gives it
\* to the node.  No route can tell whose signature it carries.
Pays(p) == tx.pays = <<PaidTo(lock, p)>>
ProtectKasAdmits == Pays("owner")
OwnerReleaseAdmits == Pays("owner")
ImmediateRecoveryAdmits(p) == Pays(p)
DelayedOwnerAdmits == Pays("owner") /\ tx.lockTime = 0 /\ tx.sequence = 0
DelayedRecoveryAdmits == Pays("other") /\ tx.lockTime = lock.unlock /\ tx.sequence = 0
AbsoluteTimeAdmits == Pays("owner") /\ tx.lockTime = lock.unlock
\* These two look at the node's DAA score as well.
RelativeSequenceAdmits ==
    Pays("owner") /\ tx.lockTime = 0 /\ tx.sequence = Delta /\ tx.now >= Opens
EscrowRefundAdmits ==
    Pays("other") /\ tx.lockTime = lock.unlock /\ tx.sequence = 0 /\ tx.now >= Opens
EscrowReleaseAdmits == Pays("owner") /\ tx.sequence = 0
AllowedDestinationAdmits == Pays("owner") /\ tx.sequence = 0
AbsoluteTimeDestinationAdmits ==
    Pays("owner") /\ tx.lockTime = lock.unlock /\ tx.sequence = 0

Admits(p) ==
    LET is(f) == lock.family = f
    IN  \/ is("ProtectKas") /\ ProtectKasAdmits
        \/ is("OwnerRelease") /\ OwnerReleaseAdmits
        \/ is("ImmediateRecovery") /\ ImmediateRecoveryAdmits(p)
        \/ is("DelayedRecovery") /\ p = "owner" /\ DelayedOwnerAdmits
        \/ is("DelayedRecovery") /\ p = "other" /\ DelayedRecoveryAdmits
        \/ is("AbsoluteTime") /\ AbsoluteTimeAdmits
        \/ is("RelativeSequence") /\ RelativeSequenceAdmits
        \/ is("AllowedDestination") /\ AllowedDestinationAdmits
        \/ is("AbsoluteTimeDestination") /\ AbsoluteTimeDestinationAdmits
        \/ is("Escrow") /\ p = "owner" /\ EscrowReleaseAdmits
        \/ is("Escrow") /\ p = "other" /\ EscrowRefundAdmits

\* What a release-build route builds and the active wallet signs.
Builds(signer, to, lockTime, sequence) ==
    /\ tx.signer = signer /\ tx.pays = <<to>>
    /\ tx.lockTime = lockTime /\ tx.sequence = sequence
ProtectKasBuilds == Builds(lock.owner, lock.owner, 0, 0)
OwnerReleaseBuilds == Builds(lock.owner, lock.owner, 0, 0)
ImmediateRecoveryBuilds(p) == Builds(Party(lock, p), Party(lock, p), 0, 0)
DelayedOwnerBuilds == Builds(lock.owner, lock.owner, 0, 0)
DelayedRecoveryBuilds == Builds(lock.other, lock.other, lock.unlock, 0)
AbsoluteTimeBuilds == Builds(lock.owner, lock.owner, lock.unlock, 0)
RelativeSequenceBuilds == Builds(lock.owner, lock.owner, 0, Delta)
AllowedDestinationBuilds == Builds(lock.owner, lock.other, 0, 0)
AbsoluteTimeDestinationBuilds == Builds(lock.owner, lock.other, lock.unlock, 0)
EscrowReleaseBuilds == Builds(lock.owner, lock.owner, 0, 0)
EscrowRefundBuilds == Builds(lock.other, lock.other, lock.unlock, 0)

RouteTx(p) ==
    LET is(f) == lock.family = f
    IN  \/ is("ProtectKas") /\ ProtectKasBuilds
        \/ is("OwnerRelease") /\ OwnerReleaseBuilds
        \/ is("ImmediateRecovery") /\ ImmediateRecoveryBuilds(p)
        \/ is("DelayedRecovery") /\ p = "owner" /\ DelayedOwnerBuilds
        \/ is("DelayedRecovery") /\ p = "other" /\ DelayedRecoveryBuilds
        \/ is("AbsoluteTime") /\ AbsoluteTimeBuilds
        \/ is("RelativeSequence") /\ RelativeSequenceBuilds
        \/ is("AllowedDestination") /\ AllowedDestinationBuilds
        \/ is("AbsoluteTimeDestination") /\ AbsoluteTimeDestinationBuilds
        \/ is("Escrow") /\ p = "owner" /\ EscrowReleaseBuilds
        \/ is("Escrow") /\ p = "other" /\ EscrowRefundBuilds

-----------------------------------------------------------------------------
\* Soundness: a transaction that a script accepts is one that covenants.html
\* promises for some path of the lock: its party signed it, its time has come,
\* and where the family constrains the outputs it pays that party, or the
\* allowed destination, and nobody else.  And whoever signed it, one that a
\* submit route lets through for a path, and then records as that path's
\* release, comes no sooner than the path opens and pays whom the path pays.
OnlyPromisedSpends ==
    verdict = "true" =>
        /\ \E p \in Paths(lock) :
            /\ tx.signer = Party(lock, p)
            /\ Mature(Opened, p, tx.now)
            /\ AnyOutputs(lock) \/ tx.pays = <<PaidTo(lock, p)>>
        /\ \A p \in Paths(lock) :
            Admits(p) => Mature(Opened, p, tx.now) /\ tx.pays = <<PaidTo(lock, p)>>

\* Completeness: the transaction that a build route makes for a path passes the
\* checks of the submit route and, once its time has come, the script, whatever
\* the other branch says.
PromisedSpendsAccepted ==
    \A p \in Paths(lock) : RouteTx(p) => Admits(p) /\ verdict # "error"
=============================================================================
