---------------------------- MODULE CovenantLock ----------------------------
(***************************************************************************)
(* Programmable-KAS locks: the build, submit, release-build, release-      *)
(* submit and track handlers of server.ts (33378-47602) over the lock      *)
(* records of server.ts 2885-5107, the build caches and the Kaspa node.    *)
(*                                                                         *)
(* A handler is interrupted only at an await.  Every build handler is one  *)
(* action: what it does last, caching a snapshot under a fresh token, does *)
(* not depend on what others did since its checks, and the snapshot is     *)
(* checked again on submit.  A submit handler takes three steps: its       *)
(* checks, up to the first await; the node's acceptance of the signed      *)
(* transaction, its reply and the cache.delete; and the write of the       *)
(* record after the post-submit scans.                                     *)
(*                                                                         *)
(* A coin is a funding UTXO; one lock transaction at most can spend it, so *)
(* the coin also names that lock's outpoint and covenant id.  Amounts,     *)
(* fees, change, networks and the registry are left out.                   *)
(***************************************************************************)
EXTENDS RequestTable, CovenantFamilies, FiniteSets

CONSTANTS
    Users,       \* user accounts
    WalletUser,  \* [Wallets -> Users]: the account that holds a wallet
    Coins,       \* funding UTXOs
    CoinWallet,  \* [Coins -> Wallets]: the wallet that can spend a coin
    MaxToken,    \* bound: snapshots ever cached
    MaxFaults    \* bound: crashes, lost replies and failed scans

ASSUME LockAssumption ==
    /\ WalletUser \in [Wallets -> Users]
    /\ CoinWallet \in [Coins -> Wallets]
    /\ \A u \in Users : \E w \in Wallets : WalletUser[w] = u
    /\ MaxToken \in Nat /\ MaxFaults \in Nat

VARIABLES
    daa,      \* the virtual DAA score
    active,   \* each user's active wallet (wallets.json)
    chain,    \* what became of each coin, on the node
    cache,    \* the build caches, by submit token
    records,  \* each user's lock records, by outpoint and covenant id
    faults    \* crashes, lost replies and failed scans so far

vars == <<daa, active, chain, cache, req, records, faults>>

Tokens == 1..MaxToken
PathNames == {"none", "owner", "other"}
ReleaseTx == [path: PathNames, to: Wallets]
TxOf(lock, path) == [path |-> path, to |-> PaidTo(lock, path)]
NoTx == [path |-> "unspent"]

Outputs ==
    [st: {"coin"}] \cup [st: {"locked"}, lock: Locks]
    \cup [st: {"released"}, lock: Locks, tx: ReleaseTx]

\* A build snapshot: path is "none" in the snapshot of a lock.
Snapshots == [wallet: Wallets, coin: Coins, lock: Locks, path: PathNames]
CacheEntries == [st: {"fresh", "gone"}] \cup [st: {"cached"}, snap: Snapshots]

LockedStatus == {"locked_pending", "locked_live_verified"}
ReleasedStatus == {"release_pending", "released_live_verified"}
\* aged: the record knows the block DAA score of its output.
Records == [status: LockedStatus \cup ReleasedStatus, lock: Locks, aged: BOOLEAN,
            tx: ReleaseTx \cup {NoTx}]
NoRecord == [status |-> "none"]

\* rec is the lock record as the handler read it before its first await.
Handlers ==
    {Idle}
    \cup [pc: {"lock_checked", "lock_sent", "release_checked", "release_sent", "tracking"},
          user: Users, token: Tokens \cup {0}, snap: Snapshots, rec: Records \cup {NoRecord}]

TypeOK ==
    /\ daa \in 0..MaxDaa
    /\ active \in [Users -> Wallets]
    /\ chain \in [Coins -> Outputs]
    /\ cache \in [Tokens -> CacheEntries]
    /\ req \in [Reqs -> Handlers]
    /\ records \in [Users -> [Coins -> Records \cup {NoRecord}]]
    /\ faults \in 0..MaxFaults

Init ==
    /\ daa = 0
    /\ active \in [Users -> Wallets]
    /\ \A u \in Users : WalletUser[active[u]] = u
    /\ chain = [c \in Coins |-> [st |-> "coin"]]
    /\ cache = [t \in Tokens |-> [st |-> "fresh"]]
    /\ req = [r \in Reqs |-> Idle]
    /\ records = [u \in Users |-> [c \in Coins |-> NoRecord]]
    /\ faults = 0

-----------------------------------------------------------------------------
\* The environment: blocks arrive, a user switches wallets, a snapshot's ten
\* minutes pass, and the process dies with its caches and its handlers.
Tick ==
    /\ daa < MaxDaa
    /\ daa' = daa + 1
    /\ UNCHANGED <<active, chain, cache, req, records, faults>>

SelectWallet(u, w) ==
    /\ WalletUser[w] = u /\ active[u] # w
    /\ active' = [active EXCEPT ![u] = w]
    /\ UNCHANGED <<daa, chain, cache, req, records, faults>>

Expire(t) ==
    /\ cache[t].st = "cached"
    /\ cache' = [cache EXCEPT ![t] = [st |-> "gone"]]
    /\ UNCHANGED <<daa, active, chain, req, records, faults>>

Crash ==
    /\ faults < MaxFaults
    /\ faults' = faults + 1
    /\ cache' = [t \in Tokens |->
                   IF cache[t].st = "cached" THEN [st |-> "gone"] ELSE cache[t]]
    /\ req' = [r \in Reqs |-> Idle]
    /\ UNCHANGED <<daa, active, chain, records>>

-----------------------------------------------------------------------------
\* cache.set(submitToken, snapshot) under a fresh random token.
Remember(snap) ==
    \E t \in Tokens :
        /\ cache[t].st = "fresh"
        /\ \A s \in Tokens : s < t => cache[s].st # "fresh"
        /\ cache' = [cache EXCEPT ![t] = [st |-> "cached", snap |-> snap]]

Forget(t) == [s \in Tokens |-> IF s = t THEN [st |-> "gone"] ELSE cache[s]]

\* .../build: the active wallet funds a new lock from one of its coins.
BuildLock(u, c) ==
    /\ CoinWallet[c] = active[u] /\ chain[c].st = "coin"
    /\ \E l \in NewLocks(active[u], daa) :
        Remember([wallet |-> active[u], coin |-> c, lock |-> l, path |-> "none"])
    /\ UNCHANGED <<daa, active, chain, req, records, faults>>

\* .../submit up to its first await: token, network and active wallet.
SubmitLock(r, u, t) ==
    /\ req[r] = Idle
    /\ cache[t].st = "cached" /\ cache[t].snap.path = "none"
    /\ cache[t].snap.wallet = active[u]
    /\ req' = [req EXCEPT ![r] =
                 [pc |-> "lock_checked", user |-> u, token |-> t,
                  snap |-> cache[t].snap, rec |-> NoRecord]]
    /\ UNCHANGED <<daa, active, chain, cache, records, faults>>

\* A relative lock opens Delta after the block that accepts it.
Accepted(l) ==
    IF l.family = "RelativeSequence" THEN [l EXCEPT !.unlock = daa + Delta] ELSE l

LockTaken(r) ==
    LET c == req[r].snap.coin
    IN  /\ req[r].pc = "lock_checked"
        /\ chain[c].st = "coin"
        /\ chain' = [chain EXCEPT ![c] =
                       [st |-> "locked", lock |-> Accepted(req[r].snap.lock)]]

\* The funding is still unspent, submitTransaction returns, cache.delete.
BroadcastLock(r) ==
    /\ LockTaken(r)
    /\ cache' = Forget(req[r].token)
    /\ req' = [req EXCEPT ![r] =
                 [pc |-> "lock_sent", user |-> req[r].user, token |-> req[r].token,
                  snap |-> [wallet |-> req[r].snap.wallet, coin |-> req[r].snap.coin,
                            lock |-> Accepted(req[r].snap.lock), path |-> "none"],
                  rec |-> NoRecord]]
    /\ UNCHANGED <<daa, active, records, faults>>

\* Mutant of RecordLock: a record is written only when the scan saw the output.
RecordVisibleLock(r) ==
    /\ req[r].pc = "lock_sent"
    /\ \E visible \in BOOLEAN :
        records' =
            IF req[r].snap.lock.family = "OwnerRelease" \/ ~visible THEN records
            ELSE [records EXCEPT ![req[r].user][req[r].snap.coin] =
                    [status |-> "locked_live_verified",
                     lock |-> req[r].snap.lock, aged |-> TRUE, tx |-> NoTx]]
    /\ req' = [req EXCEPT ![r] = Idle]
    /\ UNCHANGED <<daa, active, chain, cache, faults>>

\* Mutant of RecordLock: written before the node has taken the lock.
RecordLockEarly(r) ==
    /\ req[r].pc \in {"lock_checked", "lock_sent"}
    /\ \E visible \in BOOLEAN :
        records' =
            IF req[r].snap.lock.family = "OwnerRelease" THEN records
            ELSE [records EXCEPT ![req[r].user][req[r].snap.coin] =
                    [status |-> IF visible THEN "locked_live_verified" ELSE "locked_pending",
                     lock |-> req[r].snap.lock, aged |-> visible, tx |-> NoTx]]
    /\ req' = [req EXCEPT ![r] = Idle]
    /\ UNCHANGED <<daa, active, chain, cache, faults>>

\* After the scans the handler upserts the record (OwnerRelease keeps none).
\* The scans see the lock and its change, or give up; the lock's own output may
\* show (and give its block DAA score) without the change.
RecordLock(r) ==
    /\ req[r].pc = "lock_sent"
    /\ \E visible, aged \in BOOLEAN :
        /\ visible => aged
        /\ records' =
            IF req[r].snap.lock.family = "OwnerRelease" THEN records
            ELSE [records EXCEPT ![req[r].user][req[r].snap.coin] =
                    [status |-> IF visible THEN "locked_live_verified" ELSE "locked_pending",
                     lock |-> req[r].snap.lock, aged |-> aged, tx |-> NoTx]]
    /\ req' = [req EXCEPT ![r] = Idle]
    /\ UNCHANGED <<daa, active, chain, cache, faults>>

-----------------------------------------------------------------------------
\* What each release-build route asks of the store of user u, whose active
\* wallet is w, before it builds a release of the lock in c along path p.
Open(u, c) == records[u][c].status \in LockedStatus
Rec(u, c) == records[u][c].lock

\* These three derive the source from the active wallet and read no record.
ProtectKasReleasable(w, c, p) == chain[c].lock.owner = w /\ p = "owner"
OwnerReleaseReleasable(w, c, p) == chain[c].lock.owner = w /\ p = "owner"
AbsoluteTimeReleasable(w, c, p) == chain[c].lock.owner = w /\ p = "owner"

\* The viewer role: a wallet that is both parties counts as the owner.
Role(l, w) == IF l.owner = w THEN "owner" ELSE IF l.other = w THEN "other" ELSE "none"
\* Mutant: wallet_id decides, as in the families below.
ImmediateRecoveryCreatorReleasable(u, w, c, p) ==
    Open(u, c) /\ Rec(u, c).creator = w /\ p = Role(Rec(u, c), w)
ImmediateRecoveryReleasable(u, w, c, p) == Open(u, c) /\ p = Role(Rec(u, c), w)
DelayedOwnerReleasable(u, w, c, p) ==
    Open(u, c) /\ p = "owner" /\ Role(Rec(u, c), w) = "owner"
DelayedRecoveryReleasable(u, w, c, p) ==
    /\ Open(u, c) /\ p = "other" /\ Role(Rec(u, c), w) = "other"
    /\ daa >= Rec(u, c).unlock
EscrowReleaseReleasable(u, w, c, p) == Open(u, c) /\ p = "owner" /\ Rec(u, c).owner = w
EscrowRefundReleasable(u, w, c, p) ==
    Open(u, c) /\ p = "other" /\ Rec(u, c).other = w /\ daa >= Rec(u, c).unlock

\* wallet_id and owner_address of the record both have to be the active wallet.
OwnRecord(u, w, c) == Open(u, c) /\ Rec(u, c).creator = w /\ Rec(u, c).owner = w
RelativeSequenceReleasable(u, w, c, p) ==
    /\ OwnRecord(u, w, c) /\ p = "owner"
    /\ records[u][c].aged /\ daa >= Rec(u, c).unlock
AllowedDestinationReleasable(u, w, c, p) == OwnRecord(u, w, c) /\ p = "owner"
AbsoluteTimeDestinationReleasable(u, w, c, p) ==
    OwnRecord(u, w, c) /\ p = "owner" /\ daa >= Rec(u, c).unlock

Releasable(u, w, c, p) ==
    LET is(f) == chain[c].lock.family = f
    IN  \/ is("ProtectKas") /\ ProtectKasReleasable(w, c, p)
        \/ is("OwnerRelease") /\ OwnerReleaseReleasable(w, c, p)
        \/ is("AbsoluteTime") /\ AbsoluteTimeReleasable(w, c, p)
        \/ is("ImmediateRecovery") /\ ImmediateRecoveryReleasable(u, w, c, p)
        \/ is("DelayedRecovery") /\ DelayedOwnerReleasable(u, w, c, p)
        \/ is("DelayedRecovery") /\ DelayedRecoveryReleasable(u, w, c, p)
        \/ is("Escrow") /\ EscrowReleaseReleasable(u, w, c, p)
        \/ is("Escrow") /\ EscrowRefundReleasable(u, w, c, p)
        \/ is("RelativeSequence") /\ RelativeSequenceReleasable(u, w, c, p)
        \/ is("AllowedDestination") /\ AllowedDestinationReleasable(u, w, c, p)
        \/ is("AbsoluteTimeDestination") /\ AbsoluteTimeDestinationReleasable(u, w, c, p)

\* .../release/build, .../recovery/build and .../refund/build: the scan also
\* has to find the lock on the node.  (lowlevel-genesis/release/build keeps
\* nothing: see SubmitProtectKasRelease.)
BuildRelease(u, c, p) ==
    /\ chain[c].st = "locked" /\ chain[c].lock.family # "ProtectKas"
    /\ Releasable(u, active[u], c, p)
    /\ Remember([wallet |-> active[u], coin |-> c, lock |-> chain[c].lock, path |-> p])
    /\ UNCHANGED <<daa, active, chain, req, records, faults>>

\* Only these two families look at the record again on submit.
Rechecks(f) == f \in {"ImmediateRecovery", "DelayedRecovery"}

\* .../release/submit and its siblings, up to the first await.
SubmitRelease(r, u, t) ==
    LET snap == cache[t].snap
    IN  /\ req[r] = Idle
        /\ cache[t].st = "cached" /\ snap.path # "none"
        /\ snap.wallet = active[u]
        /\ Rechecks(snap.lock.family) => Open(u, snap.coin)
        /\ req' = [req EXCEPT ![r] =
                     [pc |-> "release_checked", user |-> u, token |-> t,
                      snap |-> snap, rec |-> records[u][snap.coin]]]
        /\ UNCHANGED <<daa, active, chain, cache, records, faults>>

\* lowlevel-genesis/release/submit keeps no snapshot: the request carries it,
\* and the signed output must pay the active wallet.
SubmitProtectKasRelease(r, u, c) ==
    /\ req[r] = Idle
    /\ chain[c].st = "locked" /\ chain[c].lock.family = "ProtectKas"
    /\ Releasable(u, active[u], c, "owner")
    /\ req' = [req EXCEPT ![r] =
                 [pc |-> "release_checked", user |-> u, token |-> 0,
                  snap |-> [wallet |-> active[u], coin |-> c,
                            lock |-> chain[c].lock, path |-> "owner"],
                  rec |-> NoRecord]]
    /\ UNCHANGED <<daa, active, chain, cache, records, faults>>

\* The node takes the release: its source is unspent and its path is open.
ReleaseTaken(r) ==
    LET c == req[r].snap.coin
        p == req[r].snap.path
    IN  /\ req[r].pc = "release_checked"
        /\ chain[c].st = "locked"
        /\ Mature(chain[c].lock, p, daa)
        /\ chain' = [chain EXCEPT ![c] =
                       [st |-> "released", lock |-> chain[c].lock,
                        tx |-> TxOf(chain[c].lock, p)]]

BroadcastRelease(r) ==
    /\ ReleaseTaken(r)
    /\ cache' = Forget(req[r].token)
    /\ req' = [req EXCEPT ![r].pc = "release_sent"]
    /\ UNCHANGED <<daa, active, records, faults>>

\* mark...Released patches the stored record, if there is one; the delayed-
\* recovery routes upsert the copy that they read before their awaits.
Patched(rec, tx, visible) ==
    [status |-> IF visible THEN "released_live_verified" ELSE "release_pending",
     lock |-> rec.lock, aged |-> rec.aged, tx |-> tx]

\* Mutant of RecordRelease: written before the node has taken the release.
RecordReleaseEarly(r) ==
    LET u == req[r].user
        c == req[r].snap.coin
        tx == TxOf(req[r].snap.lock, req[r].snap.path)
    IN  /\ req[r].pc \in {"release_checked", "release_sent"}
        /\ \E visible \in BOOLEAN :
            records' = IF records[u][c] = NoRecord THEN records
                       ELSE [records EXCEPT ![u][c] = Patched(records[u][c], tx, visible)]
        /\ req' = [req EXCEPT ![r] = Idle]
        /\ UNCHANGED <<daa, active, chain, cache, faults>>

RecordRelease(r) ==
    LET u == req[r].user
        c == req[r].snap.coin
        tx == TxOf(req[r].snap.lock, req[r].snap.path)
        base == IF req[r].snap.lock.family = "DelayedRecovery" THEN req[r].rec
                ELSE records[u][c]
    IN  /\ req[r].pc = "release_sent"
        /\ \E visible \in BOOLEAN :
            records' = IF base = NoRecord THEN records
                       ELSE [records EXCEPT ![u][c] = Patched(base, tx, visible)]
        /\ req' = [req EXCEPT ![r] = Idle]
        /\ UNCHANGED <<daa, active, chain, cache, faults>>

-----------------------------------------------------------------------------
\* Any submit: a check of the node or the node itself turns the request down.
Refused(r) ==
    /\ req[r].pc \in {"lock_checked", "release_checked"}
    /\ req' = [req EXCEPT ![r] = Idle]
    /\ UNCHANGED <<daa, active, chain, cache, records, faults>>

\* Any submit: the node took the transaction but its reply was lost, so the
\* handler ends in its catch with the snapshot still cached.
ReplyLost(r) ==
    /\ faults < MaxFaults
    /\ faults' = faults + 1
    /\ LockTaken(r) \/ ReleaseTaken(r)
    /\ req' = [req EXCEPT ![r] = Idle]
    /\ UNCHANGED <<daa, active, cache, records>>

\* Any submit: a post-submit scan throws, so the handler ends in its catch.
ScanFails(r) ==
    /\ req[r].pc \in {"lock_sent", "release_sent"}
    /\ faults < MaxFaults
    /\ faults' = faults + 1
    /\ req' = [req EXCEPT ![r] = Idle]
    /\ UNCHANGED <<daa, active, chain, cache, records>>

\* p2sh-absolute-time-lock/track: getUtxosByAddresses shows the lock live ...
TrackSeen(r, u, c) ==
    /\ req[r] = Idle
    /\ chain[c].st = "locked" /\ chain[c].lock.family = "AbsoluteTime"
    /\ req' = [req EXCEPT ![r] =
                 [pc |-> "tracking", user |-> u, token |-> 0,
                  snap |-> [wallet |-> active[u], coin |-> c,
                            lock |-> [chain[c].lock EXCEPT !.creator = active[u]],
                            path |-> "none"],
                  rec |-> NoRecord]]
    /\ UNCHANGED <<daa, active, chain, cache, records, faults>>

\* ... and when that reply arrives the handler upserts a live record.
TrackWritten(r) ==
    /\ req[r].pc = "tracking"
    /\ records' = [records EXCEPT ![req[r].user][req[r].snap.coin] =
                     [status |-> "locked_live_verified", lock |-> req[r].snap.lock,
                      aged |-> TRUE, tx |-> NoTx]]
    /\ req' = [req EXCEPT ![r] = Idle]
    /\ UNCHANGED <<daa, active, chain, cache, faults>>

-----------------------------------------------------------------------------
Continue(r) == RecordLock(r) \/ RecordRelease(r) \/ TrackWritten(r)

Next ==
    \/ Tick
    \/ Crash
    \/ \E u \in Users, w \in Wallets : SelectWallet(u, w)
    \/ \E t \in Tokens : Expire(t)
    \/ \E u \in Users, c \in Coins : BuildLock(u, c)
    \/ \E u \in Users, c \in Coins, p \in {"owner", "other"} : BuildRelease(u, c, p)
    \/ \E r \in Reqs :
        \/ \E u \in Users, t \in Tokens : SubmitLock(r, u, t) \/ SubmitRelease(r, u, t)
        \/ \E u \in Users, c \in Coins :
            SubmitProtectKasRelease(r, u, c) \/ TrackSeen(r, u, c)
        \/ BroadcastLock(r) \/ BroadcastRelease(r)
        \/ Continue(r)
        \/ Refused(r) \/ ReplyLost(r) \/ ScanFails(r)

Spec == Init /\ [][Next]_vars

\* A handler whose scans are over is resumed by the event loop.
FairSpec == Spec /\ \A r \in Reqs : WF_vars(Continue(r))

-----------------------------------------------------------------------------
SameTerms(l, k) ==
    l.family = k.family /\ l.owner = k.owner /\ l.other = k.other /\ l.unlock = k.unlock

\* A record tells the truth about its lock: whatever scans failed, handlers
\* interleaved or transactions were refused, a store never lists a lock that
\* the chain does not carry with exactly these parties and this unlock score
\* (the upserts after the awaits of submit, release submit and track).
RecordsAreOnChain ==
    \A u \in Users, c \in Coins :
        records[u][c] # NoRecord =>
            /\ chain[c].st \in {"locked", "released"}
            /\ SameTerms(records[u][c].lock, chain[c].lock)

\* A record that says released names the transaction that spent the lock; a
\* refused, lost or competing release never closes a lock that is still live.
ReleasedRecordIsSpent ==
    \A u \in Users, c \in Coins :
        records[u][c].status \in ReleasedStatus =>
            chain[c].st = "released" /\ records[u][c].tx = chain[c].tx

\* What covenants.html promises the parties of a lock: when its time has come
\* and some account has the record of the lock, the release-build routes give
\* the party's wallet, as the active wallet of its account, a path.
Recorded(c) == \E u \in Users : records[u][c] # NoRecord
PartyCanRelease(c, p) ==
    LET w == Party(chain[c].lock, p)
    IN  (chain[c].st = "locked" /\ Recorded(c) /\ Mature(chain[c].lock, p, daa)) =>
            \E q \in Paths(chain[c].lock) : Releasable(WalletUser[w], w, c, q)

\* What holds of that promise: a party whose own account has the record takes
\* its path, unless the lock is a relative-sequence lock that it did not fund
\* or whose age the record lacks.
HoldersCanRelease ==
    \A c \in Coins : chain[c].st = "locked" =>
        \A p \in Paths(chain[c].lock) :
            LET w == Party(chain[c].lock, p)
                rec == records[WalletUser[w]][c]
            IN  (rec # NoRecord
                 /\ (chain[c].lock.family = "RelativeSequence" =>
                        chain[c].lock.creator = w /\ rec.aged)) => PartyCanRelease(c, p)

\* Families whose release needs no record; and whose lock has none.
NeedNoRecord == {"ProtectKas", "OwnerRelease", "AbsoluteTime"}
Unrecorded(c) ==
    \/ /\ chain[c].st = "locked" /\ chain[c].lock.family # "OwnerRelease"
       /\ ~Recorded(c)
    \/ /\ chain[c].st = "released" /\ chain[c].lock.family \notin NeedNoRecord
       /\ \A u \in Users : records[u][c].status \notin ReleasedStatus

\* Every accepted lock gets its record and every accepted release its mark,
\* unless a fault comes in between, however handlers interleave
\* ("tracking_record_written_after_accepted_submit").
AcceptedIsRecorded == \A c \in Coins : Unrecorded(c) ~> (~Unrecorded(c) \/ faults > 0)

=============================================================================
