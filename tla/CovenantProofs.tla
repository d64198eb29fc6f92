--------------------------- MODULE CovenantProofs ---------------------------
(***************************************************************************)
(* Two parts: the lock records of CovenantLock, and, from SCRIPTS below,   *)
(* the redeem scripts of CovenantScript.                                   *)
(*                                                                         *)
(* The lock records of CovenantLock are true of the chain, for any number  *)
(* of users, wallets, coins, handlers, snapshots and faults.               *)
(*                                                                         *)
(* RecordsAreOnChain and ReleasedRecordIsSpent are not inductive: a record *)
(* is written from what a handler carries across its awaits, and that came *)
(* from a cached snapshot or an earlier record.  IInv says that all three  *)
(* agree with the chain; they keep doing so because the chain only grows.  *)
(***************************************************************************)
EXTENDS CovenantLock, CovenantScript, SequenceTheorems, TLAPS

OnChain(ch, c, l) == ch[c].st \in {"locked", "released"} /\ ch[c].lock = l
\* Only track, which is for absolute-time locks, names another wallet as the funder.
Listed(ch, c, l) ==
    /\ ch[c].st \in {"locked", "released"} /\ SameTerms(l, ch[c].lock)
    /\ l.family # "AbsoluteTime" => l = ch[c].lock

\* A cached release was built from the lock on the chain.
EntryAgrees(e, ch) ==
    (e.st = "cached" /\ e.snap.path # "none") => OnChain(ch, e.snap.coin, e.snap.lock)

\* What a handler carries across its awaits.
HandlerAgrees(q, ch) ==
    /\ q.pc \in {"lock_sent", "release_checked", "release_sent"} =>
            OnChain(ch, q.snap.coin, q.snap.lock)
    /\ q.pc = "release_sent" =>
            /\ ch[q.snap.coin].st = "released"
            /\ ch[q.snap.coin].tx = TxOf(q.snap.lock, q.snap.path)
    /\ q.pc = "tracking" => Listed(ch, q.snap.coin, q.snap.lock)
    /\ q.pc = "release_sent" \/ q.pc = "release_checked" =>
            (q.rec # NoRecord => Listed(ch, q.snap.coin, q.rec.lock))

RecordAgrees(rec, c, ch) ==
    rec # NoRecord =>
        /\ Listed(ch, c, rec.lock)
        /\ rec.status \in ReleasedStatus => ch[c].st = "released" /\ rec.tx = ch[c].tx

IInv ==
    /\ TypeOK
    /\ \A t \in Tokens : EntryAgrees(cache[t], chain)
    /\ \A r \in Reqs : HandlerAgrees(req[r], chain)
    /\ \A u \in Users, c \in Coins : RecordAgrees(records[u][c], c, chain)

\* The chain between two states: locks stay, and releases stay as they are.
Grows ==
    \A c \in Coins :
        /\ chain[c].st \in {"locked", "released"} =>
                chain'[c].st \in {"locked", "released"} /\ chain'[c].lock = chain[c].lock
        /\ chain[c].st = "released" => chain'[c] = chain[c]

-----------------------------------------------------------------------------
\* Types.

\* Every lock that a build route makes is a lock of the families under study.
LEMMA NewLocksTyped ==
    ASSUME NEW w \in Wallets, NEW now \in Nat, NEW l \in NewLocks(w, now)
    PROVE  l \in Locks
BY FamiliesAssumption
   DEF NewLocks, Locks, Lock, ProtectKasLocks, OwnerReleaseLocks,
       ImmediateRecoveryLocks, DelayedRecoveryLocks, AbsoluteTimeLocks,
       RelativeSequenceLocks, AllowedDestinationLocks,
       AbsoluteTimeDestinationLocks, EscrowLocks

\* The transaction that releases a lock is one the type allows.
LEMMA TxTyped ==
    ASSUME NEW l \in Locks, NEW p \in PathNames
    PROVE  TxOf(l, p) \in ReleaseTx
BY DEF TxOf, ReleaseTx, PaidTo, Party, Locks

\* What the type invariant says of a coin that is locked or released.
LEMMA OutputTyped ==
    ASSUME NEW x \in Outputs
    PROVE  /\ x.st \in {"coin", "locked", "released"}
           /\ x.st \in {"locked", "released"} => x.lock \in Locks
           /\ x.st = "released" => x.tx \in ReleaseTx
BY DEF Outputs

\* What it says of a handler in flight ...
LEMMA HandlerTyped ==
    ASSUME NEW q \in Handlers, q.pc # "idle"
    PROVE  /\ q.user \in Users /\ q.token \in Tokens \cup {0}
           /\ q.snap \in Snapshots /\ q.rec \in Records \cup {NoRecord}
           /\ q.snap.wallet \in Wallets /\ q.snap.coin \in Coins
           /\ q.snap.lock \in Locks /\ q.snap.path \in PathNames
BY DEF Handlers, Idle, Snapshots

\* ... and of a cached snapshot.
LEMMA EntryTyped ==
    ASSUME NEW e \in CacheEntries, e.st = "cached"
    PROVE  e.snap \in Snapshots /\ e.snap.coin \in Coins /\ e.snap.path \in PathNames
BY DEF CacheEntries, Snapshots

\* A record keeps its type when it is marked released.
LEMMA PatchedTyped ==
    ASSUME NEW rec \in Records, NEW sent \in ReleaseTx, NEW visible \in BOOLEAN
    PROVE  Patched(rec, sent, visible) \in Records
BY DEF Patched, Records, ReleasedStatus

LEMMA AcceptedTyped ==
    ASSUME NEW l \in Locks, daa \in Nat
    PROVE  Accepted(l) \in Locks
BY FamiliesAssumption DEF Accepted, Locks

-----------------------------------------------------------------------------
\* The chain: the only two ways it changes, and that both only add to it.
LEMMA LockTakenGrows ==
    ASSUME TypeOK, NEW r \in Reqs, LockTaken(r)
    PROVE  chain' \in [Coins -> Outputs] /\ Grows
<1> DEFINE c == req[r].snap.coin
           new == [st |-> "locked", lock |-> Accepted(req[r].snap.lock)]
<1>1. req[r] \in Handlers /\ req[r].pc # "idle"
  BY DEF TypeOK, LockTaken
<1>2. c \in Coins /\ req[r].snap.lock \in Locks
  BY <1>1, HandlerTyped
<1>3. Accepted(req[r].snap.lock) \in Locks
  BY <1>2, AcceptedTyped DEF TypeOK
<1>4. new \in Outputs
  BY <1>3 DEF Outputs
<1>5. chain' = [chain EXCEPT ![c] = new] /\ chain[c].st = "coin"
  BY DEF LockTaken
<1>6. chain \in [Coins -> Outputs]
  BY DEF TypeOK
<1> QED
  BY <1>2, <1>4, <1>5, <1>6 DEF Grows

LEMMA ReleaseTakenGrows ==
    ASSUME TypeOK, NEW r \in Reqs, ReleaseTaken(r)
    PROVE  chain' \in [Coins -> Outputs] /\ Grows
<1> DEFINE c == req[r].snap.coin
           p == req[r].snap.path
           new == [st |-> "released", lock |-> chain[c].lock,
                   tx |-> TxOf(chain[c].lock, p)]
<1>1. req[r] \in Handlers /\ req[r].pc # "idle"
  BY DEF TypeOK, ReleaseTaken
<1>2. c \in Coins /\ p \in PathNames
  BY <1>1, HandlerTyped
<1>3. chain' = [chain EXCEPT ![c] = new] /\ chain[c].st = "locked"
  BY DEF ReleaseTaken
<1>4. chain \in [Coins -> Outputs]
  BY DEF TypeOK
<1>5. chain[c].lock \in Locks
  BY <1>2, <1>3, <1>4, OutputTyped
<1>6. new \in Outputs
  BY <1>2, <1>5, TxTyped DEF Outputs
<1>7. new.st = "released" /\ new.lock = chain[c].lock
  OBVIOUS
<1> HIDE DEF new
<1> QED
  BY <1>2, <1>3, <1>4, <1>6, <1>7 DEF Grows

\* Every step leaves the chain as it is or adds to it, and keeps the types of
\* the variables that no handler writes.
FrameOK ==
    /\ chain' \in [Coins -> Outputs] /\ Grows
    /\ daa' \in 0..MaxDaa /\ faults' \in 0..MaxFaults
    /\ active' \in [Users -> Wallets]

LEMMA Frame == ASSUME TypeOK, [Next]_vars PROVE FrameOK
<1>1. /\ daa \in 0..MaxDaa /\ faults \in 0..MaxFaults /\ chain \in [Coins -> Outputs]
      /\ active \in [Users -> Wallets]
  BY DEF TypeOK
<1>2. ASSUME chain' = chain PROVE chain' \in [Coins -> Outputs] /\ Grows
  BY <1>1, <1>2 DEF Grows
<1>3. ASSUME faults < MaxFaults, faults' = faults + 1 PROVE faults' \in 0..MaxFaults
  BY <1>1, <1>3, LockAssumption
<1>4. ASSUME daa' = daa, active' = active, chain' = chain, faults' = faults PROVE FrameOK
  BY <1>1, <1>2, <1>4 DEF FrameOK
<1>5. CASE Tick
  <2>1. daa' \in 0..MaxDaa
    BY <1>1, <1>5, LockAssumption, FamiliesAssumption DEF Tick
  <2> QED
    BY <1>1, <1>2, <1>5, <2>1 DEF FrameOK, Tick
<1>6. CASE Crash
  BY <1>1, <1>2, <1>3, <1>6 DEF FrameOK, Crash
<1>7. ASSUME NEW u \in Users, NEW w \in Wallets, SelectWallet(u, w) PROVE FrameOK
  BY <1>1, <1>2, <1>7 DEF FrameOK, SelectWallet
<1>8. ASSUME NEW t \in Tokens, Expire(t) PROVE FrameOK
  BY <1>4, <1>8 DEF Expire
<1>9. ASSUME NEW u \in Users, NEW c \in Coins, BuildLock(u, c) PROVE FrameOK
  BY <1>4, <1>9 DEF BuildLock
<1>10. ASSUME NEW u \in Users, NEW c \in Coins, NEW p \in {"owner", "other"},
              BuildRelease(u, c, p)
       PROVE  FrameOK
  BY <1>4, <1>10 DEF BuildRelease
<1>11. ASSUME NEW r \in Reqs, NEW u \in Users, NEW t \in Tokens,
              SubmitLock(r, u, t) \/ SubmitRelease(r, u, t)
       PROVE  FrameOK
  BY <1>4, <1>11 DEF SubmitLock, SubmitRelease
<1>12. ASSUME NEW r \in Reqs, NEW u \in Users, NEW c \in Coins,
              SubmitProtectKasRelease(r, u, c) \/ TrackSeen(r, u, c)
       PROVE  FrameOK
  BY <1>4, <1>12 DEF SubmitProtectKasRelease, TrackSeen
<1>13. ASSUME NEW r \in Reqs, BroadcastLock(r) PROVE FrameOK
  BY <1>1, <1>13, LockTakenGrows DEF FrameOK, BroadcastLock
<1>14. ASSUME NEW r \in Reqs, BroadcastRelease(r) PROVE FrameOK
  BY <1>1, <1>14, ReleaseTakenGrows DEF FrameOK, BroadcastRelease
<1>15. ASSUME NEW r \in Reqs, Continue(r) \/ Refused(r) PROVE FrameOK
  BY <1>4, <1>15 DEF Continue, RecordLock, RecordRelease, TrackWritten, Refused
<1>16. ASSUME NEW r \in Reqs, ReplyLost(r) PROVE FrameOK
  BY <1>1, <1>3, <1>16, LockTakenGrows, ReleaseTakenGrows DEF FrameOK, ReplyLost
<1>17. ASSUME NEW r \in Reqs, ScanFails(r) PROVE FrameOK
  BY <1>1, <1>2, <1>3, <1>17 DEF FrameOK, ScanFails
<1>18. CASE UNCHANGED vars
  BY <1>4, <1>18 DEF vars
<1> QED
  BY <1>5, <1>6, <1>7, <1>8, <1>9, <1>10, <1>11, <1>12, <1>13, <1>14, <1>15, <1>16,
     <1>17, <1>18 DEF Next

-----------------------------------------------------------------------------
\* What agrees with the chain still agrees with a chain that has grown.
LEMMA EntryCarriesOver ==
    ASSUME Grows, NEW e \in CacheEntries, EntryAgrees(e, chain)
    PROVE  EntryAgrees(e, chain')
<1> SUFFICES ASSUME e.st = "cached", e.snap.path # "none"
             PROVE  OnChain(chain', e.snap.coin, e.snap.lock)
  BY DEF EntryAgrees
<1>1. e.snap.coin \in Coins
  BY EntryTyped
<1> QED
  BY <1>1 DEF Grows, EntryAgrees, OnChain

LEMMA HandlerCarriesOver ==
    ASSUME Grows, NEW q \in Handlers, HandlerAgrees(q, chain)
    PROVE  HandlerAgrees(q, chain')
<1>1. CASE q.pc = "idle"
  BY <1>1 DEF HandlerAgrees
<1>2. CASE q.pc # "idle"
  <2>1. q.snap.coin \in Coins
    BY <1>2, HandlerTyped
  <2> DEFINE d == q.snap.coin
  <2>2. /\ chain[d].st \in {"locked", "released"} =>
               chain'[d].st \in {"locked", "released"} /\ chain'[d].lock = chain[d].lock
        /\ chain[d].st = "released" => chain'[d] = chain[d]
    BY <2>1 DEF Grows
  <2>3. q.pc \in {"lock_sent", "release_checked", "release_sent"} =>
            OnChain(chain', d, q.snap.lock)
    BY <2>2 DEF HandlerAgrees, OnChain
  <2>4. q.pc = "release_sent" =>
            chain'[d].st = "released" /\ chain'[d].tx = TxOf(q.snap.lock, q.snap.path)
    BY <2>2 DEF HandlerAgrees
  <2>5. q.pc = "tracking" => Listed(chain', d, q.snap.lock)
    BY <2>2 DEF HandlerAgrees, Listed
  <2>6. q.pc = "release_sent" \/ q.pc = "release_checked" =>
            (q.rec # NoRecord => Listed(chain', d, q.rec.lock))
    BY <2>2 DEF HandlerAgrees, Listed
  <2> QED
    BY <2>3, <2>4, <2>5, <2>6 DEF HandlerAgrees
<1> QED
  BY <1>1, <1>2

LEMMA RecordCarriesOver ==
    ASSUME Grows, NEW c \in Coins, NEW rec, RecordAgrees(rec, c, chain)
    PROVE  RecordAgrees(rec, c, chain')
BY DEF Grows, RecordAgrees, Listed

-----------------------------------------------------------------------------
\* The frames of a step: each part of IInv after a step that writes one entry.
HandlersOK == req' \in [Reqs -> Handlers] /\ \A r \in Reqs : HandlerAgrees(req'[r], chain')
CacheOK == cache' \in [Tokens -> CacheEntries] /\ \A t \in Tokens : EntryAgrees(cache'[t], chain')
RecordsOK ==
    /\ records' \in [Users -> [Coins -> Records \cup {NoRecord}]]
    /\ \A u \in Users, c \in Coins : RecordAgrees(records'[u][c], c, chain')

LEMMA HandlersSame == ASSUME IInv, Grows, req' = req PROVE HandlersOK
BY HandlerCarriesOver DEF IInv, TypeOK, HandlersOK

LEMMA HandlersWritten ==
    ASSUME IInv, Grows, NEW r \in Reqs, NEW q \in Handlers, HandlerAgrees(q, chain'),
           req' = [req EXCEPT ![r] = q]
    PROVE  HandlersOK
<1>1. req \in [Reqs -> Handlers] /\ req' \in [Reqs -> Handlers]
  BY DEF IInv, TypeOK
<1>2. ASSUME NEW s \in Reqs PROVE HandlerAgrees(req'[s], chain')
  <2>1. CASE s = r
    BY <1>1, <2>1
  <2>2. CASE s # r
    BY <1>1, <2>2, HandlerCarriesOver DEF IInv
  <2> QED
    BY <2>1, <2>2
<1> QED
  BY <1>1, <1>2 DEF HandlersOK

LEMMA HandlerEnded ==
    ASSUME IInv, Grows, NEW r \in Reqs, req' = [req EXCEPT ![r] = Idle]
    PROVE  HandlersOK
<1>1. Idle \in Handlers /\ HandlerAgrees(Idle, chain')
  BY DEF Handlers, HandlerAgrees, Idle
<1> QED
  BY <1>1, HandlersWritten

LEMMA CacheSame == ASSUME IInv, Grows, cache' = cache PROVE CacheOK
BY EntryCarriesOver DEF IInv, TypeOK, CacheOK

LEMMA CacheForgets ==
    ASSUME IInv, Grows, NEW T, cache' = [s \in Tokens |-> IF s \in T THEN [st |-> "gone"] ELSE cache[s]]
    PROVE  CacheOK
<1>1. [st |-> "gone"] \in CacheEntries /\ EntryAgrees([st |-> "gone"], chain')
  BY DEF CacheEntries, EntryAgrees
<1>2. cache \in [Tokens -> CacheEntries]
  BY DEF IInv, TypeOK
<1>3. ASSUME NEW s \in Tokens PROVE cache'[s] \in CacheEntries /\ EntryAgrees(cache'[s], chain')
  BY <1>1, <1>2, EntryCarriesOver DEF IInv
<1> QED
  BY <1>3 DEF CacheOK

LEMMA CacheRemembers ==
    ASSUME IInv, Grows, NEW snap \in Snapshots, Remember(snap),
           snap.path # "none" => OnChain(chain', snap.coin, snap.lock)
    PROVE  CacheOK
<1> DEFINE e == [st |-> "cached", snap |-> snap]
<1>1. e \in CacheEntries /\ EntryAgrees(e, chain')
  BY DEF CacheEntries, EntryAgrees
<1>2. cache \in [Tokens -> CacheEntries]
  BY DEF IInv, TypeOK
<1>3. PICK t \in Tokens : cache' = [cache EXCEPT ![t] = e]
  BY DEF Remember
<1> HIDE DEF e
<1>4. ASSUME NEW s \in Tokens PROVE EntryAgrees(cache'[s], chain')
  <2>1. CASE s = t
    BY <1>1, <1>2, <1>3, <2>1
  <2>2. CASE s # t
    BY <1>2, <1>3, <2>2, EntryCarriesOver DEF IInv
  <2> QED
    BY <2>1, <2>2
<1> QED
  BY <1>1, <1>2, <1>3, <1>4 DEF CacheOK

LEMMA RecordsSame == ASSUME IInv, Grows, records' = records PROVE RecordsOK
BY RecordCarriesOver DEF IInv, TypeOK, RecordsOK

LEMMA RecordWritten ==
    ASSUME IInv, Grows, NEW v \in Users, NEW d \in Coins, NEW rec \in Records,
           RecordAgrees(rec, d, chain'), records' = [records EXCEPT ![v][d] = rec]
    PROVE  RecordsOK
<1>1. records \in [Users -> [Coins -> Records \cup {NoRecord}]]
  BY DEF IInv, TypeOK
<1>2. records' \in [Users -> [Coins -> Records \cup {NoRecord}]]
  BY <1>1
<1>3. ASSUME NEW u \in Users, NEW c \in Coins PROVE RecordAgrees(records'[u][c], c, chain')
  <2>1. CASE u = v /\ c = d
    BY <1>1, <2>1
  <2>2. CASE ~(u = v /\ c = d)
    <3>1. records'[u][c] = records[u][c]
      BY <1>1, <2>2
    <3>2. RecordAgrees(records[u][c], c, chain)
      BY DEF IInv
    <3> QED
      BY <3>1, <3>2, RecordCarriesOver
  <2> QED
    BY <2>1, <2>2
<1> QED
  BY <1>2, <1>3 DEF RecordsOK

-----------------------------------------------------------------------------
\* The invariant holds at first and after every step.
LEMMA Initially == Init => IInv
<1> SUFFICES ASSUME Init PROVE IInv
  OBVIOUS
<1>1. TypeOK
  <2>1. chain \in [Coins -> Outputs] /\ cache \in [Tokens -> CacheEntries]
    BY DEF Init, Outputs, CacheEntries
  <2>2. req \in [Reqs -> Handlers] /\ records \in [Users -> [Coins -> Records \cup {NoRecord}]]
    BY DEF Init, Handlers
  <2>3. daa \in 0..MaxDaa /\ faults \in 0..MaxFaults /\ active \in [Users -> Wallets]
    BY LockAssumption, FamiliesAssumption DEF Init
  <2> QED
    BY <2>1, <2>2, <2>3 DEF TypeOK
<1>2. \A t \in Tokens : EntryAgrees(cache[t], chain)
  BY DEF Init, EntryAgrees
<1>3. \A r \in Reqs : HandlerAgrees(req[r], chain)
  BY DEF Init, HandlerAgrees, Idle
<1>4. \A u \in Users, c \in Coins : RecordAgrees(records[u][c], c, chain)
  BY DEF Init, RecordAgrees
<1> QED
  BY <1>1, <1>2, <1>3, <1>4 DEF IInv

LEMMA TogetherAgain ==
    ASSUME FrameOK, HandlersOK, CacheOK, RecordsOK
    PROVE  IInv'
BY DEF FrameOK, HandlersOK, CacheOK, RecordsOK, IInv, TypeOK

\* Steps that write one handler, from what the cache, the chain and the
\* records said when the handler started.
LEMMA SubmitLockStep ==
    ASSUME IInv, Grows, NEW r \in Reqs, NEW u \in Users, NEW t \in Tokens,
           SubmitLock(r, u, t)
    PROVE  HandlersOK
<1> DEFINE q == [pc |-> "lock_checked", user |-> u, token |-> t,
                 snap |-> cache[t].snap, rec |-> NoRecord]
<1>1. cache[t] \in CacheEntries /\ cache[t].st = "cached"
  BY DEF IInv, TypeOK, SubmitLock
<1>2. cache[t].snap \in Snapshots
  BY <1>1, EntryTyped
<1>3. q \in Handlers
  BY <1>2 DEF Handlers
<1>4. HandlerAgrees(q, chain')
  BY DEF HandlerAgrees
<1>5. req' = [req EXCEPT ![r] = q]
  BY DEF SubmitLock
<1> HIDE DEF q
<1> QED
  BY <1>3, <1>4, <1>5, HandlersWritten

LEMMA SubmitReleaseStep ==
    ASSUME IInv, Grows, NEW r \in Reqs, NEW u \in Users, NEW t \in Tokens,
           SubmitRelease(r, u, t)
    PROVE  HandlersOK
<1> DEFINE snap == cache[t].snap
           rec == records[u][snap.coin]
           q == [pc |-> "release_checked", user |-> u, token |-> t,
                 snap |-> snap, rec |-> rec]
<1>1. cache[t] \in CacheEntries /\ cache[t].st = "cached" /\ snap.path # "none"
  BY DEF IInv, TypeOK, SubmitRelease
<1>2. snap \in Snapshots /\ snap.coin \in Coins
  BY <1>1, EntryTyped
<1>3. rec \in Records \cup {NoRecord}
  BY <1>2 DEF IInv, TypeOK
<1>4. q \in Handlers
  BY <1>2, <1>3 DEF Handlers
<1>5. OnChain(chain, snap.coin, snap.lock)
  BY <1>1 DEF IInv, EntryAgrees
<1>6. rec # NoRecord => Listed(chain, snap.coin, rec.lock)
  BY <1>2 DEF IInv, RecordAgrees
<1>7. HandlerAgrees(q, chain)
  BY <1>5, <1>6 DEF HandlerAgrees
<1>8. req' = [req EXCEPT ![r] = q]
  BY DEF SubmitRelease
<1> HIDE DEF q
<1> QED
  BY <1>4, <1>7, <1>8, HandlerCarriesOver, HandlersWritten

LEMMA SubmitProtectKasReleaseStep ==
    ASSUME IInv, Grows, NEW r \in Reqs, NEW u \in Users, NEW c \in Coins,
           SubmitProtectKasRelease(r, u, c)
    PROVE  HandlersOK
<1> DEFINE snap == [wallet |-> active[u], coin |-> c, lock |-> chain[c].lock, path |-> "owner"]
           q == [pc |-> "release_checked", user |-> u, token |-> 0, snap |-> snap,
                 rec |-> NoRecord]
<1>1. chain[c].st = "locked" /\ chain[c] \in Outputs /\ active[u] \in Wallets
  BY DEF IInv, TypeOK, SubmitProtectKasRelease
<1>2. snap \in Snapshots
  BY <1>1, OutputTyped DEF Snapshots, PathNames
<1>3. q \in Handlers
  BY <1>2 DEF Handlers
<1>4. HandlerAgrees(q, chain)
  BY <1>1 DEF HandlerAgrees, OnChain
<1>5. req' = [req EXCEPT ![r] = q]
  BY DEF SubmitProtectKasRelease
<1> HIDE DEF q
<1> QED
  BY <1>3, <1>4, <1>5, HandlerCarriesOver, HandlersWritten

LEMMA TrackSeenStep ==
    ASSUME IInv, Grows, NEW r \in Reqs, NEW u \in Users, NEW c \in Coins,
           TrackSeen(r, u, c)
    PROVE  HandlersOK
<1> DEFINE seen == [chain[c].lock EXCEPT !.creator = active[u]]
           snap == [wallet |-> active[u], coin |-> c, lock |-> seen, path |-> "none"]
           q == [pc |-> "tracking", user |-> u, token |-> 0, snap |-> snap, rec |-> NoRecord]
<1>1. chain[c].st = "locked" /\ chain[c] \in Outputs /\ active[u] \in Wallets
  BY DEF IInv, TypeOK, TrackSeen
<1>2. chain[c].lock \in Locks
  BY <1>1, OutputTyped
<1>3. seen \in Locks /\ SameTerms(seen, chain[c].lock)
  BY <1>1, <1>2 DEF Locks, SameTerms
<1>4. snap \in Snapshots
  BY <1>1, <1>3 DEF Snapshots, PathNames
<1>5. q \in Handlers
  BY <1>4 DEF Handlers
<1>6. HandlerAgrees(q, chain)
  <2>1. seen.family = "AbsoluteTime"
    BY <1>2 DEF TrackSeen, Locks
  <2>2. Listed(chain, c, seen)
    BY <1>1, <1>3, <2>1 DEF Listed
  <2> HIDE DEF seen
  <2> QED
    BY <2>2 DEF HandlerAgrees
<1>7. req' = [req EXCEPT ![r] = q]
  BY DEF TrackSeen
<1> HIDE DEF q
<1> QED
  BY <1>5, <1>6, <1>7, HandlerCarriesOver, HandlersWritten

\* Broadcasts: the node has just taken what the handler carries.
LEMMA BroadcastLockStep ==
    ASSUME IInv, Grows, NEW r \in Reqs, BroadcastLock(r)
    PROVE  HandlersOK
<1> DEFINE c == req[r].snap.coin
           took == Accepted(req[r].snap.lock)
           snap == [wallet |-> req[r].snap.wallet, coin |-> c, lock |-> took, path |-> "none"]
           q == [pc |-> "lock_sent", user |-> req[r].user, token |-> req[r].token,
                 snap |-> snap, rec |-> NoRecord]
<1>1. req[r] \in Handlers /\ req[r].pc # "idle"
  BY DEF IInv, TypeOK, BroadcastLock, LockTaken
<1>2. /\ req[r].user \in Users /\ req[r].token \in Tokens \cup {0} /\ c \in Coins
      /\ req[r].snap.wallet \in Wallets /\ req[r].snap.lock \in Locks
  BY <1>1, HandlerTyped
<1>3. took \in Locks
  BY <1>2, AcceptedTyped DEF IInv, TypeOK
<1>4. chain' = [chain EXCEPT ![c] = [st |-> "locked", lock |-> took]]
  BY DEF BroadcastLock, LockTaken
<1>5. req' = [req EXCEPT ![r] = q]
  BY DEF BroadcastLock
<1> HIDE DEF took
<1>6. OnChain(chain', c, took)
  BY <1>2, <1>4 DEF OnChain, IInv, TypeOK
<1>7. snap \in Snapshots
  BY <1>2, <1>3 DEF Snapshots, PathNames
<1>8. q \in Handlers
  BY <1>2, <1>7 DEF Handlers
<1>9. HandlerAgrees(q, chain')
  BY <1>6 DEF HandlerAgrees
<1> HIDE DEF q
<1> QED
  BY <1>5, <1>8, <1>9, HandlersWritten

LEMMA BroadcastReleaseStep ==
    ASSUME IInv, Grows, NEW r \in Reqs, BroadcastRelease(r)
    PROVE  HandlersOK
<1> DEFINE c == req[r].snap.coin
           q == [req[r] EXCEPT !.pc = "release_sent"]
<1>1. req[r] \in Handlers /\ req[r].pc = "release_checked"
  BY DEF IInv, TypeOK, BroadcastRelease, ReleaseTaken
<1>2. c \in Coins
  BY <1>1, HandlerTyped
<1>3. /\ chain[c].lock = req[r].snap.lock
      /\ req[r].rec # NoRecord => Listed(chain, c, req[r].rec.lock)
  BY <1>1 DEF IInv, HandlerAgrees, OnChain
<1>4. chain' = [chain EXCEPT ![c] =
                  [st |-> "released", lock |-> chain[c].lock,
                   tx |-> TxOf(chain[c].lock, req[r].snap.path)]]
  BY DEF BroadcastRelease, ReleaseTaken
<1>5. chain'[c] = [st |-> "released", lock |-> req[r].snap.lock,
                   tx |-> TxOf(req[r].snap.lock, req[r].snap.path)]
  BY <1>2, <1>3, <1>4 DEF IInv, TypeOK
<1>6. q \in Handlers
  BY <1>1 DEF Handlers, Idle
<1>7. q.pc = "release_sent" /\ q.snap = req[r].snap /\ q.rec = req[r].rec
  BY <1>1 DEF Handlers, Idle
<1>8. OnChain(chain', c, req[r].snap.lock)
  BY <1>5 DEF OnChain
<1>9. req[r].rec # NoRecord => Listed(chain', c, req[r].rec.lock)
  BY <1>3, <1>5 DEF Listed
<1>10. HandlerAgrees(q, chain')
  BY <1>5, <1>7, <1>8, <1>9 DEF HandlerAgrees
<1>11. req' = [req EXCEPT ![r] = q]
  BY DEF BroadcastRelease
<1> HIDE DEF q
<1> QED
  BY <1>6, <1>10, <1>11, HandlersWritten

\* Writes of records: from what the handler carried across its awaits.
LEMMA RecordLockStep ==
    ASSUME IInv, Grows, NEW r \in Reqs, RecordLock(r)
    PROVE  RecordsOK
<1> DEFINE c == req[r].snap.coin
           l == req[r].snap.lock
<1>1. req[r] \in Handlers /\ req[r].pc = "lock_sent"
  BY DEF IInv, TypeOK, RecordLock
<1>2. req[r].user \in Users /\ c \in Coins /\ l \in Locks
  BY <1>1, HandlerTyped
<1>3. PICK visible \in BOOLEAN, aged \in BOOLEAN :
        records' =
            IF l.family = "OwnerRelease" THEN records
            ELSE [records EXCEPT ![req[r].user][c] =
                    [status |-> IF visible THEN "locked_live_verified" ELSE "locked_pending",
                     lock |-> l, aged |-> aged, tx |-> NoTx]]
  BY DEF RecordLock
<1> DEFINE rec == [status |-> IF visible THEN "locked_live_verified" ELSE "locked_pending",
                   lock |-> l, aged |-> aged, tx |-> NoTx]
<1>4. CASE l.family = "OwnerRelease"
  BY <1>3, <1>4, RecordsSame
<1>5. CASE l.family # "OwnerRelease"
  <2>1. rec \in Records
    BY <1>2 DEF Records, LockedStatus
  <2>2. OnChain(chain, c, l)
    BY <1>1 DEF IInv, HandlerAgrees
  <2>3. rec.status \notin ReleasedStatus
    BY DEF ReleasedStatus
  <2>4. RecordAgrees(rec, c, chain)
    BY <2>2, <2>3 DEF RecordAgrees, Listed, OnChain, SameTerms
  <2>5. records' = [records EXCEPT ![req[r].user][c] = rec]
    BY <1>3, <1>5
  <2> HIDE DEF rec
  <2> QED
    BY <1>2, <2>1, <2>4, <2>5, RecordCarriesOver, RecordWritten
<1> QED
  BY <1>4, <1>5

LEMMA RecordReleaseStep ==
    ASSUME IInv, Grows, NEW r \in Reqs, RecordRelease(r)
    PROVE  RecordsOK
<1> DEFINE u == req[r].user
           c == req[r].snap.coin
           sent == TxOf(req[r].snap.lock, req[r].snap.path)
           base == IF req[r].snap.lock.family = "DelayedRecovery" THEN req[r].rec
                   ELSE records[u][c]
<1>1. req[r] \in Handlers /\ req[r].pc = "release_sent"
  BY DEF IInv, TypeOK, RecordRelease
<1>2. /\ u \in Users /\ c \in Coins /\ req[r].rec \in Records \cup {NoRecord}
      /\ req[r].snap.lock \in Locks /\ req[r].snap.path \in PathNames
  BY <1>1, HandlerTyped
<1>3. sent \in ReleaseTx
  BY <1>2, TxTyped
<1>4. records[u][c] \in Records \cup {NoRecord} /\ RecordAgrees(records[u][c], c, chain)
  BY <1>2 DEF IInv, TypeOK
<1>5. /\ chain[c].st = "released" /\ chain[c].tx = sent
      /\ req[r].rec # NoRecord => Listed(chain, c, req[r].rec.lock)
  BY <1>1 DEF IInv, HandlerAgrees
<1>6. PICK visible \in BOOLEAN :
        records' = IF base = NoRecord THEN records
                   ELSE [records EXCEPT ![u][c] = Patched(base, sent, visible)]
  BY DEF RecordRelease
<1>7. base \in Records \cup {NoRecord}
  BY <1>2, <1>4
<1>8. base # NoRecord => Listed(chain, c, base.lock)
  BY <1>4, <1>5 DEF RecordAgrees
<1> HIDE DEF base, sent
<1>9. CASE base = NoRecord
  BY <1>6, <1>9, RecordsSame
<1>10. CASE base # NoRecord
  <2> DEFINE rec == Patched(base, sent, visible)
  <2>1. rec \in Records
    BY <1>3, <1>7, <1>10, PatchedTyped
  <2>2. rec.lock = base.lock /\ rec.tx = sent
    BY DEF Patched
  <2>3. RecordAgrees(rec, c, chain)
    BY <1>5, <1>8, <1>10, <2>2 DEF RecordAgrees
  <2>4. records' = [records EXCEPT ![u][c] = rec]
    BY <1>6, <1>10
  <2> HIDE DEF rec
  <2> QED
    BY <1>2, <2>1, <2>3, <2>4, RecordCarriesOver, RecordWritten
<1> QED
  BY <1>9, <1>10

LEMMA TrackWrittenStep ==
    ASSUME IInv, Grows, NEW r \in Reqs, TrackWritten(r)
    PROVE  RecordsOK
<1> DEFINE c == req[r].snap.coin
           l == req[r].snap.lock
           rec == [status |-> "locked_live_verified", lock |-> l, aged |-> TRUE, tx |-> NoTx]
<1>1. req[r] \in Handlers /\ req[r].pc = "tracking"
  BY DEF IInv, TypeOK, TrackWritten
<1>2. req[r].user \in Users /\ c \in Coins /\ l \in Locks
  BY <1>1, HandlerTyped
<1>3. rec \in Records
  BY <1>2 DEF Records, LockedStatus
<1>4. Listed(chain, c, l)
  BY <1>1 DEF IInv, HandlerAgrees
<1>5. RecordAgrees(rec, c, chain)
  BY <1>4 DEF RecordAgrees, ReleasedStatus
<1>6. records' = [records EXCEPT ![req[r].user][c] = rec]
  BY DEF TrackWritten
<1> HIDE DEF rec
<1> QED
  BY <1>2, <1>3, <1>5, <1>6, RecordCarriesOver, RecordWritten

\* Releases are cached as they were built from the chain, locks as they come.
LEMMA BuildLockStep ==
    ASSUME IInv, Grows, NEW u \in Users, NEW c \in Coins, BuildLock(u, c)
    PROVE  CacheOK
<1>1. PICK l \in NewLocks(active[u], daa) :
        Remember([wallet |-> active[u], coin |-> c, lock |-> l, path |-> "none"])
  BY DEF BuildLock
<1> DEFINE snap == [wallet |-> active[u], coin |-> c, lock |-> l, path |-> "none"]
<1>2. active[u] \in Wallets /\ daa \in Nat
  BY LockAssumption DEF IInv, TypeOK
<1>3. snap \in Snapshots
  BY <1>2, NewLocksTyped DEF Snapshots, PathNames
<1>4. Remember(snap) /\ snap.path = "none"
  BY <1>1
<1> HIDE DEF snap
<1> QED
  BY <1>3, <1>4, CacheRemembers

LEMMA BuildReleaseStep ==
    ASSUME IInv, Grows, NEW u \in Users, NEW c \in Coins, NEW p \in {"owner", "other"},
           BuildRelease(u, c, p)
    PROVE  CacheOK
<1> DEFINE snap == [wallet |-> active[u], coin |-> c, lock |-> chain[c].lock, path |-> p]
<1>1. chain[c] \in Outputs /\ chain[c].st = "locked" /\ active[u] \in Wallets
  BY DEF IInv, TypeOK, BuildRelease
<1>2. snap \in Snapshots
  BY <1>1, OutputTyped DEF Snapshots, PathNames
<1>3. OnChain(chain', snap.coin, snap.lock)
  BY <1>1 DEF Grows, OnChain
<1>4. Remember(snap)
  BY DEF BuildRelease
<1> HIDE DEF snap
<1> QED
  BY <1>2, <1>3, <1>4, CacheRemembers

LEMMA ForgetOK == ASSUME IInv, Grows, NEW t, cache' = Forget(t) PROVE CacheOK
<1>1. cache' = [s \in Tokens |-> IF s \in {t} THEN [st |-> "gone"] ELSE cache[s]]
  BY DEF Forget
<1> QED
  BY <1>1, CacheForgets

LEMMA ExpireStep == ASSUME IInv, Grows, NEW t \in Tokens, Expire(t) PROVE CacheOK
<1>1. cache' = [s \in Tokens |-> IF s \in {t} THEN [st |-> "gone"] ELSE cache[s]]
  BY DEF IInv, TypeOK, Expire
<1> QED
  BY <1>1, CacheForgets

LEMMA CrashStep == ASSUME IInv, Grows, Crash PROVE HandlersOK /\ CacheOK
<1> DEFINE T == {t \in Tokens : cache[t].st = "cached"}
<1>1. cache' = [s \in Tokens |-> IF s \in T THEN [st |-> "gone"] ELSE cache[s]]
  BY DEF Crash
<1> HIDE DEF T
<1>2. CacheOK
  BY <1>1, CacheForgets
<1>3. Idle \in Handlers /\ HandlerAgrees(Idle, chain')
  BY DEF Handlers, HandlerAgrees, Idle
<1>4. req' = [r \in Reqs |-> Idle]
  BY DEF Crash
<1>5. HandlersOK
  BY <1>3, <1>4 DEF HandlersOK
<1> QED
  BY <1>2, <1>5

LEMMA Inductive == ASSUME IInv, [Next]_vars PROVE IInv'
<1>1. FrameOK
  BY Frame DEF IInv
<1>2. Grows
  BY <1>1 DEF FrameOK
<1>3. HandlersOK /\ CacheOK /\ RecordsOK
  <2>1. CASE Tick
    BY <1>2, <2>1, HandlersSame, CacheSame, RecordsSame DEF Tick
  <2>2. CASE Crash
    BY <1>2, <2>2, CrashStep, RecordsSame DEF Crash
  <2>3. ASSUME NEW u \in Users, NEW w \in Wallets, SelectWallet(u, w)
        PROVE  HandlersOK /\ CacheOK /\ RecordsOK
    BY <1>2, <2>3, HandlersSame, CacheSame, RecordsSame DEF SelectWallet
  <2>4. ASSUME NEW t \in Tokens, Expire(t)
        PROVE  HandlersOK /\ CacheOK /\ RecordsOK
    BY <1>2, <2>4, HandlersSame, ExpireStep, RecordsSame DEF Expire
  <2>5. ASSUME NEW u \in Users, NEW c \in Coins, BuildLock(u, c)
        PROVE  HandlersOK /\ CacheOK /\ RecordsOK
    BY <1>2, <2>5, HandlersSame, BuildLockStep, RecordsSame DEF BuildLock
  <2>6. ASSUME NEW u \in Users, NEW c \in Coins, NEW p \in {"owner", "other"},
               BuildRelease(u, c, p)
        PROVE  HandlersOK /\ CacheOK /\ RecordsOK
    BY <1>2, <2>6, HandlersSame, BuildReleaseStep, RecordsSame DEF BuildRelease
  <2>7. ASSUME NEW r \in Reqs, NEW u \in Users, NEW t \in Tokens, SubmitLock(r, u, t)
        PROVE  HandlersOK /\ CacheOK /\ RecordsOK
    BY <1>2, <2>7, SubmitLockStep, CacheSame, RecordsSame DEF SubmitLock
  <2>8. ASSUME NEW r \in Reqs, NEW u \in Users, NEW t \in Tokens, SubmitRelease(r, u, t)
        PROVE  HandlersOK /\ CacheOK /\ RecordsOK
    BY <1>2, <2>8, SubmitReleaseStep, CacheSame, RecordsSame DEF SubmitRelease
  <2>9. ASSUME NEW r \in Reqs, NEW u \in Users, NEW c \in Coins,
               SubmitProtectKasRelease(r, u, c)
        PROVE  HandlersOK /\ CacheOK /\ RecordsOK
    BY <1>2, <2>9, SubmitProtectKasReleaseStep, CacheSame, RecordsSame
       DEF SubmitProtectKasRelease
  <2>10. ASSUME NEW r \in Reqs, NEW u \in Users, NEW c \in Coins, TrackSeen(r, u, c)
         PROVE  HandlersOK /\ CacheOK /\ RecordsOK
    BY <1>2, <2>10, TrackSeenStep, CacheSame, RecordsSame DEF TrackSeen
  <2>11. ASSUME NEW r \in Reqs, BroadcastLock(r)
         PROVE  HandlersOK /\ CacheOK /\ RecordsOK
    BY <1>2, <2>11, BroadcastLockStep, ForgetOK, RecordsSame DEF BroadcastLock
  <2>12. ASSUME NEW r \in Reqs, BroadcastRelease(r)
         PROVE  HandlersOK /\ CacheOK /\ RecordsOK
    BY <1>2, <2>12, BroadcastReleaseStep, ForgetOK, RecordsSame DEF BroadcastRelease
  <2>13. ASSUME NEW r \in Reqs, RecordLock(r)
         PROVE  HandlersOK /\ CacheOK /\ RecordsOK
    BY <1>2, <2>13, HandlerEnded, CacheSame, RecordLockStep DEF RecordLock
  <2>14. ASSUME NEW r \in Reqs, RecordRelease(r)
         PROVE  HandlersOK /\ CacheOK /\ RecordsOK
    BY <1>2, <2>14, HandlerEnded, CacheSame, RecordReleaseStep DEF RecordRelease
  <2>15. ASSUME NEW r \in Reqs, TrackWritten(r)
         PROVE  HandlersOK /\ CacheOK /\ RecordsOK
    BY <1>2, <2>15, HandlerEnded, CacheSame, TrackWrittenStep DEF TrackWritten
  <2>16. ASSUME NEW r \in Reqs, Refused(r) \/ ReplyLost(r) \/ ScanFails(r)
         PROVE  HandlersOK /\ CacheOK /\ RecordsOK
    <3>1. /\ req' = [req EXCEPT ![r] = Idle]
          /\ cache' = cache /\ records' = records
      BY <2>16 DEF Refused, ReplyLost, ScanFails
    <3> QED
      BY <1>2, <3>1, HandlerEnded, CacheSame, RecordsSame
  <2>17. CASE UNCHANGED vars
    BY <1>2, <2>17, HandlersSame, CacheSame, RecordsSame DEF vars
  <2> QED
    BY <2>1, <2>2, <2>3, <2>4, <2>5, <2>6, <2>7, <2>8, <2>9, <2>10, <2>11, <2>12,
       <2>13, <2>14, <2>15, <2>16, <2>17 DEF Next, Continue
<1> QED
  BY <1>1, <1>3, TogetherAgain

LEMMA AlwaysIInv == Spec => []IInv
<1>1. Init => IInv
  BY Initially
<1>2. IInv /\ [Next]_vars => IInv'
  BY Inductive
<1> QED
  BY <1>1, <1>2, PTL DEF Spec

-----------------------------------------------------------------------------
\* Types are kept by every handler, fault and crash.
THEOREM LockTypeCorrect == Spec => []TypeOK
<1>1. IInv => TypeOK
  BY DEF IInv
<1> QED
  BY <1>1, AlwaysIInv, PTL

\* No store ever lists a lock that the chain does not carry with the same
\* parties and unlock score, whatever fails or interleaves.
THEOREM RecordsTrueOfChain == Spec => []RecordsAreOnChain
<1>1. IInv => RecordsAreOnChain
  BY DEF IInv, RecordsAreOnChain, RecordAgrees, Listed
<1> QED
  BY <1>1, AlwaysIInv, PTL

\* A record marked released names the transaction that spent its lock.
THEOREM ReleasedOnlyIfSpent == Spec => []ReleasedRecordIsSpent
<1>1. IInv => ReleasedRecordIsSpent
  <2>1. NoRecord.status \notin ReleasedStatus
    BY DEF NoRecord, ReleasedStatus
  <2> QED
    BY <2>1 DEF IInv, ReleasedRecordIsSpent, RecordAgrees
<1> QED
  BY <1>1, AlwaysIInv, PTL

-----------------------------------------------------------------------------
(* Who funded a lock.  The two destination families are released by the    *)
(* wallet that funded them, and the routes make such locks for the owner   *)
(* only; so does every copy of a lock between build and chain.             *)

FundedByOwner(l) ==
    l.family \in {"AllowedDestination", "AbsoluteTimeDestination"} => l.creator = l.owner

MadeOK ==
    /\ \A c \in Coins : chain[c].st \in {"locked", "released"} => FundedByOwner(chain[c].lock)
    /\ \A t \in Tokens : cache[t].st = "cached" => FundedByOwner(cache[t].snap.lock)
    /\ \A r \in Reqs : req[r].pc = "lock_checked" => FundedByOwner(req[r].snap.lock)

LEMMA NewLocksMade ==
    ASSUME NEW w \in Wallets, NEW now \in Nat, NEW l \in NewLocks(w, now)
    PROVE  FundedByOwner(l)
BY DEF FundedByOwner, NewLocks, Lock, ProtectKasLocks, OwnerReleaseLocks,
       ImmediateRecoveryLocks, DelayedRecoveryLocks, AbsoluteTimeLocks,
       RelativeSequenceLocks, AllowedDestinationLocks,
       AbsoluteTimeDestinationLocks, EscrowLocks

\* A step that takes its locks from those that are there.
ChainMade ==
    \A c \in Coins : chain'[c].st \in {"locked", "released"} =>
        chain'[c] = chain[c] \/ FundedByOwner(chain'[c].lock)
CacheMade ==
    \A t \in Tokens : cache'[t].st = "cached" =>
        cache'[t] = cache[t] \/ FundedByOwner(cache'[t].snap.lock)
ReqsMade ==
    \A r \in Reqs : req'[r].pc = "lock_checked" =>
        req'[r] = req[r] \/ FundedByOwner(req'[r].snap.lock)

LEMMA MadeKept == ASSUME MadeOK, ChainMade, CacheMade, ReqsMade PROVE MadeOK'
BY DEF MadeOK, ChainMade, CacheMade, ReqsMade

LEMMA LockTakenMade ==
    ASSUME TypeOK, MadeOK, NEW r \in Reqs, LockTaken(r)
    PROVE  ChainMade
<1>1. req[r] \in Handlers /\ req[r].pc = "lock_checked"
  BY DEF TypeOK, LockTaken
<1>2. PICK c, l : c = req[r].snap.coin /\ l = req[r].snap.lock
  OBVIOUS
<1>3. l \in Locks /\ FundedByOwner(l)
  BY <1>1, <1>2, HandlerTyped DEF MadeOK
<1>4. FundedByOwner(Accepted(l))
  BY <1>3 DEF FundedByOwner, Accepted, Locks
<1>5. chain' = [chain EXCEPT ![c] = [st |-> "locked", lock |-> Accepted(l)]]
  BY <1>2 DEF LockTaken
<1> QED
  BY <1>4, <1>5 DEF ChainMade, TypeOK

LEMMA ReleaseTakenMade ==
    ASSUME TypeOK, MadeOK, NEW r \in Reqs, ReleaseTaken(r)
    PROVE  ChainMade
<1>1. PICK c, x : /\ c = req[r].snap.coin /\ x.lock = chain[c].lock
                  /\ chain' = [chain EXCEPT ![c] = x] /\ chain[c].st = "locked"
  BY DEF ReleaseTaken
<1> QED
  BY <1>1 DEF ChainMade, MadeOK, TypeOK

LEMMA RememberMade ==
    ASSUME TypeOK, NEW snap, FundedByOwner(snap.lock), Remember(snap)
    PROVE  CacheMade
<1>0. PICK t \in Tokens : cache' = [cache EXCEPT ![t] = [st |-> "cached", snap |-> snap]]
  BY DEF Remember
<1>1. PICK e : e = [st |-> "cached", snap |-> snap] /\ cache' = [cache EXCEPT ![t] = e]
  BY <1>0
<1>2. e.snap.lock = snap.lock
  BY <1>1
<1> QED
  BY <1>1, <1>2 DEF CacheMade, TypeOK

\* Any step that starts or ends a handler, or takes it on to another stage.
LEMMA HandlerMade ==
    ASSUME TypeOK, NEW r \in Reqs, NEW h, req' = [req EXCEPT ![r] = h],
           h.pc = "lock_checked" => FundedByOwner(h.snap.lock)
    PROVE  ReqsMade
BY DEF ReqsMade, TypeOK

LEMMA ForgottenMade ==
    ASSUME TypeOK, NEW T, cache' = [s \in Tokens |-> IF s \in T THEN [st |-> "gone"] ELSE cache[s]]
    PROVE  CacheMade
BY DEF CacheMade

LEMMA ForgetMade == ASSUME TypeOK, NEW t, cache' = Forget(t) PROVE CacheMade
<1>1. cache' = [s \in Tokens |-> IF s \in {t} THEN [st |-> "gone"] ELSE cache[s]]
  BY DEF Forget
<1> QED
  BY <1>1, ForgottenMade

LEMMA NothingMade ==
    /\ chain' = chain => ChainMade
    /\ cache' = cache => CacheMade
    /\ req' = req => ReqsMade
BY DEF ChainMade, CacheMade, ReqsMade

LEMMA StepMade == ASSUME IInv, MadeOK, [Next]_vars PROVE MadeOK'
<1>0. TypeOK
  BY DEF IInv
<1>1. CASE Tick \/ UNCHANGED vars
  BY <1>1, NothingMade, MadeKept DEF Tick, vars
<1>2. CASE Crash
  <2>1. PICK T : T = {t \in Tokens : cache[t].st = "cached"}
    OBVIOUS
  <2>2. cache' = [s \in Tokens |-> IF s \in T THEN [st |-> "gone"] ELSE cache[s]]
    BY <1>2, <2>1 DEF Crash
  <2>3. ReqsMade
    BY <1>2 DEF ReqsMade, Crash, Idle
  <2> QED
    BY <1>0, <1>2, <2>2, <2>3, ForgottenMade, NothingMade, MadeKept DEF Crash
<1>3. ASSUME NEW u \in Users, NEW w \in Wallets, SelectWallet(u, w)
      PROVE  MadeOK'
  BY <1>3, NothingMade, MadeKept DEF SelectWallet
<1>4. ASSUME NEW t \in Tokens, Expire(t)
      PROVE  MadeOK'
  <2>1. CacheMade
    BY <1>0, <1>4 DEF CacheMade, Expire, TypeOK
  <2> QED
    BY <1>4, <2>1, NothingMade, MadeKept DEF Expire
<1>5. ASSUME NEW u \in Users, NEW c \in Coins, BuildLock(u, c)
      PROVE  MadeOK'
  <2>1. active[u] \in Wallets /\ daa \in Nat
    BY <1>0, LockAssumption DEF TypeOK
  <2>0. PICK l \in NewLocks(active[u], daa) :
           Remember([wallet |-> active[u], coin |-> c, lock |-> l, path |-> "none"])
    BY <1>5 DEF BuildLock
  <2>2. PICK snap :
           /\ snap = [wallet |-> active[u], coin |-> c, lock |-> l, path |-> "none"]
           /\ Remember(snap)
    BY <2>0
  <2>3. FundedByOwner(snap.lock)
    BY <2>1, <2>2, NewLocksMade
  <2> QED
    BY <1>0, <1>5, <2>2, <2>3, RememberMade, NothingMade, MadeKept DEF BuildLock
<1>6. ASSUME NEW u \in Users, NEW c \in Coins, NEW p \in {"owner", "other"}, BuildRelease(u, c, p)
      PROVE  MadeOK'
  <2>1. PICK snap :
           /\ snap = [wallet |-> active[u], coin |-> c, lock |-> chain[c].lock, path |-> p]
           /\ Remember(snap)
    BY <1>6 DEF BuildRelease
  <2>2. FundedByOwner(snap.lock)
    BY <1>6, <2>1 DEF BuildRelease, MadeOK
  <2> QED
    BY <1>0, <1>6, <2>1, <2>2, RememberMade, NothingMade, MadeKept DEF BuildRelease
<1>7. ASSUME NEW r \in Reqs, NEW u \in Users, NEW t \in Tokens, SubmitLock(r, u, t)
      PROVE  MadeOK'
  <2>1. PICK h : h = [pc |-> "lock_checked", user |-> u, token |-> t,
                      snap |-> cache[t].snap, rec |-> NoRecord]
    OBVIOUS
  <2>2. req' = [req EXCEPT ![r] = h] /\ FundedByOwner(h.snap.lock)
    BY <1>7, <2>1 DEF SubmitLock, MadeOK
  <2> QED
    BY <1>0, <1>7, <2>2, HandlerMade, NothingMade, MadeKept DEF SubmitLock
<1>8. ASSUME NEW r \in Reqs, UNCHANGED <<chain, cache>>,
             NEW h, req' = [req EXCEPT ![r] = h], h.pc # "lock_checked"
      PROVE  MadeOK'
  BY <1>0, <1>8, HandlerMade, NothingMade, MadeKept
<1>9. ASSUME NEW r \in Reqs, NEW u \in Users, NEW t \in Tokens, SubmitRelease(r, u, t)
      PROVE  MadeOK'
  <2>1. PICK h : h = [pc |-> "release_checked", user |-> u, token |-> t,
                      snap |-> cache[t].snap, rec |-> records[u][cache[t].snap.coin]]
    OBVIOUS
  <2>2. req' = [req EXCEPT ![r] = h] /\ UNCHANGED <<chain, cache>>
    BY <1>9, <2>1 DEF SubmitRelease
  <2>3. h.pc # "lock_checked"
    BY <2>1
  <2> QED
    BY <1>8, <2>2, <2>3
<1>10. ASSUME NEW r \in Reqs, NEW u \in Users, NEW c \in Coins, SubmitProtectKasRelease(r, u, c)
       PROVE  MadeOK'
  <2>1. PICK h : h = [pc |-> "release_checked", user |-> u, token |-> 0,
                      snap |-> [wallet |-> active[u], coin |-> c,
                                lock |-> chain[c].lock, path |-> "owner"],
                      rec |-> NoRecord]
    OBVIOUS
  <2>2. req' = [req EXCEPT ![r] = h] /\ UNCHANGED <<chain, cache>>
    BY <1>10, <2>1 DEF SubmitProtectKasRelease
  <2>3. h.pc # "lock_checked"
    BY <2>1
  <2> QED
    BY <1>8, <2>2, <2>3
<1>11. ASSUME NEW r \in Reqs, NEW u \in Users, NEW c \in Coins, TrackSeen(r, u, c)
       PROVE  MadeOK'
  <2>1. PICK h : h = [pc |-> "tracking", user |-> u, token |-> 0,
                      snap |-> [wallet |-> active[u], coin |-> c,
                                lock |-> [chain[c].lock EXCEPT !.creator = active[u]],
                                path |-> "none"],
                      rec |-> NoRecord]
    OBVIOUS
  <2>2. req' = [req EXCEPT ![r] = h] /\ UNCHANGED <<chain, cache>>
    BY <1>11, <2>1 DEF TrackSeen
  <2>3. h.pc # "lock_checked"
    BY <2>1
  <2> QED
    BY <1>8, <2>2, <2>3
<1>12. ASSUME NEW r \in Reqs, BroadcastLock(r)
       PROVE  MadeOK'
  <2>1. PICK h : h = [pc |-> "lock_sent", user |-> req[r].user, token |-> req[r].token,
                      snap |-> [wallet |-> req[r].snap.wallet, coin |-> req[r].snap.coin,
                                lock |-> Accepted(req[r].snap.lock), path |-> "none"],
                      rec |-> NoRecord]
    OBVIOUS
  <2>2. req' = [req EXCEPT ![r] = h] /\ h.pc # "lock_checked"
    BY <1>12, <2>1 DEF BroadcastLock
  <2> QED
    BY <1>0, <1>12, <2>2, LockTakenMade, ForgetMade, HandlerMade, MadeKept DEF BroadcastLock
<1>13. ASSUME NEW r \in Reqs, BroadcastRelease(r)
       PROVE  MadeOK'
  <2>1. ReqsMade
    BY <1>0, <1>13 DEF BroadcastRelease, ReqsMade, TypeOK, ReleaseTaken, Handlers, Idle
  <2> QED
    BY <1>0, <1>13, <2>1, ReleaseTakenMade, ForgetMade, MadeKept DEF BroadcastRelease
<1>14. ASSUME NEW r \in Reqs, Continue(r) \/ Refused(r) \/ ScanFails(r)
       PROVE  MadeOK'
  <2>1. req' = [req EXCEPT ![r] = Idle] /\ UNCHANGED <<chain, cache>>
    BY <1>14 DEF Continue, RecordLock, RecordRelease, TrackWritten, Refused, ScanFails
  <2>2. Idle.pc # "lock_checked"
    BY DEF Idle
  <2> QED
    BY <1>8, <2>1, <2>2
<1>15. ASSUME NEW r \in Reqs, ReplyLost(r)
       PROVE  MadeOK'
  <2>1. ChainMade
    BY <1>0, <1>15, LockTakenMade, ReleaseTakenMade DEF ReplyLost
  <2>2. req' = [req EXCEPT ![r] = Idle] /\ cache' = cache /\ Idle.pc # "lock_checked"
    BY <1>15 DEF ReplyLost, Idle
  <2> QED
    BY <1>0, <2>1, <2>2, HandlerMade, NothingMade, MadeKept
<1> QED
  BY <1>1, <1>2, <1>3, <1>4, <1>5, <1>6, <1>7, <1>9, <1>10, <1>11, <1>12, <1>13, <1>14,
     <1>15 DEF Next

LEMMA AlwaysMade == Spec => []MadeOK
<1>1. Init => MadeOK
  BY DEF Init, MadeOK, Idle
<1>2. IInv /\ MadeOK /\ [Next]_vars => MadeOK'
  BY StepMade
<1> QED
  BY <1>1, <1>2, AlwaysIInv, PTL DEF Spec

\* What the release-build routes find in the record of a lock that is live.
LEMMA RecordOfLive ==
    ASSUME IInv, NEW u \in Users, NEW c \in Coins, chain[c].st = "locked",
           records[u][c] # NoRecord
    PROVE  /\ Open(u, c) /\ chain[c].lock \in Locks
           /\ Rec(u, c).owner = chain[c].lock.owner /\ Rec(u, c).other = chain[c].lock.other
           /\ Rec(u, c).unlock = chain[c].lock.unlock
           /\ chain[c].lock.family # "AbsoluteTime" => Rec(u, c) = chain[c].lock
<1>1. PICK rec, x : rec = records[u][c] /\ x = chain[c]
  OBVIOUS
<1>2. rec \in Records /\ x \in Outputs /\ x.st = "locked" /\ RecordAgrees(rec, c, chain)
  BY <1>1 DEF IInv, TypeOK
<1>3. rec.status \in LockedStatus
  BY <1>1, <1>2 DEF RecordAgrees, Records
<1>4. x.lock \in Locks
  BY <1>2, OutputTyped
<1>5. /\ SameTerms(rec.lock, x.lock)
      /\ rec.lock.family # "AbsoluteTime" => rec.lock = x.lock
  BY <1>1, <1>2 DEF RecordAgrees, Listed
<1> QED
  BY <1>1, <1>3, <1>4, <1>5 DEF Open, Rec, SameTerms

\* The routes that read no record.
LEMMA FreeOfRecords ==
    ASSUME NEW w, NEW c, chain[c].lock.family \in NeedNoRecord, chain[c].lock.owner = w, NEW u
    PROVE  Releasable(u, w, c, "owner")
BY DEF NeedNoRecord, Releasable, ProtectKasReleasable, OwnerReleaseReleasable,
       AbsoluteTimeReleasable

\* A party takes its own path, as the owner if it is both parties.
LEMMA PartyTakesPath ==
    ASSUME IInv, MadeOK, NEW c \in Coins, chain[c].st = "locked",
           NEW p \in Paths(chain[c].lock), NEW u \in Users, NEW w,
           w = Party(chain[c].lock, p), records[u][c] # NoRecord,
           chain[c].lock.family = "RelativeSequence" =>
               chain[c].lock.creator = w /\ records[u][c].aged,
           Mature(chain[c].lock, p, daa)
    PROVE  \E q \in Paths(chain[c].lock) : Releasable(u, w, c, q)
<1>1. PICK l : l = chain[c].lock
  OBVIOUS
<1>2. /\ Open(u, c) /\ l \in Locks
      /\ Rec(u, c).owner = l.owner /\ Rec(u, c).other = l.other /\ Rec(u, c).unlock = l.unlock
      /\ l.family # "AbsoluteTime" => Rec(u, c) = l
  BY <1>1, RecordOfLive
<1>3. l.family \in AllFamilies /\ FundedByOwner(l)
  BY <1>1, <1>2, FamiliesAssumption DEF MadeOK, Locks
<1>4. /\ p \in {"owner", "other"} /\ "owner" \in Paths(l)
      /\ l.family \notin {"ImmediateRecovery", "DelayedRecovery", "Escrow"} => p = "owner"
      /\ w = IF p = "owner" THEN l.owner ELSE l.other
  BY <1>1 DEF Paths, Party
<1>5. CASE l.family \in NeedNoRecord
  BY <1>1, <1>4, <1>5, FreeOfRecords DEF NeedNoRecord
<1>6. CASE l.family = "ImmediateRecovery"
  <2>1. Role(l, w) \in Paths(l)
    BY <1>4, <1>6 DEF Role, Paths
  <2>2. ImmediateRecoveryReleasable(u, w, c, Role(l, w))
    BY <1>2, <1>6 DEF ImmediateRecoveryReleasable
  <2> QED
    BY <1>1, <1>6, <2>1, <2>2 DEF Releasable
<1>7. CASE l.family = "DelayedRecovery"
  <2>1. CASE Role(l, w) = "owner"
    <3>1. DelayedOwnerReleasable(u, w, c, "owner")
      BY <1>2, <1>7, <2>1 DEF DelayedOwnerReleasable
    <3> QED
      BY <1>1, <1>4, <1>7, <3>1 DEF Releasable
  <2>2. CASE Role(l, w) # "owner"
    <3>1. p = "other" /\ Role(l, w) = "other"
      BY <1>4, <2>2 DEF Role
    <3>2. daa >= l.unlock
      BY <1>1, <1>7, <3>1 DEF Mature, TimeBound
    <3>3. DelayedRecoveryReleasable(u, w, c, "other")
      BY <1>2, <1>7, <3>1, <3>2 DEF DelayedRecoveryReleasable
    <3> QED
      BY <1>1, <1>7, <3>1, <3>3 DEF Releasable
  <2> QED
    BY <2>1, <2>2
<1>8. CASE l.family = "Escrow"
  <2>1. CASE p = "owner"
    <3>1. EscrowReleaseReleasable(u, w, c, "owner")
      BY <1>2, <1>4, <2>1 DEF EscrowReleaseReleasable
    <3> QED
      BY <1>1, <1>4, <1>8, <3>1 DEF Releasable
  <2>2. CASE p = "other"
    <3>1. daa >= l.unlock
      BY <1>1, <1>8, <2>2 DEF Mature, TimeBound
    <3>2. EscrowRefundReleasable(u, w, c, "other")
      BY <1>2, <1>4, <2>2, <3>1 DEF EscrowRefundReleasable
    <3> QED
      BY <1>1, <1>8, <2>2, <3>2 DEF Releasable
  <2> QED
    BY <1>4, <2>1, <2>2
<1>9. CASE l.family = "RelativeSequence"
  <2>1. p = "owner" /\ w = l.owner /\ l.creator = w /\ records[u][c].aged
    BY <1>1, <1>4, <1>9
  <2>2. daa >= l.unlock
    BY <1>1, <1>9 DEF Mature, TimeBound
  <2>3. OwnRecord(u, w, c)
    BY <1>2, <1>9, <2>1 DEF OwnRecord
  <2>4. RelativeSequenceReleasable(u, w, c, "owner")
    BY <1>2, <2>1, <2>2, <2>3 DEF RelativeSequenceReleasable
  <2> QED
    BY <1>1, <1>4, <1>9, <2>4 DEF Releasable
<1>10. CASE l.family \in {"AllowedDestination", "AbsoluteTimeDestination"}
  <2>1. w = l.owner /\ l.creator = w
    BY <1>3, <1>4, <1>10 DEF FundedByOwner
  <2>2. OwnRecord(u, w, c)
    BY <1>2, <1>10, <2>1 DEF OwnRecord
  <2>3. CASE l.family = "AllowedDestination"
    BY <1>1, <1>4, <2>2, <2>3 DEF Releasable, AllowedDestinationReleasable
  <2>4. CASE l.family = "AbsoluteTimeDestination"
    <3>1. daa >= l.unlock
      BY <1>1, <2>4 DEF Mature, TimeBound
    <3>2. AbsoluteTimeDestinationReleasable(u, w, c, "owner")
      BY <1>2, <2>2, <3>1 DEF AbsoluteTimeDestinationReleasable
    <3> QED
      BY <1>1, <1>4, <2>4, <3>2 DEF Releasable
  <2> QED
    BY <1>10, <2>3, <2>4
<1> QED
  BY <1>3, <1>5, <1>6, <1>7, <1>8, <1>9, <1>10 DEF AllFamilies, NeedNoRecord

\* A party whose own account has the record of a live lock is given a path when its
\* time has come, unless it is a relative-sequence lock that it did not fund or
\* whose age the record lacks.
THEOREM PartiesCanRelease == Spec => []HoldersCanRelease
<1>1. IInv /\ MadeOK => HoldersCanRelease
  <2> SUFFICES ASSUME IInv, MadeOK, NEW c \in Coins, chain[c].st = "locked",
                      NEW p \in Paths(chain[c].lock),
                      NEW w, w = Party(chain[c].lock, p),
                      records[WalletUser[w]][c] # NoRecord,
                      chain[c].lock.family = "RelativeSequence" =>
                          chain[c].lock.creator = w /\ records[WalletUser[w]][c].aged,
                      Mature(chain[c].lock, p, daa)
               PROVE  \E q \in Paths(chain[c].lock) : Releasable(WalletUser[w], w, c, q)
    BY DEF HoldersCanRelease, PartyCanRelease
  <2>1. chain[c].lock \in Locks
    BY OutputTyped DEF IInv, TypeOK
  <2>2. WalletUser[w] \in Users
    BY <2>1, LockAssumption DEF Party, Locks
  <2> QED
    BY <2>2, PartyTakesPath
<1> QED
  BY <1>1, AlwaysIInv, AlwaysMade, PTL

-----------------------------------------------------------------------------
(***************************************************************************)
(* SCRIPTS.  What a redeem script accepts, for any wallets, strangers,     *)
(* delta and bound on the DAA score.                                       *)
(*                                                                         *)
(* A verdict depends on every opcode before it, so ScriptIInv says where   *)
(* each family's run can be (the opcode, the stack and the branch) and     *)
(* what it has learnt there: a run past a check has passed it.  At its end *)
(* the verdict is SpentBy, the script in closed form, which is compared    *)
(* with what the submit routes admit and the build routes build.           *)
(***************************************************************************)

\* A sequence of one, two or three elements is the tuple of its elements.
LEMMA Tuples ==
    ASSUME NEW S, NEW t \in Seq(S)
    PROVE  /\ Len(t) = 1 => t = <<t[1]>>
           /\ Len(t) = 2 => t = <<t[1], t[2]>>
           /\ Len(t) = 3 => t = <<t[1], t[2], t[3]>>
OBVIOUS

\* What Append makes of a short stack.
LEMMA Appended ==
    ASSUME NEW S, NEW p \in Seq(S), NEW e \in S, NEW t, t = Append(p, e)
    PROVE  /\ t \in Seq(S)
           /\ Len(t) = Len(p) + 1
           /\ \A i \in 1..Len(p) : t[i] = p[i]
           /\ t[Len(p) + 1] = e
OBVIOUS

\* The same, as tuples.
LEMMA AppendedTwo ==
    ASSUME NEW S, NEW p \in Seq(S), NEW e \in S
    PROVE  /\ Len(p) = 1 => Append(p, e) = <<p[1], e>>
           /\ Len(p) = 2 => Append(p, e) = <<p[1], p[2], e>>
<1>1. PICK t : t = Append(p, e)
  OBVIOUS
<1>2. t \in Seq(S) /\ Len(t) = Len(p) + 1 /\ t[Len(p) + 1] = e
  BY <1>1, Appended
<1>3. \A i \in 1..Len(p) : t[i] = p[i]
  BY <1>1, Appended
<1>4. ASSUME Len(p) = 1 PROVE t = <<p[1], e>>
  BY <1>2, <1>3, <1>4, Tuples
<1>5. ASSUME Len(p) = 2 PROVE t = <<p[1], p[2], e>>
  BY <1>2, <1>3, <1>5, Tuples
<1> QED BY <1>1, <1>4, <1>5

\* What pushing makes of the tuples that the scripts meet.
LEMMA Pushed ==
    ASSUME NEW a, NEW b, NEW c
    PROVE  /\ Append(<<>>, a) = <<a>>
           /\ Append(<<a>>, b) = <<a, b>>
           /\ Append(<<a, b>>, c) = <<a, b, c>>
<1> DEFINE S == {a, b, c}
           one == <<a>>
           two == <<a, b>>
<1>1. /\ one \in Seq(S) /\ Len(one) = 1 /\ one[1] = a
      /\ two \in Seq(S) /\ Len(two) = 2 /\ two[1] = a /\ two[2] = b
  OBVIOUS
<1>0. a \in S /\ b \in S /\ c \in S
  OBVIOUS
<1> HIDE DEF one, two, S
<1>2. Append(one, b) = <<a, b>> /\ Append(two, c) = <<a, b, c>>
  BY <1>0, <1>1, AppendedTwo
<1>3. Append(<<>>, a) = <<a>>
  BY <1>0
<1> QED BY <1>2, <1>3 DEF one, two

\* What is left of a short stack below its top elements.
LEMMA Popped ==
    ASSUME NEW a, NEW b, NEW c
    PROVE  /\ SubSeq(<<a>>, 1, 0) = <<>>
           /\ SubSeq(<<a, b>>, 1, 0) = <<>>
           /\ SubSeq(<<a, b>>, 1, 1) = <<a>>
           /\ SubSeq(<<a, b, c>>, 1, 1) = <<a>>
<1> DEFINE S == {a, b, c}
           two == <<a, b>>
           three == <<a, b, c>>
           t == SubSeq(two, 1, 1)
           u == SubSeq(three, 1, 1)
<1>1. two[1] = a /\ three[1] = a
  OBVIOUS
<1> HIDE DEF two, three
<1>2. /\ t \in Seq(S) /\ (Len(t) = IF 1 <= 1 THEN 1 - 1 + 1 ELSE 0)
      /\ \A i \in 1..(1 - 1 + 1) : t[i] = two[1 + i - 1]
  BY <1>1, SubSeqProperties
<1>3. /\ u \in Seq(S) /\ (Len(u) = IF 1 <= 1 THEN 1 - 1 + 1 ELSE 0)
      /\ \A i \in 1..(1 - 1 + 1) : u[i] = three[1 + i - 1]
  BY <1>1, SubSeqProperties
<1> HIDE DEF t, u, S
<1>4. t = <<a>> /\ u = <<a>>
  BY <1>1, <1>2, <1>3, Tuples
<1>5. SubSeq(two, 1, 1) = <<a>> /\ SubSeq(three, 1, 1) = <<a>>
  BY <1>4 DEF t, u
<1> QED BY <1>5, SubSeqEmpty DEF two, three

-----------------------------------------------------------------------------
\* One opcode.

\* The script is about to execute its k-th opcode, and a step takes it there.
At(k, s, c) == verdict = "running" /\ pc = k /\ stack = s /\ conds = c
Same == UNCHANGED <<lock, born, tx>>
Fails == Same /\ verdict' = "error"
Here(k, o) ==
    /\ Len(Script(lock)) \in Nat
    /\ k \in 1..Len(Script(lock)) /\ Script(lock)[k] = o
\* The condition stacks under which an opcode executes.
Live == {<<>>, <<"true">>}
Ifs == {"If", "Else", "EndIf"}

\* Outside a branch that is skipped, an opcode that is not a conditional executes.
LEMMA ExecutesHere ==
    ASSUME ScriptNext, NEW k, NEW s, NEW c \in Live, At(k, s, c),
           NEW o, Here(k, o), o.op \notin Ifs
    PROVE  Execute /\ Current = o
<1>1. Executing
  BY DEF Executing, Live, At
<1>2. Current = o /\ ~Conditional
  BY DEF Current, Conditional, At, Here, Ifs
<1>3. pc # Len(Script(lock)) + 1
  BY DEF Here, At
<1> QED BY <1>1, <1>2, <1>3 DEF ScriptNext, Finish, Skip, If, Else, EndIf, Conditional

\* It goes on when the opcode has one outcome.
LEMMA StepGoes ==
    ASSUME ScriptNext, NEW k, NEW s, NEW c \in Live, At(k, s, c),
           NEW o, Here(k, o), o.op \notin Ifs,
           Len(s) \in Nat, Arity(o) \in 0..Len(s), NEW r, Outcome(o) = {r}
    PROVE  Same /\ At(k + 1, r, c)'
<1>1. Execute /\ Current = o
  BY ExecutesHere
<1>2. ~(Len(stack) < Arity(Current)) /\ Outcome(Current) = {r}
  BY <1>1 DEF At
<1>3. stack' \in Outcome(Current) /\ pc' = pc + 1 /\ UNCHANGED <<lock, born, tx, conds, verdict>>
  BY <1>1, <1>2, Zenon DEF Execute
<1>4. stack' = r
  BY <1>2, <1>3
<1> QED BY <1>3, <1>4 DEF At, Same

\* It ends the script when the opcode has none.
LEMMA StepFails ==
    ASSUME ScriptNext, NEW k, NEW s, NEW c \in Live, At(k, s, c),
           NEW o, Here(k, o), o.op \notin Ifs, Outcome(o) = {}
    PROVE  Fails
<1>1. Execute /\ Current = o
  BY ExecutesHere
<1>2. Outcome(Current) = {}
  BY <1>1
<1>3. Fail
  BY <1>1, <1>2, Zenon DEF Execute
<1> QED BY <1>3 DEF Fail, Fails, Same

\* The outcomes of the opcodes on stacks of no, one, two and three elements.
LEMMA OutcomesOnNone ==
    ASSUME NEW v, stack = <<>>
    PROVE  Outcome(Push(v)) = {<<v>>}
<1>1. Append(<<>>, v) = <<v>>
  BY Pushed
<1> QED BY <1>1 DEF Outcome, Push

LEMMA OutcomesOnOne ==
    ASSUME NEW a, NEW v, stack = <<a>>
    PROVE  /\ Outcome(Push(v)) = {<<a, v>>}
           /\ Outcome(Op("Dup")) = {<<a, a>>}
           /\ Outcome(Op("Drop")) = {<<>>}
           /\ Outcome(Op("TxOutputCount")) = {<<a, Len(tx.pays)>>}
<1> DEFINE n == Len(tx.pays)
<1>1. Top = a /\ Append(<<a>>, v) = <<a, v>> /\ Append(<<a>>, a) = <<a, a>>
  BY Pushed DEF Top
<1>2. Append(<<a>>, n) = <<a, n>>
  BY Pushed
<1>3. Sub(1) = <<>>
  BY Len(stack) = 1, Popped DEF Sub
<1> QED BY <1>1, <1>2, <1>3 DEF Outcome, Push, Op

LEMMA OutcomesOnTwo ==
    ASSUME NEW a, NEW b, NEW v, stack = <<a, b>>
    PROVE  /\ Outcome(Push(v)) = {<<a, b, v>>}
           /\ Outcome(Op("Swap")) = {<<b, a>>}
           /\ Outcome(Op("CheckSig")) = {<<Bool(a = b)>>}
           /\ Outcome(Op("BoolOr")) = {<<Bool(1 \in {a, b})>>}
           /\ Outcome(Op("TxOutputSpk")) = {<<a, tx.pays[b + 1]>>}
           /\ Outcome(Op("CheckLockTimeVerify")) =
                IF tx.lockTime >= b /\ tx.sequence # Final THEN {<<a>>} ELSE {}
           /\ Outcome(Op("CheckSequenceVerify")) =
                IF tx.sequence >= b /\ tx.sequence # Final THEN {<<a>>} ELSE {}
<1> DEFINE p == tx.pays[b + 1]
           e == Bool(a = b)
           f == Bool(1 \in {b, a})
<1>1. Top = b /\ Second = a
  BY DEF Top, Second
<1>2. Append(<<a, b>>, v) = <<a, b, v>>
  BY Pushed
<1>3. Sub(1) = <<a>> /\ Sub(2) = <<>>
  <2>1. Len(stack) - 1 = 1 /\ Len(stack) - 2 = 0
    OBVIOUS
  <2>2. Sub(1) = SubSeq(<<a, b>>, 1, 1) /\ Sub(2) = SubSeq(<<a, b>>, 1, 0)
    BY <2>1, Zenon DEF Sub
  <2> QED BY <2>2, Popped, Zenon
<1>4. Append(Append(<<>>, b), a) = <<b, a>> /\ Append(<<a>>, p) = <<a, p>>
  BY Pushed
<1>5. Append(<<>>, e) = <<e>> /\ Append(<<>>, f) = <<f>>
  BY Pushed
<1>6. f = Bool(1 \in {a, b})
  BY DEF Bool
<1> HIDE DEF p, e, f
<1>7. /\ Outcome(Push(v)) = {<<a, b, v>>} /\ Outcome(Op("Swap")) = {<<b, a>>}
  BY <1>1, <1>2, <1>3, <1>4 DEF Outcome, Push, Op
<1>8. /\ Outcome(Op("CheckSig")) = {<<e>>} /\ Outcome(Op("BoolOr")) = {<<f>>}
  BY <1>1, <1>3, <1>5 DEF Outcome, Push, Op, e, f
<1>9. Outcome(Op("TxOutputSpk")) = {<<a, p>>}
  BY <1>1, <1>3, <1>4 DEF Outcome, Push, Op, p
<1>10. /\ Outcome(Op("CheckLockTimeVerify")) =
                IF tx.lockTime >= b /\ tx.sequence # Final THEN {<<a>>} ELSE {}
       /\ Outcome(Op("CheckSequenceVerify")) =
                IF tx.sequence >= b /\ tx.sequence # Final THEN {<<a>>} ELSE {}
  BY <1>1, <1>3 DEF Outcome, Push, Op
<1> QED BY <1>6, <1>7, <1>8, <1>9, <1>10 DEF p, e

LEMMA OutcomesOnThree ==
    ASSUME NEW a, NEW b, NEW v, stack = <<a, b, v>>
    PROVE  /\ Outcome(Op("CheckSig")) = {<<a, Bool(b = v)>>}
           /\ Outcome(Op("EqualVerify")) = IF b = v THEN {<<a>>} ELSE {}
<1> DEFINE e == Bool(b = v)
<1>1. Top = v /\ Second = b
  BY DEF Top, Second
<1>2. Sub(2) = <<a>>
  <2>1. Len(stack) - 2 = 1
    OBVIOUS
  <2>2. Sub(2) = SubSeq(<<a, b, v>>, 1, 1)
    BY <2>1, Zenon DEF Sub
  <2> QED BY <2>2, Popped, Zenon
<1>3. Append(<<a>>, e) = <<a, e>>
  BY Pushed
<1> QED BY <1>1, <1>2, <1>3 DEF Outcome, Op

-----------------------------------------------------------------------------
\* Where the opcodes of a script lie.

\* The opcodes that the scripts use, and the values that they push.
Names == {"Dup", "Drop", "Swap", "CheckSig", "BoolOr", "EqualVerify", "TxOutputCount", "TxOutputSpk",
  "CheckLockTimeVerify", "CheckSequenceVerify", "If", "Else", "EndIf"}
Codes(l) == {Op(n) : n \in Names} \cup {Push(v) : v \in {0, 1, l.owner, l.other, l.unlock, Delta}}

\* The opcodes of b lie in the script s from its k-th on.
Has(s, k, b) ==
    /\ k + Len(b) - 1 <= Len(s)
    /\ \A i \in 1..Len(b) : s[k - 1 + i] = b[i]

LEMMA Joined ==
    ASSUME NEW S, NEW s \in Seq(S), NEW b \in Seq(S)
    PROVE  /\ s \o b \in Seq(S) /\ Len(s \o b) = Len(s) + Len(b)
           /\ Has(s \o b, Len(s) + 1, b)
           /\ \A k \in Nat \ {0}, d \in Seq(S) : Has(s, k, d) => Has(s \o b, k, d)
<1>1. PICK r : r = s \o b
  OBVIOUS
<1>2. r \in Seq(S) /\ Len(r) = Len(s) + Len(b) /\ Len(s) \in Nat /\ Len(b) \in Nat
  BY <1>1, ConcatProperties, LenProperties
<1>3. (\A i \in 1..Len(s) : r[i] = s[i]) /\ (\A i \in 1..Len(b) : r[Len(s) + i] = b[i])
  BY <1>1
<1>4. Has(r, Len(s) + 1, b)
  BY <1>2, <1>3 DEF Has
<1>5. ASSUME NEW k \in Nat \ {0}, NEW d \in Seq(S), Has(s, k, d)
      PROVE  Has(r, k, d)
  <2>1. Len(d) \in Nat /\ k + Len(d) - 1 <= Len(s)
    BY <1>5 DEF Has
  <2>2. \A i \in 1..Len(d) : k - 1 + i \in 1..Len(s)
    BY <2>1
  <2>3. ASSUME NEW i \in 1..Len(d) PROVE r[k - 1 + i] = d[i]
    <3>1. r[k - 1 + i] = s[k - 1 + i]
      BY <1>3, <2>2
    <3>2. s[k - 1 + i] = d[i]
      BY <1>5 DEF Has
    <3> QED BY <3>1, <3>2
  <2>4. k + Len(d) - 1 <= Len(r)
    BY <1>2, <2>1
  <2> QED BY <2>3, <2>4 DEF Has
<1> QED BY <1>1, <1>2, <1>4, <1>5

LEMMA Itself == ASSUME NEW S, NEW s \in Seq(S) PROVE Has(s, 1, s)
BY DEF Has




\* The building blocks.
LEMMA Blocks ==
    ASSUME NEW l, NEW w \in {l.owner, l.other}
    PROVE  /\ OwnerSig(l) \in Seq(Codes(l)) /\ Len(OwnerSig(l)) = 2
           /\ LockTime(l) \in Seq(Codes(l)) /\ Len(LockTime(l)) = 2
           /\ PaysOnly(w) \in Seq(Codes(l)) /\ Len(PaysOnly(w)) = 7
<1> DEFINE C == Codes(l)
<1>1. /\ Op("CheckSig") \in C /\ Op("CheckLockTimeVerify") \in C /\ Op("TxOutputCount") \in C
      /\ Op("EqualVerify") \in C /\ Op("TxOutputSpk") \in C
  BY DEF Codes, Names
<1>2. /\ Push(l.owner) \in C /\ Push(w) \in C /\ Push(l.unlock) \in C
      /\ Push(0) \in C /\ Push(1) \in C
  BY DEF Codes, Names
<1> HIDE DEF C
<1>5. OwnerSig(l) \in Seq(C) /\ Len(OwnerSig(l)) = 2
  BY <1>1, <1>2 DEF OwnerSig
<1>6. LockTime(l) \in Seq(C) /\ Len(LockTime(l)) = 2
  BY <1>1, <1>2 DEF LockTime
<1>7. PaysOnly(w) \in Seq(C) /\ Len(PaysOnly(w)) = 7
  BY <1>1, <1>2 DEF PaysOnly
<1> QED BY <1>5, <1>6, <1>7 DEF C

\* The opcodes of each family's script, by their places.
LEMMA ImmediateRecoveryCode ==
    ASSUME NEW l, l.family = "ImmediateRecovery"
    PROVE  LET s == Script(l)
           IN  /\ Len(s) = 7 /\ s[1] = Op("Dup") /\ Has(s, 2, OwnerSig(l))
               /\ s[4] = Op("Swap") /\ s[5] = Push(l.other) /\ s[6] = Op("CheckSig")
               /\ s[7] = Op("BoolOr")
<1> DEFINE C == Codes(l)
           dup == <<Op("Dup")>>
           sig == OwnerSig(l)
           swap == <<Op("Swap")>>
           either == <<Push(l.other), Op("CheckSig"), Op("BoolOr")>>
           s1 == dup \o sig
           s2 == s1 \o swap
           s == s2 \o either
<1>1. /\ Op("Dup") \in C /\ Op("Swap") \in C /\ Push(l.other) \in C /\ Op("CheckSig") \in C
      /\ Op("BoolOr") \in C
  BY DEF Codes, Names
<1> HIDE DEF C
<1>2. /\ dup \in Seq(C) /\ Len(dup) = 1 /\ swap \in Seq(C) /\ Len(swap) = 1
      /\ either \in Seq(C) /\ Len(either) = 3
  BY <1>1
<1>3. /\ dup[1] = Op("Dup") /\ swap[1] = Op("Swap") /\ either[1] = Push(l.other)
      /\ either[2] = Op("CheckSig") /\ either[3] = Op("BoolOr")
  OBVIOUS
<1> HIDE DEF dup, sig, swap, either
<1>4. /\ sig \in Seq(C) /\ Len(sig) = 2
  BY Blocks DEF C, sig
<1>5. Has(dup, 1, dup)
  BY <1>2, <1>4, Itself
<1>6. /\ s1 \in Seq(C) /\ Len(s1) = 3 /\ Has(s1, 1, dup) /\ Has(s1, 2, sig)
  <2>1. s1 \in Seq(C) /\ Len(s1) = Len(dup) + Len(sig) /\ Has(s1, Len(dup) + 1, sig)
    BY <1>2, <1>4, <1>5, Joined
  <2>2. \A k \in Nat \ {0}, d \in Seq(C) : Has(dup, k, d) => Has(s1, k, d)
    BY <1>2, <1>4, <1>5, Joined, Zenon
  <2> HIDE DEF s1
  <2> QED BY <2>1, <2>2, <1>2, <1>4, <1>5
<1> HIDE DEF s1
<1>7. /\ s2 \in Seq(C) /\ Len(s2) = 4 /\ Has(s2, 1, dup) /\ Has(s2, 2, sig)
      /\ Has(s2, 4, swap)
  <2>1. s2 \in Seq(C) /\ Len(s2) = Len(s1) + Len(swap) /\ Has(s2, Len(s1) + 1, swap)
    BY <1>2, <1>4, <1>6, Joined
  <2>2. \A k \in Nat \ {0}, d \in Seq(C) : Has(s1, k, d) => Has(s2, k, d)
    BY <1>2, <1>4, <1>6, Joined, Zenon
  <2> HIDE DEF s2
  <2> QED BY <2>1, <2>2, <1>2, <1>4, <1>6
<1> HIDE DEF s2
<1>8. /\ s \in Seq(C) /\ Len(s) = 7 /\ Has(s, 1, dup) /\ Has(s, 2, sig) /\ Has(s, 4, swap)
      /\ Has(s, 5, either)
  <2>1. s \in Seq(C) /\ Len(s) = Len(s2) + Len(either) /\ Has(s, Len(s2) + 1, either)
    BY <1>2, <1>4, <1>7, Joined
  <2>2. \A k \in Nat \ {0}, d \in Seq(C) : Has(s2, k, d) => Has(s, k, d)
    BY <1>2, <1>4, <1>7, Joined, Zenon
  <2> HIDE DEF s
  <2> QED BY <2>1, <2>2, <1>2, <1>4, <1>7
<1>9. s = Script(l)
  BY DEF s1, s2, dup, sig, swap, either, ImmediateRecoveryScript, Script
<1> HIDE DEF s
<1>10. /\ s[1] = Op("Dup") /\ s[4] = Op("Swap") /\ s[5] = Push(l.other)
       /\ s[6] = Op("CheckSig") /\ s[7] = Op("BoolOr")
  BY <1>2, <1>3, <1>8 DEF Has
<1> QED BY <1>8, <1>9, <1>10 DEF sig

LEMMA DelayedRecoveryCode ==
    ASSUME NEW l, l.family = "DelayedRecovery"
    PROVE  LET s == Script(l)
           IN  /\ Len(s) = 12 /\ s[1] = Op("Dup") /\ Has(s, 2, OwnerSig(l))
               /\ s[4] = Op("If") /\ s[5] = Op("Drop") /\ s[6] = Push(1)
               /\ s[7] = Op("Else") /\ Has(s, 8, LockTime(l)) /\ s[10] = Push(l.other)
               /\ s[11] = Op("CheckSig") /\ s[12] = Op("EndIf")
<1> DEFINE C == Codes(l)
           dup == <<Op("Dup")>>
           sig == OwnerSig(l)
           choose == <<Op("If"), Op("Drop"), Push(1), Op("Else")>>
           time == LockTime(l)
           other == <<Push(l.other), Op("CheckSig"), Op("EndIf")>>
           s1 == dup \o sig
           s2 == s1 \o choose
           s3 == s2 \o time
           s == s3 \o other
<1>1. /\ Op("Dup") \in C /\ Op("If") \in C /\ Op("Drop") \in C /\ Push(1) \in C
      /\ Op("Else") \in C /\ Push(l.other) \in C /\ Op("CheckSig") \in C
      /\ Op("EndIf") \in C
  BY DEF Codes, Names
<1> HIDE DEF C
<1>2. /\ dup \in Seq(C) /\ Len(dup) = 1 /\ choose \in Seq(C) /\ Len(choose) = 4
      /\ other \in Seq(C) /\ Len(other) = 3
  BY <1>1
<1>3. /\ dup[1] = Op("Dup") /\ choose[1] = Op("If") /\ choose[2] = Op("Drop")
      /\ choose[3] = Push(1) /\ choose[4] = Op("Else") /\ other[1] = Push(l.other)
      /\ other[2] = Op("CheckSig") /\ other[3] = Op("EndIf")
  OBVIOUS
<1> HIDE DEF dup, sig, choose, time, other
<1>4. /\ sig \in Seq(C) /\ Len(sig) = 2 /\ time \in Seq(C) /\ Len(time) = 2
  BY Blocks DEF C, sig, time
<1>5. Has(dup, 1, dup)
  BY <1>2, <1>4, Itself
<1>6. /\ s1 \in Seq(C) /\ Len(s1) = 3 /\ Has(s1, 1, dup) /\ Has(s1, 2, sig)
  <2>1. s1 \in Seq(C) /\ Len(s1) = Len(dup) + Len(sig) /\ Has(s1, Len(dup) + 1, sig)
    BY <1>2, <1>4, <1>5, Joined
  <2>2. \A k \in Nat \ {0}, d \in Seq(C) : Has(dup, k, d) => Has(s1, k, d)
    BY <1>2, <1>4, <1>5, Joined, Zenon
  <2> HIDE DEF s1
  <2> QED BY <2>1, <2>2, <1>2, <1>4, <1>5
<1> HIDE DEF s1
<1>7. /\ s2 \in Seq(C) /\ Len(s2) = 7 /\ Has(s2, 1, dup) /\ Has(s2, 2, sig)
      /\ Has(s2, 4, choose)
  <2>1. s2 \in Seq(C) /\ Len(s2) = Len(s1) + Len(choose) /\ Has(s2, Len(s1) + 1, choose)
    BY <1>2, <1>4, <1>6, Joined
  <2>2. \A k \in Nat \ {0}, d \in Seq(C) : Has(s1, k, d) => Has(s2, k, d)
    BY <1>2, <1>4, <1>6, Joined, Zenon
  <2> HIDE DEF s2
  <2> QED BY <2>1, <2>2, <1>2, <1>4, <1>6
<1> HIDE DEF s2
<1>8. /\ s3 \in Seq(C) /\ Len(s3) = 9 /\ Has(s3, 1, dup) /\ Has(s3, 2, sig)
      /\ Has(s3, 4, choose) /\ Has(s3, 8, time)
  <2>1. s3 \in Seq(C) /\ Len(s3) = Len(s2) + Len(time) /\ Has(s3, Len(s2) + 1, time)
    BY <1>2, <1>4, <1>7, Joined
  <2>2. \A k \in Nat \ {0}, d \in Seq(C) : Has(s2, k, d) => Has(s3, k, d)
    BY <1>2, <1>4, <1>7, Joined, Zenon
  <2> HIDE DEF s3
  <2> QED BY <2>1, <2>2, <1>2, <1>4, <1>7
<1> HIDE DEF s3
<1>9. /\ s \in Seq(C) /\ Len(s) = 12 /\ Has(s, 1, dup) /\ Has(s, 2, sig)
      /\ Has(s, 4, choose) /\ Has(s, 8, time) /\ Has(s, 10, other)
  <2>1. s \in Seq(C) /\ Len(s) = Len(s3) + Len(other) /\ Has(s, Len(s3) + 1, other)
    BY <1>2, <1>4, <1>8, Joined
  <2>2. \A k \in Nat \ {0}, d \in Seq(C) : Has(s3, k, d) => Has(s, k, d)
    BY <1>2, <1>4, <1>8, Joined, Zenon
  <2> HIDE DEF s
  <2> QED BY <2>1, <2>2, <1>2, <1>4, <1>8
<1>10. s = Script(l)
  BY DEF s1, s2, s3, dup, sig, choose, time, other, DelayedRecoveryScript, Script
<1> HIDE DEF s
<1>11. /\ s[1] = Op("Dup") /\ s[4] = Op("If") /\ s[5] = Op("Drop") /\ s[6] = Push(1)
       /\ s[7] = Op("Else") /\ s[10] = Push(l.other) /\ s[11] = Op("CheckSig")
       /\ s[12] = Op("EndIf")
  BY <1>2, <1>3, <1>9 DEF Has
<1> QED BY <1>9, <1>10, <1>11 DEF sig, time

LEMMA AbsoluteTimeCode ==
    ASSUME NEW l, l.family = "AbsoluteTime"
    PROVE  LET s == Script(l)
           IN  /\ Len(s) = 4 /\ Has(s, 1, LockTime(l)) /\ Has(s, 3, OwnerSig(l))
<1> DEFINE C == Codes(l)
           time == LockTime(l)
           sig == OwnerSig(l)
           s == time \o sig
<1> HIDE DEF C
<1> HIDE DEF time, sig
<1>4. /\ time \in Seq(C) /\ Len(time) = 2 /\ sig \in Seq(C) /\ Len(sig) = 2
  BY Blocks DEF C, time, sig
<1>5. Has(time, 1, time)
  BY <1>4, Itself
<1>6. /\ s \in Seq(C) /\ Len(s) = 4 /\ Has(s, 1, time) /\ Has(s, 3, sig)
  <2>1. s \in Seq(C) /\ Len(s) = Len(time) + Len(sig) /\ Has(s, Len(time) + 1, sig)
    BY <1>4, <1>5, Joined
  <2>2. \A k \in Nat \ {0}, d \in Seq(C) : Has(time, k, d) => Has(s, k, d)
    BY <1>4, <1>5, Joined, Zenon
  <2> HIDE DEF s
  <2> QED BY <2>1, <2>2, <1>4, <1>5
<1>7. s = Script(l)
  BY DEF time, sig, AbsoluteTimeScript, Script
<1> HIDE DEF s
<1> QED BY <1>6, <1>7 DEF time, sig

LEMMA RelativeSequenceCode ==
    ASSUME NEW l, l.family = "RelativeSequence"
    PROVE  LET s == Script(l)
           IN  /\ Len(s) = 4 /\ s[1] = Push(Delta) /\ s[2] = Op("CheckSequenceVerify")
               /\ Has(s, 3, OwnerSig(l))
<1> DEFINE C == Codes(l)
           seq == <<Push(Delta), Op("CheckSequenceVerify")>>
           sig == OwnerSig(l)
           s == seq \o sig
<1>1. /\ Push(Delta) \in C /\ Op("CheckSequenceVerify") \in C
  BY DEF Codes, Names
<1> HIDE DEF C
<1>2. /\ seq \in Seq(C) /\ Len(seq) = 2
  BY <1>1
<1>3. /\ seq[1] = Push(Delta) /\ seq[2] = Op("CheckSequenceVerify")
  OBVIOUS
<1> HIDE DEF seq, sig
<1>4. /\ sig \in Seq(C) /\ Len(sig) = 2
  BY Blocks DEF C, sig
<1>5. Has(seq, 1, seq)
  BY <1>2, <1>4, Itself
<1>6. /\ s \in Seq(C) /\ Len(s) = 4 /\ Has(s, 1, seq) /\ Has(s, 3, sig)
  <2>1. s \in Seq(C) /\ Len(s) = Len(seq) + Len(sig) /\ Has(s, Len(seq) + 1, sig)
    BY <1>2, <1>4, <1>5, Joined
  <2>2. \A k \in Nat \ {0}, d \in Seq(C) : Has(seq, k, d) => Has(s, k, d)
    BY <1>2, <1>4, <1>5, Joined, Zenon
  <2> HIDE DEF s
  <2> QED BY <2>1, <2>2, <1>2, <1>4, <1>5
<1>7. s = Script(l)
  BY DEF seq, sig, RelativeSequenceScript, Script
<1> HIDE DEF s
<1>8. /\ s[1] = Push(Delta) /\ s[2] = Op("CheckSequenceVerify")
  BY <1>2, <1>3, <1>6 DEF Has
<1> QED BY <1>6, <1>7, <1>8 DEF sig

LEMMA AllowedDestinationCode ==
    ASSUME NEW l, l.family = "AllowedDestination"
    PROVE  LET s == Script(l)
           IN  /\ Len(s) = 9 /\ Has(s, 1, PaysOnly(l.other)) /\ Has(s, 8, OwnerSig(l))
<1> DEFINE C == Codes(l)
           payOther == PaysOnly(l.other)
           sig == OwnerSig(l)
           s == payOther \o sig
<1> HIDE DEF C
<1> HIDE DEF payOther, sig
<1>4. /\ payOther \in Seq(C) /\ Len(payOther) = 7 /\ sig \in Seq(C) /\ Len(sig) = 2
  BY Blocks DEF C, payOther, sig
<1>5. Has(payOther, 1, payOther)
  BY <1>4, Itself
<1>6. /\ s \in Seq(C) /\ Len(s) = 9 /\ Has(s, 1, payOther) /\ Has(s, 8, sig)
  <2>1. s \in Seq(C) /\ Len(s) = Len(payOther) + Len(sig) /\ Has(s, Len(payOther) + 1, sig)
    BY <1>4, <1>5, Joined
  <2>2. \A k \in Nat \ {0}, d \in Seq(C) : Has(payOther, k, d) => Has(s, k, d)
    BY <1>4, <1>5, Joined, Zenon
  <2> HIDE DEF s
  <2> QED BY <2>1, <2>2, <1>4, <1>5
<1>7. s = Script(l)
  BY DEF payOther, sig, AllowedDestinationScript, Script
<1> HIDE DEF s
<1> QED BY <1>6, <1>7 DEF payOther, sig

LEMMA AbsoluteTimeDestinationCode ==
    ASSUME NEW l, l.family = "AbsoluteTimeDestination"
    PROVE  LET s == Script(l)
           IN  /\ Len(s) = 11 /\ Has(s, 1, LockTime(l)) /\ Has(s, 3, PaysOnly(l.other))
               /\ Has(s, 10, OwnerSig(l))
<1> DEFINE C == Codes(l)
           time == LockTime(l)
           payOther == PaysOnly(l.other)
           sig == OwnerSig(l)
           s1 == time \o payOther
           s == s1 \o sig
<1> HIDE DEF C
<1> HIDE DEF time, payOther, sig
<1>4. /\ time \in Seq(C) /\ Len(time) = 2 /\ payOther \in Seq(C) /\ Len(payOther) = 7
      /\ sig \in Seq(C) /\ Len(sig) = 2
  BY Blocks DEF C, time, payOther, sig
<1>5. Has(time, 1, time)
  BY <1>4, Itself
<1>6. /\ s1 \in Seq(C) /\ Len(s1) = 9 /\ Has(s1, 1, time) /\ Has(s1, 3, payOther)
  <2>1. s1 \in Seq(C) /\ Len(s1) = Len(time) + Len(payOther) /\ Has(s1, Len(time) + 1, payOther)
    BY <1>4, <1>5, Joined
  <2>2. \A k \in Nat \ {0}, d \in Seq(C) : Has(time, k, d) => Has(s1, k, d)
    BY <1>4, <1>5, Joined, Zenon
  <2> HIDE DEF s1
  <2> QED BY <2>1, <2>2, <1>4, <1>5
<1> HIDE DEF s1
<1>7. /\ s \in Seq(C) /\ Len(s) = 11 /\ Has(s, 1, time) /\ Has(s, 3, payOther)
      /\ Has(s, 10, sig)
  <2>1. s \in Seq(C) /\ Len(s) = Len(s1) + Len(sig) /\ Has(s, Len(s1) + 1, sig)
    BY <1>4, <1>6, Joined
  <2>2. \A k \in Nat \ {0}, d \in Seq(C) : Has(s1, k, d) => Has(s, k, d)
    BY <1>4, <1>6, Joined, Zenon
  <2> HIDE DEF s
  <2> QED BY <2>1, <2>2, <1>4, <1>6
<1>8. s = Script(l)
  BY DEF s1, time, payOther, sig, AbsoluteTimeDestinationScript, Script
<1> HIDE DEF s
<1> QED BY <1>7, <1>8 DEF time, payOther, sig

LEMMA EscrowCode ==
    ASSUME NEW l, l.family = "Escrow"
    PROVE  LET s == Script(l)
           IN  /\ Len(s) = 26 /\ s[1] = Op("Dup") /\ Has(s, 2, OwnerSig(l))
               /\ s[4] = Op("If") /\ Has(s, 5, PaysOnly(l.owner))
               /\ Has(s, 12, OwnerSig(l)) /\ s[14] = Op("Else") /\ Has(s, 15, LockTime(l))
               /\ Has(s, 17, PaysOnly(l.other)) /\ s[24] = Push(l.other)
               /\ s[25] = Op("CheckSig") /\ s[26] = Op("EndIf")
<1> DEFINE C == Codes(l)
           dup == <<Op("Dup")>>
           sig == OwnerSig(l)
           if == <<Op("If")>>
           payOwner == PaysOnly(l.owner)
           else == <<Op("Else")>>
           time == LockTime(l)
           payOther == PaysOnly(l.other)
           other == <<Push(l.other), Op("CheckSig"), Op("EndIf")>>
           s1 == dup \o sig
           s2 == s1 \o if
           s3 == s2 \o payOwner
           s4 == s3 \o sig
           s5 == s4 \o else
           s6 == s5 \o time
           s7 == s6 \o payOther
           s == s7 \o other
<1>1. /\ Op("Dup") \in C /\ Op("If") \in C /\ Op("Else") \in C /\ Push(l.other) \in C
      /\ Op("CheckSig") \in C /\ Op("EndIf") \in C
  BY DEF Codes, Names
<1> HIDE DEF C
<1>2. /\ dup \in Seq(C) /\ Len(dup) = 1 /\ if \in Seq(C) /\ Len(if) = 1
      /\ else \in Seq(C) /\ Len(else) = 1 /\ other \in Seq(C) /\ Len(other) = 3
  BY <1>1
<1>3. /\ dup[1] = Op("Dup") /\ if[1] = Op("If") /\ else[1] = Op("Else")
      /\ other[1] = Push(l.other) /\ other[2] = Op("CheckSig") /\ other[3] = Op("EndIf")
  OBVIOUS
<1> HIDE DEF dup, sig, if, payOwner, else, time, payOther, other
<1>4. /\ sig \in Seq(C) /\ Len(sig) = 2 /\ payOwner \in Seq(C) /\ Len(payOwner) = 7
      /\ time \in Seq(C) /\ Len(time) = 2 /\ payOther \in Seq(C) /\ Len(payOther) = 7
  BY Blocks DEF C, sig, payOwner, time, payOther
<1>5. Has(dup, 1, dup)
  BY <1>2, <1>4, Itself
<1>6. /\ s1 \in Seq(C) /\ Len(s1) = 3 /\ Has(s1, 1, dup) /\ Has(s1, 2, sig)
  <2>1. s1 \in Seq(C) /\ Len(s1) = Len(dup) + Len(sig) /\ Has(s1, Len(dup) + 1, sig)
    BY <1>2, <1>4, <1>5, Joined
  <2>2. \A k \in Nat \ {0}, d \in Seq(C) : Has(dup, k, d) => Has(s1, k, d)
    BY <1>2, <1>4, <1>5, Joined, Zenon
  <2> HIDE DEF s1
  <2> QED BY <2>1, <2>2, <1>2, <1>4, <1>5
<1> HIDE DEF s1
<1>7. /\ s2 \in Seq(C) /\ Len(s2) = 4 /\ Has(s2, 1, dup) /\ Has(s2, 2, sig)
      /\ Has(s2, 4, if)
  <2>1. s2 \in Seq(C) /\ Len(s2) = Len(s1) + Len(if) /\ Has(s2, Len(s1) + 1, if)
    BY <1>2, <1>4, <1>6, Joined
  <2>2. \A k \in Nat \ {0}, d \in Seq(C) : Has(s1, k, d) => Has(s2, k, d)
    BY <1>2, <1>4, <1>6, Joined, Zenon
  <2> HIDE DEF s2
  <2> QED BY <2>1, <2>2, <1>2, <1>4, <1>6
<1> HIDE DEF s2
<1>8. /\ s3 \in Seq(C) /\ Len(s3) = 11 /\ Has(s3, 1, dup) /\ Has(s3, 2, sig)
      /\ Has(s3, 4, if) /\ Has(s3, 5, payOwner)
  <2>1. s3 \in Seq(C) /\ Len(s3) = Len(s2) + Len(payOwner) /\ Has(s3, Len(s2) + 1, payOwner)
    BY <1>2, <1>4, <1>7, Joined
  <2>2. \A k \in Nat \ {0}, d \in Seq(C) : Has(s2, k, d) => Has(s3, k, d)
    BY <1>2, <1>4, <1>7, Joined, Zenon
  <2> HIDE DEF s3
  <2> QED BY <2>1, <2>2, <1>2, <1>4, <1>7
<1> HIDE DEF s3
<1>9. /\ s4 \in Seq(C) /\ Len(s4) = 13 /\ Has(s4, 1, dup) /\ Has(s4, 2, sig)
      /\ Has(s4, 4, if) /\ Has(s4, 5, payOwner) /\ Has(s4, 12, sig)
  <2>1. s4 \in Seq(C) /\ Len(s4) = Len(s3) + Len(sig) /\ Has(s4, Len(s3) + 1, sig)
    BY <1>2, <1>4, <1>8, Joined
  <2>2. \A k \in Nat \ {0}, d \in Seq(C) : Has(s3, k, d) => Has(s4, k, d)
    BY <1>2, <1>4, <1>8, Joined, Zenon
  <2> HIDE DEF s4
  <2> QED BY <2>1, <2>2, <1>2, <1>4, <1>8
<1> HIDE DEF s4
<1>10. /\ s5 \in Seq(C) /\ Len(s5) = 14 /\ Has(s5, 1, dup) /\ Has(s5, 2, sig)
       /\ Has(s5, 4, if) /\ Has(s5, 5, payOwner) /\ Has(s5, 12, sig) /\ Has(s5, 14, else)
  <2>1. s5 \in Seq(C) /\ Len(s5) = Len(s4) + Len(else) /\ Has(s5, Len(s4) + 1, else)
    BY <1>2, <1>4, <1>9, Joined
  <2>2. \A k \in Nat \ {0}, d \in Seq(C) : Has(s4, k, d) => Has(s5, k, d)
    BY <1>2, <1>4, <1>9, Joined, Zenon
  <2> HIDE DEF s5
  <2> QED BY <2>1, <2>2, <1>2, <1>4, <1>9
<1> HIDE DEF s5
<1>11. /\ s6 \in Seq(C) /\ Len(s6) = 16 /\ Has(s6, 1, dup) /\ Has(s6, 2, sig)
       /\ Has(s6, 4, if) /\ Has(s6, 5, payOwner) /\ Has(s6, 12, sig) /\ Has(s6, 14, else)
       /\ Has(s6, 15, time)
  <2>1. s6 \in Seq(C) /\ Len(s6) = Len(s5) + Len(time) /\ Has(s6, Len(s5) + 1, time)
    BY <1>2, <1>4, <1>10, Joined
  <2>2. \A k \in Nat \ {0}, d \in Seq(C) : Has(s5, k, d) => Has(s6, k, d)
    BY <1>2, <1>4, <1>10, Joined, Zenon
  <2> HIDE DEF s6
  <2> QED BY <2>1, <2>2, <1>2, <1>4, <1>10
<1> HIDE DEF s6
<1>12. /\ s7 \in Seq(C) /\ Len(s7) = 23 /\ Has(s7, 1, dup) /\ Has(s7, 2, sig)
       /\ Has(s7, 4, if) /\ Has(s7, 5, payOwner) /\ Has(s7, 12, sig) /\ Has(s7, 14, else)
       /\ Has(s7, 15, time) /\ Has(s7, 17, payOther)
  <2>1. s7 \in Seq(C) /\ Len(s7) = Len(s6) + Len(payOther) /\ Has(s7, Len(s6) + 1, payOther)
    BY <1>2, <1>4, <1>11, Joined
  <2>2. \A k \in Nat \ {0}, d \in Seq(C) : Has(s6, k, d) => Has(s7, k, d)
    BY <1>2, <1>4, <1>11, Joined, Zenon
  <2> HIDE DEF s7
  <2> QED BY <2>1, <2>2, <1>2, <1>4, <1>11
<1> HIDE DEF s7
<1>13. /\ s \in Seq(C) /\ Len(s) = 26 /\ Has(s, 1, dup) /\ Has(s, 2, sig) /\ Has(s, 4, if)
       /\ Has(s, 5, payOwner) /\ Has(s, 12, sig) /\ Has(s, 14, else) /\ Has(s, 15, time)
       /\ Has(s, 17, payOther) /\ Has(s, 24, other)
  <2>1. s \in Seq(C) /\ Len(s) = Len(s7) + Len(other) /\ Has(s, Len(s7) + 1, other)
    BY <1>2, <1>4, <1>12, Joined
  <2>2. \A k \in Nat \ {0}, d \in Seq(C) : Has(s7, k, d) => Has(s, k, d)
    BY <1>2, <1>4, <1>12, Joined, Zenon
  <2> HIDE DEF s
  <2> QED BY <2>1, <2>2, <1>2, <1>4, <1>12
<1>14. s = Script(l)
  BY DEF s1, s2, s3, s4, s5, s6, s7, dup, sig, if, payOwner, else, time, payOther, other, EscrowScript, Script
<1> HIDE DEF s
<1>15. /\ s[1] = Op("Dup") /\ s[4] = Op("If") /\ s[14] = Op("Else")
       /\ s[24] = Push(l.other) /\ s[25] = Op("CheckSig") /\ s[26] = Op("EndIf")
  BY <1>2, <1>3, <1>13 DEF Has
<1> QED BY <1>13, <1>14, <1>15 DEF sig, payOwner, time, payOther

-----------------------------------------------------------------------------
\* What a script accepts, in closed form: which transactions t spend the lock l.
LocktimeIsPast(t, u) == t.lockTime >= u /\ t.sequence # Final
SpentBy(l, t) ==
    CASE l.family = "ImmediateRecovery" -> t.signer \in {l.owner, l.other}
      [] l.family = "DelayedRecovery" ->
            \/ t.signer = l.owner
            \/ t.signer = l.other /\ LocktimeIsPast(t, l.unlock)
      [] l.family = "AbsoluteTime" ->
            t.signer = l.owner /\ LocktimeIsPast(t, l.unlock)
      [] l.family = "RelativeSequence" ->
            t.signer = l.owner /\ t.sequence >= Delta /\ t.sequence # Final
      [] l.family = "AllowedDestination" ->
            t.signer = l.owner /\ t.pays = <<l.other>>
      [] l.family = "AbsoluteTimeDestination" ->
            t.signer = l.owner /\ t.pays = <<l.other>> /\ LocktimeIsPast(t, l.unlock)
      [] l.family = "Escrow" ->
            \/ t.signer = l.owner /\ t.pays = <<l.owner>>
            \/ /\ t.signer = l.other /\ t.signer # l.owner
               /\ t.pays = <<l.other>> /\ LocktimeIsPast(t, l.unlock)
      [] OTHER -> t.signer = l.owner

\* Where a run is, with what it has learnt: inside a block that starts at k, or
\* at one opcode.  The bottom of the stack is the signature.
InSig(t, k, w, c) == At(k, <<t.signer>>, c) \/ At(k + 1, <<t.signer, w>>, c)
InDupSig(t, w) ==
    \/ At(1, <<t.signer>>, <<>>)
    \/ At(2, <<t.signer, t.signer>>, <<>>) \/ At(3, <<t.signer, t.signer, w>>, <<>>)
InLockTime(t, k, u, c) == At(k, <<t.signer>>, c) \/ At(k + 1, <<t.signer, u>>, c)
InPays(t, k, w, c) ==
    \/ At(k, <<t.signer>>, c)
    \/ At(k + 1, <<t.signer, Len(t.pays)>>, c)
    \/ At(k + 2, <<t.signer, Len(t.pays), 1>>, c)
    \/ /\ Len(t.pays) = 1
       /\ \/ At(k + 3, <<t.signer>>, c)
          \/ At(k + 4, <<t.signer, 0>>, c)
          \/ At(k + 5, <<t.signer, t.pays[1]>>, c)
          \/ At(k + 6, <<t.signer, t.pays[1], w>>, c)

\* The runs of each family.
PlainRun(l, t) ==
    InSig(t, 1, l.owner, <<>>) \/ At(3, <<Bool(t.signer = l.owner)>>, <<>>)
ImmediateRecoveryRun(l, t) ==
    LET own == Bool(t.signer = l.owner)
        heir == Bool(t.signer = l.other)
    IN  \/ InDupSig(t, l.owner)
        \/ At(4, <<t.signer, own>>, <<>>) \/ At(5, <<own, t.signer>>, <<>>)
        \/ At(6, <<own, t.signer, l.other>>, <<>>) \/ At(7, <<own, heir>>, <<>>)
        \/ At(8, <<Bool(1 \in {own, heir})>>, <<>>)
DelayedRecoveryRun(l, t) ==
    LET heir == Bool(t.signer = l.other)
        yes == <<"true">>
        no == <<"false">>
    IN  \/ InDupSig(t, l.owner)
        \/ At(4, <<t.signer, Bool(t.signer = l.owner)>>, <<>>)
        \/ /\ t.signer = l.owner
           /\ \/ At(5, <<t.signer>>, yes) \/ At(6, <<>>, yes) \/ At(7, <<1>>, yes)
              \/ \E k \in 8..12 : At(k, <<1>>, no)
              \/ At(13, <<1>>, <<>>)
        \/ /\ t.signer # l.owner
           /\ \/ \E k \in 5..7 : At(k, <<t.signer>>, no)
              \/ InLockTime(t, 8, l.unlock, yes)
              \/ /\ LocktimeIsPast(t, l.unlock)
                 /\ \/ InSig(t, 10, l.other, yes) \/ At(12, <<heir>>, yes)
                    \/ At(13, <<heir>>, <<>>)
AbsoluteTimeRun(l, t) ==
    \/ InLockTime(t, 1, l.unlock, <<>>)
    \/ /\ LocktimeIsPast(t, l.unlock)
       /\ InSig(t, 3, l.owner, <<>>) \/ At(5, <<Bool(t.signer = l.owner)>>, <<>>)
RelativeSequenceRun(l, t) ==
    \/ At(1, <<t.signer>>, <<>>) \/ At(2, <<t.signer, Delta>>, <<>>)
    \/ /\ t.sequence >= Delta /\ t.sequence # Final
       /\ InSig(t, 3, l.owner, <<>>) \/ At(5, <<Bool(t.signer = l.owner)>>, <<>>)
AllowedDestinationRun(l, t) ==
    \/ InPays(t, 1, l.other, <<>>)
    \/ /\ t.pays = <<l.other>>
       /\ InSig(t, 8, l.owner, <<>>) \/ At(10, <<Bool(t.signer = l.owner)>>, <<>>)
AbsoluteTimeDestinationRun(l, t) ==
    \/ InLockTime(t, 1, l.unlock, <<>>)
    \/ /\ LocktimeIsPast(t, l.unlock)
       /\ \/ InPays(t, 3, l.other, <<>>)
          \/ /\ t.pays = <<l.other>>
             /\ \/ InSig(t, 10, l.owner, <<>>)
                \/ At(12, <<Bool(t.signer = l.owner)>>, <<>>)
EscrowRun(l, t) ==
    LET heir == Bool(t.signer = l.other)
        yes == <<"true">>
        no == <<"false">>
    IN  \/ InDupSig(t, l.owner)
        \/ At(4, <<t.signer, Bool(t.signer = l.owner)>>, <<>>)
        \/ /\ t.signer = l.owner
           /\ \/ InPays(t, 5, l.owner, yes)
              \/ /\ t.pays = <<l.owner>>
                 /\ \/ InSig(t, 12, l.owner, yes) \/ At(14, <<1>>, yes)
                    \/ \E k \in 15..26 : At(k, <<1>>, no)
                    \/ At(27, <<1>>, <<>>)
        \/ /\ t.signer # l.owner
           /\ \/ \E k \in 5..14 : At(k, <<t.signer>>, no)
              \/ InLockTime(t, 15, l.unlock, yes)
              \/ /\ LocktimeIsPast(t, l.unlock)
                 /\ \/ InPays(t, 17, l.other, yes)
                    \/ /\ t.pays = <<l.other>>
                       /\ \/ InSig(t, 24, l.other, yes) \/ At(26, <<heir>>, yes)
                          \/ At(27, <<heir>>, <<>>)

\* The runs of a lock's family.
Running(l, t) ==
    CASE l.family = "ImmediateRecovery" -> ImmediateRecoveryRun(l, t)
      [] l.family = "DelayedRecovery" -> DelayedRecoveryRun(l, t)
      [] l.family = "AbsoluteTime" -> AbsoluteTimeRun(l, t)
      [] l.family = "RelativeSequence" -> RelativeSequenceRun(l, t)
      [] l.family = "AllowedDestination" -> AllowedDestinationRun(l, t)
      [] l.family = "AbsoluteTimeDestination" -> AbsoluteTimeDestinationRun(l, t)
      [] l.family = "Escrow" -> EscrowRun(l, t)
      [] OTHER -> PlainRun(l, t)

\* What a run starts from and never changes.
Offered ==
    /\ \E w \in Wallets : lock \in NewLocks(w, born)
    /\ born \in 0..MaxDaa /\ tx \in Txs /\ Timely(tx, born)

\* The inductive invariant: a script that runs is on one of those runs, and one that
\* has ended says what SpentBy says.
ScriptIInv ==
    /\ Offered
    /\ \/ verdict = "running" /\ Running(lock, tx)
       \/ verdict = "true" /\ SpentBy(lock, tx)
       \/ verdict = "error" /\ ~SpentBy(lock, tx)

-----------------------------------------------------------------------------
\* One opcode of each kind, on the stacks that the scripts meet.

LEMMA PushOnNone ==
    ASSUME ScriptNext, NEW k, NEW c \in Live, NEW v, At(k, <<>>, c), Here(k, Push(v))
    PROVE  Same /\ At(k + 1, <<v>>, c)'
<1> DEFINE o == Push(v)
           s == <<>>
           r == <<v>>
<1>1. stack = s /\ Len(s) = 0 /\ At(k, s, c) /\ Here(k, o)
  BY DEF At
<1>2. Outcome(o) = {r}
  BY <1>1, OutcomesOnNone
<1>3. o.op \notin Ifs /\ Len(s) \in Nat /\ Arity(o) \in 0..Len(s)
  BY <1>1 DEF Ifs, Arity, Push, Op
<1> HIDE DEF o, s, r
<1>4. Same /\ At(k + 1, r, c)'
  BY <1>1, <1>2, <1>3, StepGoes, Zenon
<1> QED BY <1>4 DEF r

LEMMA PushOnOne ==
    ASSUME ScriptNext, NEW k, NEW c \in Live, NEW a, NEW v, At(k, <<a>>, c), Here(k, Push(v))
    PROVE  Same /\ At(k + 1, <<a, v>>, c)'
<1> DEFINE o == Push(v)
           s == <<a>>
           r == <<a, v>>
<1>1. stack = s /\ Len(s) = 1 /\ At(k, s, c) /\ Here(k, o)
  BY DEF At
<1>2. Outcome(o) = {r}
  BY <1>1, OutcomesOnOne
<1>3. o.op \notin Ifs /\ Len(s) \in Nat /\ Arity(o) \in 0..Len(s)
  BY <1>1 DEF Ifs, Arity, Push, Op
<1> HIDE DEF o, s, r
<1>4. Same /\ At(k + 1, r, c)'
  BY <1>1, <1>2, <1>3, StepGoes, Zenon
<1> QED BY <1>4 DEF r

LEMMA PushOnTwo ==
    ASSUME ScriptNext, NEW k, NEW c \in Live, NEW a, NEW b, NEW v, At(k, <<a, b>>, c), Here(k, Push(v))
    PROVE  Same /\ At(k + 1, <<a, b, v>>, c)'
<1> DEFINE o == Push(v)
           s == <<a, b>>
           r == <<a, b, v>>
<1>1. stack = s /\ Len(s) = 2 /\ At(k, s, c) /\ Here(k, o)
  BY DEF At
<1>2. Outcome(o) = {r}
  BY <1>1, OutcomesOnTwo
<1>3. o.op \notin Ifs /\ Len(s) \in Nat /\ Arity(o) \in 0..Len(s)
  BY <1>1 DEF Ifs, Arity, Push, Op
<1> HIDE DEF o, s, r
<1>4. Same /\ At(k + 1, r, c)'
  BY <1>1, <1>2, <1>3, StepGoes, Zenon
<1> QED BY <1>4 DEF r

LEMMA DupOnOne ==
    ASSUME ScriptNext, NEW k, NEW c \in Live, NEW a, At(k, <<a>>, c), Here(k, Op("Dup"))
    PROVE  Same /\ At(k + 1, <<a, a>>, c)'
<1> DEFINE o == Op("Dup")
           s == <<a>>
           r == <<a, a>>
<1>1. stack = s /\ Len(s) = 1 /\ At(k, s, c) /\ Here(k, o)
  BY DEF At
<1>2. Outcome(o) = {r}
  BY <1>1, OutcomesOnOne
<1>3. o.op \notin Ifs /\ Len(s) \in Nat /\ Arity(o) \in 0..Len(s)
  BY <1>1 DEF Ifs, Arity, Push, Op
<1> HIDE DEF o, s, r
<1>4. Same /\ At(k + 1, r, c)'
  BY <1>1, <1>2, <1>3, StepGoes, Zenon
<1> QED BY <1>4 DEF r

LEMMA DropOnOne ==
    ASSUME ScriptNext, NEW k, NEW c \in Live, NEW a, At(k, <<a>>, c), Here(k, Op("Drop"))
    PROVE  Same /\ At(k + 1, <<>>, c)'
<1> DEFINE o == Op("Drop")
           s == <<a>>
           r == <<>>
<1>1. stack = s /\ Len(s) = 1 /\ At(k, s, c) /\ Here(k, o)
  BY DEF At
<1>2. Outcome(o) = {r}
  BY <1>1, OutcomesOnOne
<1>3. o.op \notin Ifs /\ Len(s) \in Nat /\ Arity(o) \in 0..Len(s)
  BY <1>1 DEF Ifs, Arity, Push, Op
<1> HIDE DEF o, s, r
<1>4. Same /\ At(k + 1, r, c)'
  BY <1>1, <1>2, <1>3, StepGoes, Zenon
<1> QED BY <1>4 DEF r

LEMMA SwapOnTwo ==
    ASSUME ScriptNext, NEW k, NEW c \in Live, NEW a, NEW b, At(k, <<a, b>>, c), Here(k, Op("Swap"))
    PROVE  Same /\ At(k + 1, <<b, a>>, c)'
<1> DEFINE o == Op("Swap")
           s == <<a, b>>
           r == <<b, a>>
<1>1. stack = s /\ Len(s) = 2 /\ At(k, s, c) /\ Here(k, o)
  BY DEF At
<1>2. Outcome(o) = {r}
  BY <1>1, OutcomesOnTwo
<1>3. o.op \notin Ifs /\ Len(s) \in Nat /\ Arity(o) \in 0..Len(s)
  BY <1>1 DEF Ifs, Arity, Push, Op
<1> HIDE DEF o, s, r
<1>4. Same /\ At(k + 1, r, c)'
  BY <1>1, <1>2, <1>3, StepGoes, Zenon
<1> QED BY <1>4 DEF r

LEMMA SigOnTwo ==
    ASSUME ScriptNext, NEW k, NEW c \in Live, NEW a, NEW b, At(k, <<a, b>>, c), Here(k, Op("CheckSig"))
    PROVE  Same /\ At(k + 1, <<Bool(a = b)>>, c)'
<1> DEFINE o == Op("CheckSig")
           s == <<a, b>>
           r == <<Bool(a = b)>>
<1>1. stack = s /\ Len(s) = 2 /\ At(k, s, c) /\ Here(k, o)
  BY DEF At
<1>2. Outcome(o) = {r}
  BY <1>1, OutcomesOnTwo
<1>3. o.op \notin Ifs /\ Len(s) \in Nat /\ Arity(o) \in 0..Len(s)
  BY <1>1 DEF Ifs, Arity, Push, Op
<1> HIDE DEF o, s, r
<1>4. Same /\ At(k + 1, r, c)'
  BY <1>1, <1>2, <1>3, StepGoes, Zenon
<1> QED BY <1>4 DEF r

LEMMA SigOnThree ==
    ASSUME ScriptNext, NEW k, NEW c \in Live, NEW a, NEW b, NEW v, At(k, <<a, b, v>>, c), Here(k, Op("CheckSig"))
    PROVE  Same /\ At(k + 1, <<a, Bool(b = v)>>, c)'
<1> DEFINE o == Op("CheckSig")
           s == <<a, b, v>>
           r == <<a, Bool(b = v)>>
<1>1. stack = s /\ Len(s) = 3 /\ At(k, s, c) /\ Here(k, o)
  BY DEF At
<1>2. Outcome(o) = {r}
  BY <1>1, OutcomesOnThree
<1>3. o.op \notin Ifs /\ Len(s) \in Nat /\ Arity(o) \in 0..Len(s)
  BY <1>1 DEF Ifs, Arity, Push, Op
<1> HIDE DEF o, s, r
<1>4. Same /\ At(k + 1, r, c)'
  BY <1>1, <1>2, <1>3, StepGoes, Zenon
<1> QED BY <1>4 DEF r

LEMMA OrOnTwo ==
    ASSUME ScriptNext, NEW k, NEW c \in Live, NEW a, NEW b, At(k, <<a, b>>, c), Here(k, Op("BoolOr"))
    PROVE  Same /\ At(k + 1, <<Bool(1 \in {a, b})>>, c)'
<1> DEFINE o == Op("BoolOr")
           s == <<a, b>>
           r == <<Bool(1 \in {a, b})>>
<1>1. stack = s /\ Len(s) = 2 /\ At(k, s, c) /\ Here(k, o)
  BY DEF At
<1>2. Outcome(o) = {r}
  BY <1>1, OutcomesOnTwo
<1>3. o.op \notin Ifs /\ Len(s) \in Nat /\ Arity(o) \in 0..Len(s)
  BY <1>1 DEF Ifs, Arity, Push, Op
<1> HIDE DEF o, s, r
<1>4. Same /\ At(k + 1, r, c)'
  BY <1>1, <1>2, <1>3, StepGoes, Zenon
<1> QED BY <1>4 DEF r

LEMMA CountOnOne ==
    ASSUME ScriptNext, NEW k, NEW c \in Live, NEW t, tx = t, NEW a, At(k, <<a>>, c), Here(k, Op("TxOutputCount"))
    PROVE  Same /\ At(k + 1, <<a, Len(t.pays)>>, c)'
<1> DEFINE o == Op("TxOutputCount")
           s == <<a>>
           r == <<a, Len(t.pays)>>
<1>1. stack = s /\ Len(s) = 1 /\ At(k, s, c) /\ Here(k, o)
  BY DEF At
<1>2. Outcome(o) = {r}
  BY <1>1, OutcomesOnOne
<1>3. o.op \notin Ifs /\ Len(s) \in Nat /\ Arity(o) \in 0..Len(s)
  BY <1>1 DEF Ifs, Arity, Push, Op
<1> HIDE DEF o, s, r
<1>4. Same /\ At(k + 1, r, c)'
  BY <1>1, <1>2, <1>3, StepGoes, Zenon
<1> QED BY <1>4 DEF r

LEMMA SpkOnTwo ==
    ASSUME ScriptNext, NEW k, NEW c \in Live, NEW t, tx = t, NEW a, At(k, <<a, 0>>, c), Here(k, Op("TxOutputSpk"))
    PROVE  Same /\ At(k + 1, <<a, t.pays[1]>>, c)'
<1> DEFINE o == Op("TxOutputSpk")
           s == <<a, 0>>
           r == <<a, t.pays[1]>>
<1>1. stack = s /\ Len(s) = 2 /\ At(k, s, c) /\ Here(k, o)
  BY DEF At
<1>2. Outcome(o) = {r}
  BY <1>1, OutcomesOnTwo
<1>3. o.op \notin Ifs /\ Len(s) \in Nat /\ Arity(o) \in 0..Len(s)
  BY <1>1 DEF Ifs, Arity, Push, Op
<1> HIDE DEF o, s, r
<1>4. Same /\ At(k + 1, r, c)'
  BY <1>1, <1>2, <1>3, StepGoes, Zenon
<1> QED BY <1>4 DEF r

LEMMA EqualOnThree ==
    ASSUME ScriptNext, NEW k, NEW c \in Live, NEW a, NEW b, NEW v, At(k, <<a, b, v>>, c), Here(k, Op("EqualVerify"))
    PROVE  IF b = v THEN Same /\ At(k + 1, <<a>>, c)' ELSE Fails
<1>1. stack = <<a, b, v>> /\ Len(<<a, b, v>>) = 3
  BY DEF At
<1>2. Outcome(Op("EqualVerify")) = IF b = v THEN {<<a>>} ELSE {}
  BY <1>1, OutcomesOnThree
<1>3. (Op("EqualVerify")).op \notin Ifs /\ Arity(Op("EqualVerify")) \in 0..Len(<<a, b, v>>)
  BY <1>1 DEF Ifs, Arity, Push, Op
<1>4. CASE b = v
  BY <1>1, <1>2, <1>3, <1>4, StepGoes
<1>5. CASE ~(b = v)
  <2>1. Outcome(Op("EqualVerify")) = {}
    BY <1>2, <1>5
  <2> QED BY <1>3, <1>5, <2>1, StepFails
<1> QED BY <1>4, <1>5

LEMMA TimeOnTwo ==
    ASSUME ScriptNext, NEW k, NEW c \in Live, NEW t, tx = t, NEW a, NEW b, At(k, <<a, b>>, c), Here(k, Op("CheckLockTimeVerify"))
    PROVE  IF LocktimeIsPast(t, b) THEN Same /\ At(k + 1, <<a>>, c)' ELSE Fails
<1>1. stack = <<a, b>> /\ Len(<<a, b>>) = 2
  BY DEF At
<1>2. Outcome(Op("CheckLockTimeVerify")) = IF LocktimeIsPast(t, b) THEN {<<a>>} ELSE {}
  BY <1>1, OutcomesOnTwo DEF LocktimeIsPast
<1>3. (Op("CheckLockTimeVerify")).op \notin Ifs /\ Arity(Op("CheckLockTimeVerify")) \in 0..Len(<<a, b>>)
  BY <1>1 DEF Ifs, Arity, Push, Op
<1>4. CASE LocktimeIsPast(t, b)
  BY <1>1, <1>2, <1>3, <1>4, StepGoes
<1>5. CASE ~(LocktimeIsPast(t, b))
  <2>1. Outcome(Op("CheckLockTimeVerify")) = {}
    BY <1>2, <1>5
  <2> QED BY <1>3, <1>5, <2>1, StepFails
<1> QED BY <1>4, <1>5

LEMMA SequenceOnTwo ==
    ASSUME ScriptNext, NEW k, NEW c \in Live, NEW t, tx = t, NEW a, NEW b, At(k, <<a, b>>, c), Here(k, Op("CheckSequenceVerify"))
    PROVE  IF t.sequence >= b /\ t.sequence # Final THEN Same /\ At(k + 1, <<a>>, c)' ELSE Fails
<1>1. stack = <<a, b>> /\ Len(<<a, b>>) = 2
  BY DEF At
<1>2. Outcome(Op("CheckSequenceVerify")) = IF t.sequence >= b /\ t.sequence # Final THEN {<<a>>} ELSE {}
  BY <1>1, OutcomesOnTwo
<1>3. (Op("CheckSequenceVerify")).op \notin Ifs /\ Arity(Op("CheckSequenceVerify")) \in 0..Len(<<a, b>>)
  BY <1>1 DEF Ifs, Arity, Push, Op
<1>4. CASE t.sequence >= b /\ t.sequence # Final
  BY <1>1, <1>2, <1>3, <1>4, StepGoes
<1>5. CASE ~(t.sequence >= b /\ t.sequence # Final)
  <2>1. Outcome(Op("CheckSequenceVerify")) = {}
    BY <1>2, <1>5
  <2> QED BY <1>3, <1>5, <2>1, StepFails
<1> QED BY <1>4, <1>5

\* An opcode of a branch that is not taken, and the branching opcodes.
LEMMA SkipsHere ==
    ASSUME ScriptNext, NEW k, NEW s, At(k, s, <<"false">>),
           NEW o, Here(k, o), o.op \notin Ifs
    PROVE  Same /\ At(k + 1, s, <<"false">>)'
<1>1. ~Executing
  <2>1. conds = <<"false">> /\ Len(conds) = 1 /\ conds[1] = "false"
    BY DEF At
  <2> QED BY <2>1 DEF Executing
<1>2. Current = o /\ ~Conditional
  BY DEF Current, Conditional, At, Here, Ifs
<1>3. pc # Len(Script(lock)) + 1
  BY DEF Here, At
<1>4. Skip
  BY <1>1, <1>2, <1>3 DEF ScriptNext, Finish, Execute, If, Else, EndIf, Conditional
<1> QED BY <1>4 DEF Skip, At, Same

LEMMA IfHere ==
    ASSUME ScriptNext, NEW k, NEW a, NEW b, At(k, <<a, b>>, <<>>), Here(k, Op("If"))
    PROVE  Same /\ At(k + 1, <<a>>, <<IF b = 1 THEN "true" ELSE "false">>)'
<1>1. Current = Op("If") /\ Current.op = "If"
  BY DEF Current, At, Here, Op
<1>2. pc # Len(Script(lock)) + 1
  BY DEF Here, At
<1>3. If
  BY <1>1, <1>2 DEF ScriptNext, Finish, Skip, Execute, Else, EndIf, Conditional
<1>4. Top = b /\ Len(stack) - 1 = 1
  BY DEF At, Top
<1>5. Sub(1) = <<a>>
  <2>1. Sub(1) = SubSeq(<<a, b>>, 1, 1)
    BY <1>4, Zenon DEF Sub, At
  <2> QED BY <2>1, Popped, Zenon
<1>6. conds' = <<IF b = 1 THEN "true" ELSE "false">>
  <2> DEFINE e == IF b = 1 THEN "true" ELSE "false"
  <2>1. conds' = Append(<<>>, e)
    BY <1>3, <1>4 DEF If, At
  <2> HIDE DEF e
  <2>2. conds' = <<e>>
    BY <2>1, Pushed
  <2> QED BY <2>2 DEF e
<1> QED BY <1>3, <1>5, <1>6 DEF If, At, Same

LEMMA ElseHere ==
    ASSUME ScriptNext, NEW k, NEW s, NEW b, At(k, s, <<b>>), Here(k, Op("Else"))
    PROVE  Same /\ At(k + 1, s, <<IF b = "true" THEN "false" ELSE "true">>)'
<1>1. Current = Op("Else") /\ Current.op = "Else"
  BY DEF Current, At, Here, Op
<1>2. pc # Len(Script(lock)) + 1
  BY DEF Here, At
<1>3. Else
  BY <1>1, <1>2 DEF ScriptNext, Finish, Skip, Execute, If, EndIf, Conditional
<1>4. conds' = <<IF b = "true" THEN "false" ELSE "true">>
  <2>1. CASE b = "true"
    BY <1>3, <2>1 DEF Else, At
  <2>2. CASE b # "true"
    BY <1>3, <2>2 DEF Else, At
  <2> QED BY <2>1, <2>2
<1> QED BY <1>3, <1>4 DEF Else, At, Same

LEMMA ElseTaken ==
    ASSUME ScriptNext, NEW k, NEW s, At(k, s, <<"true">>), Here(k, Op("Else"))
    PROVE  Same /\ At(k + 1, s, <<"false">>)'
<1>1. Same /\ At(k + 1, s, <<IF "true" = "true" THEN "false" ELSE "true">>)'
  BY ElseHere, Zenon
<1> QED BY <1>1

LEMMA ElseNotTaken ==
    ASSUME ScriptNext, NEW k, NEW s, At(k, s, <<"false">>), Here(k, Op("Else"))
    PROVE  Same /\ At(k + 1, s, <<"true">>)'
<1>1. Same /\ At(k + 1, s, <<IF "false" = "true" THEN "false" ELSE "true">>)'
  BY ElseHere, Zenon
<1> QED BY <1>1

LEMMA EndIfHere ==
    ASSUME ScriptNext, NEW k, NEW s, NEW b, Here(k, Op("EndIf")), At(k, s, <<b>>)
    PROVE  Same /\ At(k + 1, s, <<>>)'
<1>1. Current = Op("EndIf") /\ Current.op = "EndIf"
  BY DEF Current, At, Here, Op
<1>2. pc # Len(Script(lock)) + 1
  BY DEF Here, At
<1>3. EndIf
  BY <1>1, <1>2 DEF ScriptNext, Finish, Skip, Execute, If, Else, Conditional
<1>4. conds' = <<>>
  <2>1. Len(conds) - 1 = 0
    BY DEF At
  <2>2. conds' = SubSeq(<<b>>, 1, 0)
    BY <1>3, <2>1, Zenon DEF EndIf, At
  <2> QED BY <2>2, Popped
<1> QED BY <1>3, <1>4 DEF EndIf, At, Same

\* The script has ended with one value on the stack.
LEMMA FinishHere ==
    ASSUME ScriptNext, NEW k \in Nat, k = Len(Script(lock)) + 1, Len(Script(lock)) \in Nat,
           NEW e, At(k, <<e>>, <<>>)
    PROVE  Same /\ verdict' = IF e = 1 THEN "true" ELSE "error"
<1>1. Finish
  BY DEF ScriptNext, At
<1>2. (stack = <<1>> <=> e = 1) /\ conds = <<>>
  BY DEF At
<1> QED BY <1>1, <1>2 DEF Finish, Same

-----------------------------------------------------------------------------
\* The blocks, from their first opcode to the place after their last.
SigCode(k, w) == Here(k, Push(w)) /\ Here(k + 1, Op("CheckSig"))
TimeCode(k, u) == Here(k, Push(u)) /\ Here(k + 1, Op("CheckLockTimeVerify"))
PaysCode(k, w) ==
    /\ Here(k, Op("TxOutputCount")) /\ Here(k + 1, Push(1)) /\ Here(k + 2, Op("EqualVerify"))
    /\ Here(k + 3, Push(0)) /\ Here(k + 4, Op("TxOutputSpk")) /\ Here(k + 5, Push(w))
    /\ Here(k + 6, Op("EqualVerify"))

\* A block that lies in the script is there opcode by opcode.
LEMMA SigLies ==
    ASSUME NEW l, NEW k \in Nat \ {0}, Len(Script(lock)) \in Nat,
           Has(Script(lock), k, OwnerSig(l))
    PROVE  SigCode(k, l.owner)
<1> DEFINE b == OwnerSig(l)
           s == Script(lock)
<1>1. Len(b) = 2 /\ b[1] = Push(l.owner) /\ b[2] = Op("CheckSig")
  BY DEF OwnerSig
<1> HIDE DEF b, s
<1>2. k + 2 - 1 <= Len(s) /\ \A i \in 1..2 : s[k - 1 + i] = b[i]
  BY <1>1 DEF Has, b, s
<1>3. s[k - 1 + 1] = b[1] /\ s[k - 1 + 2] = b[2]
  BY <1>2
<1>4. s[k] = b[1] /\ s[k + 1] = b[2]
  BY <1>3
<1> QED BY <1>1, <1>2, <1>4 DEF SigCode, Here, s

LEMMA TimeLies ==
    ASSUME NEW l, NEW k \in Nat \ {0}, Len(Script(lock)) \in Nat,
           Has(Script(lock), k, LockTime(l))
    PROVE  TimeCode(k, l.unlock)
<1> DEFINE b == LockTime(l)
           s == Script(lock)
<1>1. Len(b) = 2 /\ b[1] = Push(l.unlock) /\ b[2] = Op("CheckLockTimeVerify")
  BY DEF LockTime
<1> HIDE DEF b, s
<1>2. k + 2 - 1 <= Len(s) /\ \A i \in 1..2 : s[k - 1 + i] = b[i]
  BY <1>1 DEF Has, b, s
<1>3. s[k - 1 + 1] = b[1] /\ s[k - 1 + 2] = b[2]
  BY <1>2
<1>4. s[k] = b[1] /\ s[k + 1] = b[2]
  BY <1>3
<1> QED BY <1>1, <1>2, <1>4 DEF TimeCode, Here, s

LEMMA PaysLies ==
    ASSUME NEW w, NEW k \in Nat \ {0}, Len(Script(lock)) \in Nat,
           Has(Script(lock), k, PaysOnly(w))
    PROVE  PaysCode(k, w)
<1> DEFINE b == PaysOnly(w)
           s == Script(lock)
<1>1. /\ Len(b) = 7 /\ b[1] = Op("TxOutputCount") /\ b[2] = Push(1)
      /\ b[3] = Op("EqualVerify") /\ b[4] = Push(0) /\ b[5] = Op("TxOutputSpk")
      /\ b[6] = Push(w) /\ b[7] = Op("EqualVerify")
  BY DEF PaysOnly
<1> HIDE DEF b, s
<1>2. k + 7 - 1 <= Len(s) /\ \A i \in 1..7 : s[k - 1 + i] = b[i]
  BY <1>1 DEF Has, b, s
<1>3. /\ s[k - 1 + 1] = b[1] /\ s[k - 1 + 2] = b[2] /\ s[k - 1 + 3] = b[3]
      /\ s[k - 1 + 4] = b[4] /\ s[k - 1 + 5] = b[5] /\ s[k - 1 + 6] = b[6]
      /\ s[k - 1 + 7] = b[7]
  BY <1>2
<1>4. /\ s[k] = b[1] /\ s[k + 1] = b[2] /\ s[k + 2] = b[3] /\ s[k + 3] = b[4]
      /\ s[k + 4] = b[5] /\ s[k + 5] = b[6] /\ s[k + 6] = b[7]
  BY <1>3
<1> QED BY <1>1, <1>2, <1>4 DEF PaysCode, Here, s

\* A step inside a block stays in it, leaves it with what the block has checked, or fails.
LEMMA SigSteps ==
    ASSUME ScriptNext, NEW t, NEW k \in Nat, NEW w, NEW c \in Live, SigCode(k, w),
           InSig(t, k, w, c)
    PROVE  /\ Same
           /\ InSig(t, k, w, c)' \/ At(k + 2, <<Bool(t.signer = w)>>, c)'
<1>1. CASE At(k, <<t.signer>>, c)
  BY <1>1, PushOnOne DEF InSig, SigCode
<1>2. CASE At(k + 1, <<t.signer, w>>, c)
  <2>1. Same /\ At(k + 1 + 1, <<Bool(t.signer = w)>>, c)'
    BY <1>2, SigOnTwo DEF SigCode
  <2>2. k + 1 + 1 = k + 2
    OBVIOUS
  <2> QED BY <2>1, <2>2
<1> QED BY <1>1, <1>2 DEF InSig

LEMMA TimeSteps ==
    ASSUME ScriptNext, NEW t, tx = t, NEW k \in Nat, NEW u, NEW c \in Live, TimeCode(k, u),
           InLockTime(t, k, u, c)
    PROVE  \/ Same /\ InLockTime(t, k, u, c)'
           \/ Same /\ LocktimeIsPast(t, u) /\ At(k + 2, <<t.signer>>, c)'
           \/ Fails /\ ~LocktimeIsPast(t, u)
<1>1. CASE At(k, <<t.signer>>, c)
  BY <1>1, PushOnOne DEF InLockTime, TimeCode
<1>2. CASE At(k + 1, <<t.signer, u>>, c)
  <2>1. IF LocktimeIsPast(t, u) THEN Same /\ At(k + 1 + 1, <<t.signer>>, c)' ELSE Fails
    BY <1>2, TimeOnTwo DEF TimeCode
  <2>2. k + 1 + 1 = k + 2
    OBVIOUS
  <2> QED BY <2>1, <2>2
<1> QED BY <1>1, <1>2 DEF InLockTime

LEMMA DupSigSteps ==
    ASSUME ScriptNext, NEW t, NEW w, Here(1, Op("Dup")), SigCode(2, w), InDupSig(t, w)
    PROVE  /\ Same
           /\ InDupSig(t, w)' \/ At(4, <<t.signer, Bool(t.signer = w)>>, <<>>)'
<1>0. <<>> \in Live /\ 1 + 1 = 2 /\ 2 + 1 = 3 /\ 3 + 1 = 4
  BY DEF Live
<1>1. CASE At(1, <<t.signer>>, <<>>)
  <2>1. Same /\ At(1 + 1, <<t.signer, t.signer>>, <<>>)'
    BY <1>0, <1>1, DupOnOne, Zenon
  <2> QED BY <1>0, <2>1 DEF InDupSig
<1>2. CASE At(2, <<t.signer, t.signer>>, <<>>)
  <2>1. Same /\ At(2 + 1, <<t.signer, t.signer, w>>, <<>>)'
    BY <1>0, <1>2, PushOnTwo, Zenon DEF SigCode
  <2> QED BY <1>0, <2>1 DEF InDupSig
<1>3. CASE At(3, <<t.signer, t.signer, w>>, <<>>)
  <2>1. Here(3, Op("CheckSig"))
    BY <1>0 DEF SigCode
  <2>2. Same /\ At(3 + 1, <<t.signer, Bool(t.signer = w)>>, <<>>)'
    BY <1>0, <1>3, <2>1, SigOnThree, Zenon
  <2> QED BY <1>0, <2>2
<1> QED BY <1>1, <1>2, <1>3 DEF InDupSig

LEMMA PaysSteps ==
    ASSUME ScriptNext, NEW t, tx = t, t.pays \in Seq(Keys), NEW k \in Nat, NEW w,
           NEW c \in Live, PaysCode(k, w), InPays(t, k, w, c)
    PROVE  \/ Same /\ InPays(t, k, w, c)'
           \/ Same /\ t.pays = <<w>> /\ At(k + 7, <<t.signer>>, c)'
           \/ Fails /\ t.pays # <<w>>
<1>0. /\ k + 1 + 1 = k + 2 /\ k + 2 + 1 = k + 3 /\ k + 3 + 1 = k + 4 /\ k + 4 + 1 = k + 5
      /\ k + 5 + 1 = k + 6 /\ k + 6 + 1 = k + 7
  OBVIOUS
<1> DEFINE n == Len(t.pays)
           p == t.pays[1]
           s == t.signer
<1>1. CASE At(k, <<s>>, c)
  <2>1. Same /\ At(k + 1, <<s, n>>, c)'
    BY <1>1, CountOnOne, Zenon DEF PaysCode
  <2> QED BY <2>1 DEF InPays
<1>2. CASE At(k + 1, <<s, n>>, c)
  <2>1. Same /\ At(k + 1 + 1, <<s, n, 1>>, c)'
    BY <1>2, PushOnTwo, Zenon DEF PaysCode
  <2> QED BY <1>0, <2>1 DEF InPays
<1>3. CASE At(k + 2, <<s, n, 1>>, c)
  <2>1. IF n = 1 THEN Same /\ At(k + 2 + 1, <<s>>, c)' ELSE Fails
    BY <1>3, EqualOnThree, Zenon DEF PaysCode
  <2>2. n # 1 => t.pays # <<w>>
    <3>1. Len(<<w>>) = 1
      OBVIOUS
    <3> QED BY <3>1
  <2> QED BY <1>0, <2>1, <2>2 DEF InPays
<1>4. CASE n = 1 /\ At(k + 3, <<s>>, c)
  <2>1. Same /\ At(k + 3 + 1, <<s, 0>>, c)'
    BY <1>4, PushOnOne, Zenon DEF PaysCode
  <2> QED BY <1>0, <1>4, <2>1 DEF InPays
<1>5. CASE n = 1 /\ At(k + 4, <<s, 0>>, c)
  <2>1. Same /\ At(k + 4 + 1, <<s, p>>, c)'
    BY <1>5, SpkOnTwo, Zenon DEF PaysCode
  <2> QED BY <1>0, <1>5, <2>1 DEF InPays
<1>6. CASE n = 1 /\ At(k + 5, <<s, p>>, c)
  <2>1. Same /\ At(k + 5 + 1, <<s, p, w>>, c)'
    BY <1>6, PushOnTwo, Zenon DEF PaysCode
  <2> QED BY <1>0, <1>6, <2>1 DEF InPays
<1>7. CASE n = 1 /\ At(k + 6, <<s, p, w>>, c)
  <2>1. IF p = w THEN Same /\ At(k + 6 + 1, <<s>>, c)' ELSE Fails
    <3>1. At(k + 6, <<s, p, w>>, c) /\ Here(k + 6, Op("EqualVerify"))
      BY <1>7 DEF PaysCode
    <3> HIDE DEF p, s
    <3> QED BY <3>1, EqualOnThree, Zenon
  <2>2. t.pays = <<p>>
    BY <1>7, Tuples
  <2>3. p = w <=> t.pays = <<w>>
    BY <2>2
  <2> QED BY <1>0, <2>1, <2>3
<1> QED BY <1>1, <1>2, <1>3, <1>4, <1>5, <1>6, <1>7 DEF InPays

-----------------------------------------------------------------------------
\* The families.  A step of a run stays in the run or settles the verdict as
\* SpentBy says.
Settles(l, t) ==
    \/ Same /\ verdict' = "true" /\ SpentBy(l, t)
    \/ Fails /\ ~SpentBy(l, t)

LEMMA SettledBySig ==
    ASSUME ScriptNext, NEW l, NEW t, NEW k \in Nat, Len(Script(lock)) + 1 = k,
           Len(Script(lock)) \in Nat, NEW x, NEW y, At(k, <<Bool(x = y)>>, <<>>),
           SpentBy(l, t) <=> x = y
    PROVE  Settles(l, t)
<1> DEFINE e == Bool(x = y)
<1>1. e = 1 <=> x = y
  BY DEF Bool
<1> HIDE DEF e
<1>2. Same /\ verdict' = IF e = 1 THEN "true" ELSE "error"
  BY FinishHere DEF e
<1>3. CASE e = 1
  BY <1>1, <1>2, <1>3 DEF Settles
<1>4. CASE e # 1
  BY <1>1, <1>2, <1>4 DEF Settles, Fails
<1> QED BY <1>3, <1>4

LEMMA PlainSteps ==
    ASSUME ScriptNext, NEW l, lock = l, NEW t, tx = t,
           l.family \in {"ProtectKas", "OwnerRelease"}, PlainRun(l, t)
    PROVE  (Same /\ PlainRun(l, t)') \/ Settles(l, t)
<1>1. Script(lock) = OwnerSig(l)
  BY DEF Script
<1>2. Len(Script(lock)) = 2 /\ SigCode(1, l.owner)
  <2>1. Len(OwnerSig(l)) = 2 /\ OwnerSig(l) \in Seq(Codes(l))
    BY Blocks
  <2>2. Has(OwnerSig(l), 1, OwnerSig(l))
    BY <2>1, Itself
  <2> QED BY <1>1, <2>1, <2>2, SigLies
<1>3. SpentBy(l, t) <=> t.signer = l.owner
  BY DEF SpentBy
<1>4. CASE InSig(t, 1, l.owner, <<>>)
  <2>1. /\ Same
        /\ InSig(t, 1, l.owner, <<>>)' \/ At(1 + 2, <<Bool(t.signer = l.owner)>>, <<>>)'
    BY <1>2, <1>4, SigSteps DEF Live
  <2> QED BY <2>1 DEF PlainRun
<1>5. CASE At(3, <<Bool(t.signer = l.owner)>>, <<>>)
  <2>1. Len(Script(lock)) \in Nat /\ 3 \in Nat /\ Len(Script(lock)) + 1 = 3
    BY <1>2
  <2>2. SpentBy(l, t) <=> t.signer = l.owner
    BY <1>3, <1>5
  <2>3. At(3, <<Bool(t.signer = l.owner)>>, <<>>)
    BY <1>5
  <2> QED BY <2>1, <2>2, <2>3, SettledBySig, Zenon
<1> QED BY <1>4, <1>5 DEF PlainRun

LEMMA AbsoluteTimeSteps ==
    ASSUME ScriptNext, NEW l, lock = l, NEW t, tx = t,
           l.family = "AbsoluteTime", AbsoluteTimeRun(l, t)
    PROVE  (Same /\ AbsoluteTimeRun(l, t)') \/ Settles(l, t)
<1> DEFINE past == LocktimeIsPast(t, l.unlock)
<1>1. Len(Script(lock)) = 4 /\ TimeCode(1, l.unlock) /\ SigCode(3, l.owner)
  BY AbsoluteTimeCode, TimeLies, SigLies
<1>2. SpentBy(l, t) <=> t.signer = l.owner /\ past
  BY DEF SpentBy
<1> HIDE DEF past
<1>3. CASE InLockTime(t, 1, l.unlock, <<>>)
  <2>1. \/ Same /\ InLockTime(t, 1, l.unlock, <<>>)'
        \/ Same /\ past /\ At(1 + 2, <<t.signer>>, <<>>)'
        \/ Fails /\ ~past
    BY <1>1, <1>3, TimeSteps DEF Live, past
  <2> QED BY <1>2, <2>1 DEF AbsoluteTimeRun, InSig, Settles, past
<1>4. CASE past /\ InSig(t, 3, l.owner, <<>>)
  <2>1. /\ Same
        /\ InSig(t, 3, l.owner, <<>>)' \/ At(3 + 2, <<Bool(t.signer = l.owner)>>, <<>>)'
    BY <1>1, <1>4, SigSteps DEF Live
  <2> QED BY <1>4, <2>1 DEF AbsoluteTimeRun, past
<1>5. CASE past /\ At(5, <<Bool(t.signer = l.owner)>>, <<>>)
  <2>1. Len(Script(lock)) \in Nat /\ 5 \in Nat /\ Len(Script(lock)) + 1 = 5
    BY <1>1
  <2>2. SpentBy(l, t) <=> t.signer = l.owner
    BY <1>2, <1>5
  <2>3. At(5, <<Bool(t.signer = l.owner)>>, <<>>)
    BY <1>5
  <2> QED BY <2>1, <2>2, <2>3, SettledBySig, Zenon
<1> QED BY <1>3, <1>4, <1>5 DEF AbsoluteTimeRun, past

LEMMA RelativeSequenceSteps ==
    ASSUME ScriptNext, NEW l, lock = l, NEW t, tx = t,
           l.family = "RelativeSequence", RelativeSequenceRun(l, t)
    PROVE  (Same /\ RelativeSequenceRun(l, t)') \/ Settles(l, t)
<1> DEFINE old == t.sequence >= Delta /\ t.sequence # Final
           own == <<Bool(t.signer = l.owner)>>
<1>1. Len(Script(lock)) = 4 /\ SigCode(3, l.owner)
  BY RelativeSequenceCode, SigLies
<1>2. Here(1, Push(Delta)) /\ Here(2, Op("CheckSequenceVerify"))
  BY <1>1, RelativeSequenceCode DEF Here
<1>3. SpentBy(l, t) <=> t.signer = l.owner /\ old
  BY DEF SpentBy
<1>4. RelativeSequenceRun(l, t) <=>
        \/ At(1, <<t.signer>>, <<>>) \/ At(2, <<t.signer, Delta>>, <<>>)
        \/ old /\ (InSig(t, 3, l.owner, <<>>) \/ At(5, own, <<>>))
  BY DEF RelativeSequenceRun
<1>5. \/ At(1, <<t.signer>>, <<>>)' \/ At(2, <<t.signer, Delta>>, <<>>)'
      \/ old /\ (InSig(t, 3, l.owner, <<>>)' \/ At(5, own, <<>>)')
      => RelativeSequenceRun(l, t)'
  BY DEF RelativeSequenceRun
<1>6. CASE At(1, <<t.signer>>, <<>>)
  <2>1. Same /\ At(1 + 1, <<t.signer, Delta>>, <<>>)'
    BY <1>2, <1>6, PushOnOne DEF Live
  <2> QED BY <1>5, <2>1
<1>7. CASE At(2, <<t.signer, Delta>>, <<>>)
  <2>1. IF old THEN Same /\ At(2 + 1, <<t.signer>>, <<>>)' ELSE Fails
    BY <1>2, <1>7, SequenceOnTwo DEF Live
  <2>2. CASE old
    BY <1>5, <2>1, <2>2 DEF InSig
  <2>3. CASE ~old
    BY <1>3, <2>1, <2>3 DEF Settles
  <2> QED BY <2>2, <2>3
<1>8. CASE old /\ InSig(t, 3, l.owner, <<>>)
  <2>1. Same /\ (InSig(t, 3, l.owner, <<>>)' \/ At(3 + 2, own, <<>>)')
    BY <1>1, <1>8, SigSteps DEF Live
  <2> QED BY <1>5, <1>8, <2>1
<1>9. CASE old /\ At(5, own, <<>>)
  <2>1. Len(Script(lock)) \in Nat /\ 5 \in Nat /\ Len(Script(lock)) + 1 = 5
    BY <1>1
  <2>2. SpentBy(l, t) <=> t.signer = l.owner
    BY <1>3, <1>9
  <2>3. At(5, <<Bool(t.signer = l.owner)>>, <<>>)
    BY <1>9
  <2> QED BY <2>1, <2>2, <2>3, SettledBySig, Zenon
<1> QED BY <1>4, <1>6, <1>7, <1>8, <1>9

LEMMA AllowedDestinationSteps ==
    ASSUME ScriptNext, NEW l, lock = l, NEW t, tx = t, t.pays \in Seq(Keys),
           l.family = "AllowedDestination", AllowedDestinationRun(l, t)
    PROVE  (Same /\ AllowedDestinationRun(l, t)') \/ Settles(l, t)
<1> DEFINE to == t.pays = <<l.other>>
           own == <<Bool(t.signer = l.owner)>>
<1>1. Len(Script(lock)) = 9 /\ PaysCode(1, l.other) /\ SigCode(8, l.owner)
  BY AllowedDestinationCode, PaysLies, SigLies
<1>2. SpentBy(l, t) <=> t.signer = l.owner /\ to
  BY DEF SpentBy
<1>3. CASE InPays(t, 1, l.other, <<>>)
  <2>1. \/ Same /\ InPays(t, 1, l.other, <<>>)'
        \/ Same /\ to /\ At(1 + 7, <<t.signer>>, <<>>)'
        \/ Fails /\ ~to
    BY <1>1, <1>3, PaysSteps DEF Live
  <2> QED BY <1>2, <2>1 DEF AllowedDestinationRun, InSig, Settles
<1>4. CASE to /\ InSig(t, 8, l.owner, <<>>)
  <2>1. Same /\ (InSig(t, 8, l.owner, <<>>)' \/ At(8 + 2, own, <<>>)')
    BY <1>1, <1>4, SigSteps DEF Live
  <2> QED BY <1>4, <2>1 DEF AllowedDestinationRun
<1>5. CASE to /\ At(10, own, <<>>)
  <2>1. Len(Script(lock)) \in Nat /\ 10 \in Nat /\ Len(Script(lock)) + 1 = 10
    BY <1>1
  <2>2. SpentBy(l, t) <=> t.signer = l.owner
    BY <1>2, <1>5
  <2>3. At(10, <<Bool(t.signer = l.owner)>>, <<>>)
    BY <1>5
  <2> QED BY <2>1, <2>2, <2>3, SettledBySig, Zenon
<1> QED BY <1>3, <1>4, <1>5 DEF AllowedDestinationRun

LEMMA AbsoluteTimeDestinationSteps ==
    ASSUME ScriptNext, NEW l, lock = l, NEW t, tx = t, t.pays \in Seq(Keys),
           l.family = "AbsoluteTimeDestination", AbsoluteTimeDestinationRun(l, t)
    PROVE  (Same /\ AbsoluteTimeDestinationRun(l, t)') \/ Settles(l, t)
<1> DEFINE past == LocktimeIsPast(t, l.unlock)
           to == t.pays = <<l.other>>
           own == <<Bool(t.signer = l.owner)>>
<1>1. /\ Len(Script(lock)) = 11 /\ TimeCode(1, l.unlock)
      /\ PaysCode(3, l.other) /\ SigCode(10, l.owner)
  BY AbsoluteTimeDestinationCode, TimeLies, PaysLies, SigLies
<1>2. SpentBy(l, t) <=> t.signer = l.owner /\ to /\ past
  BY DEF SpentBy
<1> HIDE DEF past
<1>3. CASE InLockTime(t, 1, l.unlock, <<>>)
  <2>1. \/ Same /\ InLockTime(t, 1, l.unlock, <<>>)'
        \/ Same /\ past /\ At(1 + 2, <<t.signer>>, <<>>)'
        \/ Fails /\ ~past
    BY <1>1, <1>3, TimeSteps DEF Live, past
  <2> QED BY <1>2, <2>1 DEF AbsoluteTimeDestinationRun, InPays, Settles, past
<1>4. CASE past /\ InPays(t, 3, l.other, <<>>)
  <2>1. \/ Same /\ InPays(t, 3, l.other, <<>>)'
        \/ Same /\ to /\ At(3 + 7, <<t.signer>>, <<>>)'
        \/ Fails /\ ~to
    BY <1>1, <1>4, PaysSteps DEF Live
  <2> QED BY <1>2, <1>4, <2>1 DEF AbsoluteTimeDestinationRun, InSig, Settles, past
<1>5. CASE past /\ to /\ InSig(t, 10, l.owner, <<>>)
  <2>1. Same /\ (InSig(t, 10, l.owner, <<>>)' \/ At(10 + 2, own, <<>>)')
    BY <1>1, <1>5, SigSteps DEF Live
  <2> QED BY <1>5, <2>1 DEF AbsoluteTimeDestinationRun, past
<1>6. CASE past /\ to /\ At(12, own, <<>>)
  <2>1. Len(Script(lock)) \in Nat /\ 12 \in Nat /\ Len(Script(lock)) + 1 = 12
    BY <1>1
  <2>2. SpentBy(l, t) <=> t.signer = l.owner
    BY <1>2, <1>6
  <2>3. At(12, <<Bool(t.signer = l.owner)>>, <<>>)
    BY <1>6
  <2> QED BY <2>1, <2>2, <2>3, SettledBySig, Zenon
<1> QED BY <1>3, <1>4, <1>5, <1>6 DEF AbsoluteTimeDestinationRun, past

LEMMA ImmediateRecoverySteps ==
    ASSUME ScriptNext, NEW l, lock = l, NEW t, tx = t,
           l.family = "ImmediateRecovery", ImmediateRecoveryRun(l, t)
    PROVE  (Same /\ ImmediateRecoveryRun(l, t)') \/ Settles(l, t)
<1> DEFINE s == t.signer
           own == Bool(s = l.owner)
           heir == Bool(s = l.other)
           either == Bool(1 \in {own, heir})
<1>1. Len(Script(lock)) = 7 /\ Here(1, Op("Dup")) /\ SigCode(2, l.owner)
  BY ImmediateRecoveryCode, SigLies DEF Here
<1>2. /\ Here(4, Op("Swap")) /\ Here(5, Push(l.other)) /\ Here(6, Op("CheckSig"))
      /\ Here(7, Op("BoolOr"))
  BY <1>1, ImmediateRecoveryCode DEF Here
<1>3. SpentBy(l, t) <=> either = 1
  BY DEF SpentBy, Bool
<1>4. <<>> \in Live
  BY DEF Live
<1>5. CASE InDupSig(t, l.owner)
  <2>1. Same /\ (InDupSig(t, l.owner)' \/ At(4, <<s, own>>, <<>>)')
    BY <1>1, <1>5, DupSigSteps
  <2> QED BY <2>1 DEF ImmediateRecoveryRun
<1>6. CASE At(4, <<s, own>>, <<>>)
  <2>1. Same /\ At(4 + 1, <<own, s>>, <<>>)'
    BY <1>2, <1>4, <1>6, SwapOnTwo
  <2> QED BY <2>1 DEF ImmediateRecoveryRun
<1>7. CASE At(5, <<own, s>>, <<>>)
  <2>1. Same /\ At(5 + 1, <<own, s, l.other>>, <<>>)'
    BY <1>2, <1>4, <1>7, PushOnTwo
  <2> QED BY <2>1 DEF ImmediateRecoveryRun
<1>8. CASE At(6, <<own, s, l.other>>, <<>>)
  <2>1. Same /\ At(6 + 1, <<own, heir>>, <<>>)'
    BY <1>2, <1>4, <1>8, SigOnThree
  <2> QED BY <2>1 DEF ImmediateRecoveryRun
<1>9. CASE At(7, <<own, heir>>, <<>>)
  <2>1. Same /\ At(7 + 1, <<either>>, <<>>)'
    BY <1>2, <1>4, <1>9, OrOnTwo
  <2> QED BY <2>1 DEF ImmediateRecoveryRun
<1>10. CASE At(8, <<either>>, <<>>)
  <2> HIDE DEF either
  <2>1. Len(Script(lock)) \in Nat /\ 8 \in Nat /\ 8 = Len(Script(lock)) + 1
    BY <1>1
  <2>2. Same /\ verdict' = IF either = 1 THEN "true" ELSE "error"
    BY <1>10, <2>1, FinishHere
  <2> QED BY <1>3, <2>2 DEF Settles, Fails
<1> QED BY <1>5, <1>6, <1>7, <1>8, <1>9, <1>10 DEF ImmediateRecoveryRun

LEMMA DelayedRecoverySteps ==
    ASSUME ScriptNext, NEW l, lock = l, NEW t, tx = t,
           l.family = "DelayedRecovery", DelayedRecoveryRun(l, t)
    PROVE  (Same /\ DelayedRecoveryRun(l, t)') \/ Settles(l, t)
<1> DEFINE s == t.signer
           own == Bool(s = l.owner)
           heir == Bool(s = l.other)
           yes == <<"true">>
           no == <<"false">>
           past == LocktimeIsPast(t, l.unlock)
           code == Script(lock)
\* The code.
<1>1. /\ Len(code) = 12 /\ Here(1, Op("Dup")) /\ SigCode(2, l.owner)
      /\ TimeCode(8, l.unlock)
  BY DelayedRecoveryCode, SigLies, TimeLies DEF Here
<1>2. /\ Here(4, Op("If")) /\ Here(5, Op("Drop")) /\ Here(6, Push(1)) /\ Here(7, Op("Else"))
      /\ SigCode(10, l.other) /\ Here(12, Op("EndIf"))
  BY <1>1, DelayedRecoveryCode DEF Here, SigCode
<1>3. /\ \A k \in 5..6 : Here(k, code[k]) /\ code[k].op \notin Ifs
      /\ \A k \in 8..11 : Here(k, code[k]) /\ code[k].op \notin Ifs
  <2>1. \A k \in 1..12 : Here(k, code[k])
    BY <1>1 DEF Here
  <2>2. /\ code[5] = Op("Drop") /\ code[6] = Push(1) /\ code[8] = Push(l.unlock)
        /\ code[9] = Op("CheckLockTimeVerify") /\ code[10] = Push(l.other)
        /\ code[11] = Op("CheckSig")
    BY <1>1, <1>2 DEF Here, TimeCode, SigCode
  <2>3. /\ Op("Drop").op \notin Ifs /\ Op("CheckLockTimeVerify").op \notin Ifs
        /\ Op("CheckSig").op \notin Ifs /\ \A v : Push(v).op \notin Ifs
    BY DEF Op, Push, Ifs
  <2>4. \A k \in 5..6 : k = 5 \/ k = 6
    OBVIOUS
  <2>5. \A k \in 8..11 : k = 8 \/ k = 9 \/ k = 10 \/ k = 11
    OBVIOUS
  <2> HIDE DEF code
  <2> QED BY <2>1, <2>2, <2>3, <2>4, <2>5
<1>4. <<>> \in Live /\ yes \in Live
  BY DEF Live
<1>5. SpentBy(l, t) <=> (s = l.owner \/ (s = l.other /\ past))
  BY DEF SpentBy
<1> HIDE DEF past, code
\* Up to the branch.
<1>6. CASE InDupSig(t, l.owner)
  <2>1. Same /\ (InDupSig(t, l.owner)' \/ At(4, <<s, own>>, <<>>)')
    BY <1>1, <1>6, DupSigSteps
  <2> QED BY <2>1 DEF DelayedRecoveryRun
<1>7. CASE At(4, <<s, own>>, <<>>)
  <2>1. Same /\ At(4 + 1, <<s>>, <<IF own = 1 THEN "true" ELSE "false">>)'
    BY <1>2, <1>7, IfHere
  <2>2. CASE s = l.owner
    <3>1. own = 1
      BY <2>2 DEF Bool
    <3>2. Same /\ At(5, <<s>>, yes)'
      BY <2>1, <3>1
    <3> QED BY <2>2, <3>2 DEF DelayedRecoveryRun
  <2>3. CASE s # l.owner
    <3>1. own # 1
      BY <2>3 DEF Bool
    <3>2. Same /\ At(5, <<s>>, no)'
      BY <2>1, <3>1
    <3>3. 5 \in 5..7
      OBVIOUS
    <3> QED BY <2>3, <3>2, <3>3 DEF DelayedRecoveryRun
  <2> QED BY <2>2, <2>3
\* The owner's branch.
<1>8. CASE s = l.owner /\ At(5, <<s>>, yes)
  <2>1. Same /\ At(5 + 1, <<>>, yes)'
    BY <1>2, <1>4, <1>8, DropOnOne
  <2> QED BY <1>8, <2>1 DEF DelayedRecoveryRun
<1>9. CASE s = l.owner /\ At(6, <<>>, yes)
  <2>1. Same /\ At(6 + 1, <<1>>, yes)'
    BY <1>2, <1>4, <1>9, PushOnNone
  <2> QED BY <1>9, <2>1 DEF DelayedRecoveryRun
<1>10. CASE s = l.owner /\ At(7, <<1>>, yes)
  <2>1. Same /\ At(7 + 1, <<1>>, no)'
    BY <1>2, <1>10, ElseTaken
  <2>2. 8 \in 8..12
    OBVIOUS
  <2> QED BY <1>10, <2>1, <2>2 DEF DelayedRecoveryRun
<1>11. ASSUME s = l.owner, NEW k \in 8..12, At(k, << 1 >>, no)
       PROVE  Same /\ DelayedRecoveryRun(l, t)'
  <2>1. CASE k \in 8..11
    <3>1. Here(k, code[k]) /\ code[k].op \notin Ifs
      BY <1>3, <2>1
    <3>2. Same /\ At(k + 1, <<1>>, no)'
      BY <1>11, <3>1, SkipsHere, Zenon
    <3>3. k + 1 \in 8..12
      BY <2>1
    <3> QED BY <1>11, <3>2, <3>3 DEF DelayedRecoveryRun
  <2>2. CASE k = 12
    <3>1. Same /\ At(12 + 1, <<1>>, <<>>)'
      BY <1>2, <1>11, <2>2, EndIfHere
    <3> QED BY <1>11, <3>1 DEF DelayedRecoveryRun
  <2> QED BY <2>1, <2>2
<1>12. CASE s = l.owner /\ At(13, <<1>>, <<>>)
  <2>1. Len(Script(lock)) \in Nat /\ 13 \in Nat /\ 13 = Len(Script(lock)) + 1
    BY <1>1 DEF code
  <2>2. Same /\ verdict' = IF 1 = 1 THEN "true" ELSE "error"
    BY <1>12, <2>1, FinishHere
  <2> QED BY <1>5, <1>12, <2>2 DEF Settles
\* The heir's branch.
<1>13. ASSUME s # l.owner, NEW k \in 5..7, At(k, <<s>>, no)
       PROVE  Same /\ DelayedRecoveryRun(l, t)'
  <2>1. CASE k \in 5..6
    <3>1. Here(k, code[k]) /\ code[k].op \notin Ifs
      BY <1>3, <2>1
    <3>2. Same /\ At(k + 1, <<s>>, no)'
      BY <1>13, <3>1, SkipsHere, Zenon
    <3>3. k + 1 \in 5..7
      BY <2>1
    <3> QED BY <1>13, <3>2, <3>3 DEF DelayedRecoveryRun
  <2>2. CASE k = 7
    <3>1. Same /\ At(7 + 1, <<s>>, yes)'
      BY <1>2, <1>13, <2>2, ElseNotTaken
    <3> QED BY <1>13, <3>1 DEF DelayedRecoveryRun, InLockTime
  <2> QED BY <2>1, <2>2
<1>14. CASE s # l.owner /\ InLockTime(t, 8, l.unlock, yes)
  <2>1. \/ Same /\ InLockTime(t, 8, l.unlock, yes)'
        \/ Same /\ past /\ At(8 + 2, <<s>>, yes)'
        \/ Fails /\ ~past
    BY <1>1, <1>4, <1>14, TimeSteps DEF past
  <2> QED BY <1>5, <1>14, <2>1 DEF DelayedRecoveryRun, InSig, Settles, past
<1>15. CASE s # l.owner /\ past /\ InSig(t, 10, l.other, yes)
  <2>1. Same /\ (InSig(t, 10, l.other, yes)' \/ At(10 + 2, <<heir>>, yes)')
    BY <1>2, <1>4, <1>15, SigSteps
  <2> QED BY <1>15, <2>1 DEF DelayedRecoveryRun, past
<1>16. CASE s # l.owner /\ past /\ At(12, <<heir>>, yes)
  <2>1. Same /\ At(12 + 1, <<heir>>, <<>>)'
    BY <1>2, <1>16, EndIfHere
  <2> QED BY <1>16, <2>1 DEF DelayedRecoveryRun, past
<1>17. CASE s # l.owner /\ past /\ At(13, <<heir>>, <<>>)
  <2>1. Len(Script(lock)) \in Nat /\ 13 \in Nat /\ Len(Script(lock)) + 1 = 13
    BY <1>1 DEF code
  <2>2. SpentBy(l, t) <=> t.signer = l.other
    BY <1>5, <1>17
  <2>3. At(13, <<Bool(t.signer = l.other)>>, <<>>)
    BY <1>17
  <2> QED BY <2>1, <2>2, <2>3, SettledBySig, Zenon
<1>18. \/ InDupSig(t, l.owner) \/ At(4, <<s, own>>, <<>>)
       \/ /\ s = l.owner
          /\ \/ At(5, <<s>>, yes) \/ At(6, <<>>, yes) \/ At(7, <<1>>, yes)
             \/ \E k \in 8..12 : At(k, <<1>>, no)
             \/ At(13, <<1>>, <<>>)
       \/ /\ s # l.owner
          /\ \/ \E k \in 5..7 : At(k, <<s>>, no)
             \/ InLockTime(t, 8, l.unlock, yes)
             \/ past /\ (InSig(t, 10, l.other, yes) \/ At(12, <<heir>>, yes) \/ At(13, <<heir>>, <<>>))
  BY DEF DelayedRecoveryRun, past
<1> QED BY <1>6, <1>7, <1>8, <1>9, <1>10, <1>11, <1>12, <1>13, <1>14, <1>15, <1>16, <1>17, <1>18

LEMMA EscrowSteps ==
    ASSUME ScriptNext, NEW l, lock = l, NEW t, tx = t, t.pays \in Seq(Keys),
           l.family = "Escrow", EscrowRun(l, t)
    PROVE  (Same /\ EscrowRun(l, t)') \/ Settles(l, t)
<1> DEFINE s == t.signer
           own == Bool(s = l.owner)
           buyer == Bool(s = l.other)
           yes == <<"true">>
           no == <<"false">>
           past == LocktimeIsPast(t, l.unlock)
           toOwner == t.pays = <<l.owner>>
           toOther == t.pays = <<l.other>>
           code == Script(lock)
\* The code.
<1>1. /\ Len(code) = 26 /\ Here(1, Op("Dup")) /\ SigCode(2, l.owner)
      /\ PaysCode(5, l.owner) /\ SigCode(12, l.owner)
      /\ TimeCode(15, l.unlock) /\ PaysCode(17, l.other)
  BY EscrowCode, SigLies, TimeLies, PaysLies DEF Here
<1>2. /\ Here(4, Op("If")) /\ Here(14, Op("Else")) /\ SigCode(24, l.other)
      /\ Here(26, Op("EndIf"))
  BY <1>1, EscrowCode DEF Here, SigCode
<1>3. /\ \A k \in 5..13 : Here(k, code[k]) /\ code[k].op \notin Ifs
      /\ \A k \in 15..25 : Here(k, code[k]) /\ code[k].op \notin Ifs
  <2>1. \A k \in 1..26 : Here(k, code[k])
    BY <1>1 DEF Here
  <2>2. /\ Op("CheckSig").op \notin Ifs /\ Op("CheckLockTimeVerify").op \notin Ifs
        /\ Op("TxOutputCount").op \notin Ifs /\ Op("EqualVerify").op \notin Ifs
        /\ Op("TxOutputSpk").op \notin Ifs /\ \A v : Push(v).op \notin Ifs
    BY DEF Op, Push, Ifs
  <2>3. \A k \in 5..11 : code[k].op \notin Ifs
    <3>1. /\ code[5] = Op("TxOutputCount") /\ code[6] = Push(1) /\ code[7] = Op("EqualVerify")
          /\ code[8] = Push(0) /\ code[9] = Op("TxOutputSpk") /\ code[10] = Push(l.owner)
          /\ code[11] = Op("EqualVerify")
      BY <1>1 DEF Here, PaysCode
    <3>2. \A k \in 5..11 : k = 5 \/ k = 6 \/ k = 7 \/ k = 8 \/ k = 9 \/ k = 10 \/ k = 11
      OBVIOUS
    <3> HIDE DEF code
    <3> QED BY <2>2, <3>1, <3>2
  <2>4. \A k \in 17..23 : code[k].op \notin Ifs
    <3>1. /\ code[17] = Op("TxOutputCount") /\ code[18] = Push(1)
          /\ code[19] = Op("EqualVerify") /\ code[20] = Push(0)
          /\ code[21] = Op("TxOutputSpk") /\ code[22] = Push(l.other)
          /\ code[23] = Op("EqualVerify")
      BY <1>1 DEF Here, PaysCode
    <3>2. \A k \in 17..23 :
              k = 17 \/ k = 18 \/ k = 19 \/ k = 20 \/ k = 21 \/ k = 22 \/ k = 23
      OBVIOUS
    <3> HIDE DEF code
    <3> QED BY <2>2, <3>1, <3>2
  <2>5. /\ code[12] = Push(l.owner) /\ code[13] = Op("CheckSig")
        /\ code[15] = Push(l.unlock) /\ code[16] = Op("CheckLockTimeVerify")
        /\ code[24] = Push(l.other) /\ code[25] = Op("CheckSig")
    BY <1>1, <1>2 DEF Here, SigCode, TimeCode
  <2>6. \A k \in 5..13 : k \in 5..11 \/ k = 12 \/ k = 13
    OBVIOUS
  <2>7. \A k \in 15..25 : k = 15 \/ k = 16 \/ k \in 17..23 \/ k = 24 \/ k = 25
    OBVIOUS
  <2>8. (\A k \in 5..13 : k \in 1..26) /\ (\A k \in 15..25 : k \in 1..26)
    OBVIOUS
  <2> HIDE DEF code
  <2> QED BY <2>1, <2>2, <2>3, <2>4, <2>5, <2>6, <2>7, <2>8
<1>4. <<>> \in Live /\ yes \in Live
  BY DEF Live
<1>5. SpentBy(l, t) <=>
        (s = l.owner /\ toOwner) \/ (s = l.other /\ s # l.owner /\ toOther /\ past)
  BY DEF SpentBy
<1> HIDE DEF past, code, toOwner, toOther
\* Up to the branch.
<1>6. CASE InDupSig(t, l.owner)
  <2>1. Same /\ (InDupSig(t, l.owner)' \/ At(4, <<s, own>>, <<>>)')
    BY <1>1, <1>6, DupSigSteps
  <2> QED BY <2>1 DEF EscrowRun
<1>7. CASE At(4, <<s, own>>, <<>>)
  <2>1. Same /\ At(4 + 1, <<s>>, <<IF own = 1 THEN "true" ELSE "false">>)'
    BY <1>2, <1>7, IfHere
  <2>2. CASE s = l.owner
    <3>1. own = 1
      BY <2>2 DEF Bool
    <3>2. Same /\ At(5, <<s>>, yes)'
      BY <2>1, <3>1
    <3> QED BY <2>2, <3>2 DEF EscrowRun, InPays
  <2>3. CASE s # l.owner
    <3>1. own # 1
      BY <2>3 DEF Bool
    <3>2. Same /\ At(5, <<s>>, no)'
      BY <2>1, <3>1
    <3>3. 5 \in 5..14
      OBVIOUS
    <3> QED BY <2>3, <3>2, <3>3 DEF EscrowRun
  <2> QED BY <2>2, <2>3
\* The seller's branch.
<1>8. CASE s = l.owner /\ InPays(t, 5, l.owner, yes)
  <2>1. \/ Same /\ InPays(t, 5, l.owner, yes)'
        \/ Same /\ toOwner /\ At(5 + 7, <<s>>, yes)'
        \/ Fails /\ ~toOwner
    BY <1>1, <1>4, <1>8, PaysSteps DEF toOwner
  <2> QED BY <1>5, <1>8, <2>1 DEF EscrowRun, InSig, Settles, toOwner
<1>9. CASE s = l.owner /\ toOwner /\ InSig(t, 12, l.owner, yes)
  <2>1. Same /\ (InSig(t, 12, l.owner, yes)' \/ At(12 + 2, <<own>>, yes)')
    BY <1>1, <1>4, <1>9, SigSteps
  <2>2. own = 1
    BY <1>9 DEF Bool
  <2> QED BY <1>9, <2>1, <2>2 DEF EscrowRun, toOwner
<1>10. CASE s = l.owner /\ toOwner /\ At(14, <<1>>, yes)
  <2>1. Same /\ At(14 + 1, <<1>>, no)'
    BY <1>2, <1>10, ElseTaken
  <2>2. 15 \in 15..26
    OBVIOUS
  <2> QED BY <1>10, <2>1, <2>2 DEF EscrowRun, toOwner
<1>11. ASSUME s = l.owner, toOwner, NEW k \in 15..26, At(k, << 1 >>, no)
       PROVE  Same /\ EscrowRun(l, t)'
  <2>1. CASE k \in 15..25
    <3>1. Here(k, code[k]) /\ code[k].op \notin Ifs
      BY <1>3, <2>1
    <3>2. Same /\ At(k + 1, <<1>>, no)'
      BY <1>11, <3>1, SkipsHere, Zenon
    <3>3. k + 1 \in 15..26
      BY <2>1
    <3> QED BY <1>11, <3>2, <3>3 DEF EscrowRun, toOwner
  <2>2. CASE k = 26
    <3>1. Same /\ At(26 + 1, <<1>>, <<>>)'
      BY <1>2, <1>11, <2>2, EndIfHere
    <3> QED BY <1>11, <3>1 DEF EscrowRun, toOwner
  <2> QED BY <2>1, <2>2
<1>12. CASE s = l.owner /\ toOwner /\ At(27, <<1>>, <<>>)
  <2>1. Len(Script(lock)) \in Nat /\ 27 \in Nat /\ 27 = Len(Script(lock)) + 1
    BY <1>1 DEF code
  <2>2. Same /\ verdict' = IF 1 = 1 THEN "true" ELSE "error"
    BY <1>12, <2>1, FinishHere
  <2> QED BY <1>5, <1>12, <2>2 DEF Settles
\* The buyer's branch.
<1>13. ASSUME s # l.owner, NEW k \in 5..14, At(k, <<s>>, no)
       PROVE  Same /\ EscrowRun(l, t)'
  <2>1. CASE k \in 5..13
    <3>1. Here(k, code[k]) /\ code[k].op \notin Ifs
      BY <1>3, <2>1
    <3>2. Same /\ At(k + 1, <<s>>, no)'
      BY <1>13, <3>1, SkipsHere, Zenon
    <3>3. k + 1 \in 5..14
      BY <2>1
    <3> QED BY <1>13, <3>2, <3>3 DEF EscrowRun
  <2>2. CASE k = 14
    <3>1. Same /\ At(14 + 1, <<s>>, yes)'
      BY <1>2, <1>13, <2>2, ElseNotTaken
    <3> QED BY <1>13, <3>1 DEF EscrowRun, InLockTime
  <2> QED BY <2>1, <2>2
<1>14. CASE s # l.owner /\ InLockTime(t, 15, l.unlock, yes)
  <2>1. \/ Same /\ InLockTime(t, 15, l.unlock, yes)'
        \/ Same /\ past /\ At(15 + 2, <<s>>, yes)'
        \/ Fails /\ ~past
    BY <1>1, <1>4, <1>14, TimeSteps DEF past
  <2> QED BY <1>5, <1>14, <2>1 DEF EscrowRun, InPays, Settles, past
<1>15. CASE s # l.owner /\ past /\ InPays(t, 17, l.other, yes)
  <2>1. \/ Same /\ InPays(t, 17, l.other, yes)'
        \/ Same /\ toOther /\ At(17 + 7, <<s>>, yes)'
        \/ Fails /\ ~toOther
    BY <1>1, <1>4, <1>15, PaysSteps DEF toOther
  <2> QED BY <1>5, <1>15, <2>1 DEF EscrowRun, InSig, Settles, past, toOther
<1>16. CASE s # l.owner /\ past /\ toOther /\ InSig(t, 24, l.other, yes)
  <2>1. Same /\ (InSig(t, 24, l.other, yes)' \/ At(24 + 2, <<buyer>>, yes)')
    BY <1>2, <1>4, <1>16, SigSteps
  <2> QED BY <1>16, <2>1 DEF EscrowRun, past, toOther
<1>17. CASE s # l.owner /\ past /\ toOther /\ At(26, <<buyer>>, yes)
  <2>1. Same /\ At(26 + 1, <<buyer>>, <<>>)'
    BY <1>2, <1>17, EndIfHere
  <2> QED BY <1>17, <2>1 DEF EscrowRun, past, toOther
<1>18. CASE s # l.owner /\ past /\ toOther /\ At(27, <<buyer>>, <<>>)
  <2>1. Len(Script(lock)) \in Nat /\ 27 \in Nat /\ Len(Script(lock)) + 1 = 27
    BY <1>1 DEF code
  <2>2. SpentBy(l, t) <=> t.signer = l.other
    BY <1>5, <1>18
  <2>3. At(27, <<Bool(t.signer = l.other)>>, <<>>)
    BY <1>18
  <2> QED BY <2>1, <2>2, <2>3, SettledBySig, Zenon
<1>19. \/ InDupSig(t, l.owner) \/ At(4, <<s, own>>, <<>>)
       \/ /\ s = l.owner
          /\ \/ InPays(t, 5, l.owner, yes)
             \/ /\ toOwner
                /\ \/ InSig(t, 12, l.owner, yes) \/ At(14, <<1>>, yes)
                   \/ \E k \in 15..26 : At(k, <<1>>, no)
                   \/ At(27, <<1>>, <<>>)
       \/ /\ s # l.owner
          /\ \/ \E k \in 5..14 : At(k, <<s>>, no)
             \/ InLockTime(t, 15, l.unlock, yes)
             \/ past /\ InPays(t, 17, l.other, yes)
             \/ /\ past /\ toOther
                /\ \/ InSig(t, 24, l.other, yes) \/ At(26, <<buyer>>, yes)
                   \/ At(27, <<buyer>>, <<>>)
  BY DEF EscrowRun, past, toOwner, toOther
<1> QED
  BY <1>6, <1>7, <1>8, <1>9, <1>10, <1>11, <1>12, <1>13, <1>14, <1>15, <1>16, <1>17,
     <1>18, <1>19

-----------------------------------------------------------------------------
\* The lock, its birth and the transaction stay as they were offered.

LEMMA OfferedTyped ==
    ASSUME Offered
    PROVE  /\ tx.pays \in Seq(Keys)
           /\ lock.family \in AllFamilies
<1>1. tx.pays \in {<<w>> : w \in Keys} \cup {<<v, w>> : v, w \in Keys}
  BY DEF Offered, Txs
<1>2. lock.family \in Families
  BY DEF Offered, NewLocks
<1>3. \A w \in Keys : <<w>> \in Seq(Keys)
  OBVIOUS
<1>4. \A v, w \in Keys : <<v, w>> \in Seq(Keys)
  OBVIOUS
<1>5. tx.pays \in Seq(Keys)
  <2>1. CASE tx.pays \in {<<w>> : w \in Keys}
    <3>1. PICK w \in Keys : tx.pays = <<w>>
      BY <2>1
    <3> QED BY <1>3, <3>1
  <2>2. CASE tx.pays \in {<<v, w>> : v, w \in Keys}
    <3>1. PICK v \in Keys, w \in Keys : tx.pays = <<v, w>>
      BY <2>2
    <3> QED BY <1>4, <3>1
  <2> QED BY <1>1, <2>1, <2>2
<1> QED BY <1>2, <1>5, FamiliesAssumption

\* Init: the signature is on the stack, and no opcode has run.
LEMMA ScriptInitIInv == ScriptInit => ScriptIInv
<1> SUFFICES ASSUME ScriptInit PROVE ScriptIInv
  OBVIOUS
<1>1. Offered
  BY DEF ScriptInit, Offered
<1>2. At(1, <<tx.signer>>, <<>>)
  BY DEF ScriptInit, At
<1>3. 1 \in Nat /\ verdict = "running"
  BY DEF ScriptInit
<1>4. Running(lock, tx)
  BY <1>2 DEF Running, PlainRun, ImmediateRecoveryRun, DelayedRecoveryRun, AbsoluteTimeRun,
     RelativeSequenceRun, AllowedDestinationRun, AbsoluteTimeDestinationRun, EscrowRun,
     InSig, InDupSig, InLockTime, InPays
<1> QED BY <1>1, <1>3, <1>4 DEF ScriptIInv

\* A step of any family's run stays in the run or settles the verdict.
LEMMA RunSteps ==
    ASSUME ScriptNext, Offered, NEW l, lock = l, NEW t, tx = t, Running(l, t)
    PROVE  (Same /\ Running(l, t)') \/ Settles(l, t)
<1>1. t.pays \in Seq(Keys) /\ l.family \in AllFamilies
  BY OfferedTyped
<1>2. CASE l.family \in {"ProtectKas", "OwnerRelease"}
  <2>1. PlainRun(l, t)
    BY <1>2 DEF Running
  <2>2. (Same /\ PlainRun(l, t)') \/ Settles(l, t)
    BY <1>2, <2>1, PlainSteps
  <2> QED BY <1>2, <2>2 DEF Running
<1>3. CASE l.family = "ImmediateRecovery"
  BY <1>3, ImmediateRecoverySteps DEF Running
<1>4. CASE l.family = "DelayedRecovery"
  BY <1>4, DelayedRecoverySteps DEF Running
<1>5. CASE l.family = "AbsoluteTime"
  BY <1>5, AbsoluteTimeSteps DEF Running
<1>6. CASE l.family = "RelativeSequence"
  BY <1>6, RelativeSequenceSteps DEF Running
<1>7. CASE l.family = "AllowedDestination"
  BY <1>1, <1>7, AllowedDestinationSteps DEF Running
<1>8. CASE l.family = "AbsoluteTimeDestination"
  BY <1>1, <1>8, AbsoluteTimeDestinationSteps DEF Running
<1>9. CASE l.family = "Escrow"
  BY <1>1, <1>9, EscrowSteps DEF Running
<1> QED BY <1>1, <1>2, <1>3, <1>4, <1>5, <1>6, <1>7, <1>8, <1>9 DEF AllFamilies

\* Next preserves the invariant.
LEMMA ScriptIInvStep == ScriptIInv /\ [ScriptNext]_scriptVars => ScriptIInv'
<1> SUFFICES ASSUME ScriptIInv, [ScriptNext]_scriptVars PROVE ScriptIInv'
  OBVIOUS
<1>1. CASE UNCHANGED scriptVars
  BY <1>1 DEF scriptVars, ScriptIInv, Offered, Running, PlainRun, ImmediateRecoveryRun,
     DelayedRecoveryRun, AbsoluteTimeRun, RelativeSequenceRun, AllowedDestinationRun,
     AbsoluteTimeDestinationRun, EscrowRun, InSig, InDupSig, InLockTime, InPays, At
<1>2. CASE ScriptNext
  <2>1. PICK l, t : lock = l /\ tx = t
    OBVIOUS
  <2>2. Offered /\ Running(l, t)
    BY <1>2, <2>1 DEF ScriptIInv, ScriptNext
  <2>3. (Same /\ Running(l, t)') \/ Settles(l, t)
    BY <1>2, <2>1, <2>2, RunSteps
  <2>4. Same
    BY <2>3 DEF Settles, Fails
  <2>5. lock' = l /\ tx' = t /\ Offered'
    BY <2>1, <2>2, <2>4 DEF Same, Offered
  <2>6. CASE Running(l, t)'
    <3>1. verdict' = "running"
      BY <2>6 DEF Running, PlainRun, ImmediateRecoveryRun,
         DelayedRecoveryRun, AbsoluteTimeRun, RelativeSequenceRun, AllowedDestinationRun,
         AbsoluteTimeDestinationRun, EscrowRun, InSig, InDupSig, InLockTime, InPays, At
    <3> QED BY <2>5, <2>6, <3>1 DEF ScriptIInv
  <2>7. CASE Settles(l, t)
    BY <2>5, <2>7 DEF Settles, Fails, ScriptIInv
  <2> QED BY <2>3, <2>6, <2>7
<1> QED BY <1>1, <1>2

\* The invariant holds in every reachable state.
THEOREM ScriptInvariance == ScriptSpec => []ScriptIInv
<1> QED BY ScriptInitIInv, ScriptIInvStep, PTL DEF ScriptSpec

\* The verdict against the closed form.
ScriptDecides ==
    /\ verdict = "true" => SpentBy(lock, tx)
    /\ verdict = "error" => ~SpentBy(lock, tx)

\* A redeem script accepts exactly the spends of its closed form SpentBy, whatever the
\* order of its opcodes, branches and stack: a run that ends in true is such a spend, and
\* one that fails is not.
THEOREM ScriptsDecide == ScriptSpec => []ScriptDecides
<1>1. ScriptIInv => ScriptDecides
  BY DEF ScriptIInv, ScriptDecides
<1> QED BY <1>1, ScriptInvariance, PTL

\* The shape of the locks.
LEMMA LockShapes ==
    ASSUME NEW w \in Wallets, NEW b \in Nat, NEW l \in NewLocks(w, b)
    PROVE  /\ l.family \in AllFamilies
           /\ l.family = "RelativeSequence" => l.unlock = Delta
           /\ l.family \in {"DelayedRecovery", "AbsoluteTime", "AbsoluteTimeDestination",
                            "Escrow"} => l.unlock = b + Delta
           /\ l.family \in {"ProtectKas", "OwnerRelease", "AbsoluteTime",
                            "RelativeSequence"} => l.other = l.owner
BY FamiliesAssumption
   DEF NewLocks, Lock, AllFamilies, ProtectKasLocks, OwnerReleaseLocks,
       ImmediateRecoveryLocks, DelayedRecoveryLocks, AbsoluteTimeLocks,
       RelativeSequenceLocks, AllowedDestinationLocks, AbsoluteTimeDestinationLocks,
       EscrowLocks

LEMMA Numbers ==
    ASSUME Offered
    PROVE  /\ born \in Nat /\ tx.now \in Nat /\ tx.lockTime \in Nat /\ Final \in Nat
           /\ tx.sequence \in {0, Delta, Final} /\ Delta \in Nat /\ Delta # 0
           /\ 0 # Final /\ Delta # Final
           /\ tx.sequence # Final => tx.lockTime <= tx.now /\ born + tx.sequence <= tx.now
BY FamiliesAssumption, ScriptAssumption DEF Offered, Txs, Timely, Final

\* When the lock opens, for the path p.
LEMMA OpenedLock ==
    ASSUME Offered
    PROVE  /\ lock.family \in AllFamilies /\ lock.unlock \in Nat
           /\ \A p \in {"owner", "other"} : Mature(Opened, p, tx.now) <=>
                (TimeBound(lock, p) => tx.now >= Opens)
           /\ lock.family = "RelativeSequence" => Opens = born + Delta
           /\ lock.family # "RelativeSequence" => Opens = lock.unlock
<1>1. PICK w \in Wallets : lock \in NewLocks(w, born)
  BY DEF Offered
<1>2. born \in Nat
  BY Numbers
<1>3. lock \in Locks
  BY <1>1, <1>2, NewLocksTyped
<1>4. Opened.family = lock.family /\ Opened.unlock = Opens
  BY <1>3 DEF Opened, Locks
<1>5. \A p \in {"owner", "other"} : TimeBound(Opened, p) <=> TimeBound(lock, p)
  BY <1>4 DEF TimeBound
<1>6. lock.family = "RelativeSequence" => lock.unlock = Delta
  BY <1>1, <1>2, LockShapes
<1>7. lock.family \in AllFamilies /\ lock.unlock \in Nat
  BY <1>3, FamiliesAssumption DEF Locks
<1>8. \A p \in {"owner", "other"} : Mature(Opened, p, tx.now) <=>
        (TimeBound(lock, p) => tx.now >= Opens)
  BY <1>4, <1>5 DEF Mature
<1>9. /\ lock.family = "RelativeSequence" => Opens = born + Delta
      /\ lock.family # "RelativeSequence" => Opens = lock.unlock
  BY <1>6 DEF Opens
<1> QED BY <1>7, <1>8, <1>9

\* A spend that the script allows is one that the page promises.
LEMMA SomePathSpends ==
    ASSUME Offered, SpentBy(lock, tx)
    PROVE  \E p \in Paths(lock) :
               /\ tx.signer = Party(lock, p)
               /\ Mature(Opened, p, tx.now)
               /\ AnyOutputs(lock) \/ tx.pays = <<PaidTo(lock, p)>>
<1> DEFINE Allowed(p) ==
               /\ p \in Paths(lock) /\ tx.signer = Party(lock, p)
               /\ Mature(Opened, p, tx.now)
               /\ AnyOutputs(lock) \/ tx.pays = <<PaidTo(lock, p)>>
<1>1. Allowed("owner") \/ Allowed("other")
  <2>1. CASE lock.family \in {"ProtectKas", "OwnerRelease"}
    BY <2>1, OpenedLock DEF SpentBy, Paths, Party, AnyOutputs, TimeBound
  <2>2. CASE lock.family = "ImmediateRecovery"
    BY <2>2, OpenedLock, Numbers
       DEF SpentBy, LocktimeIsPast, Paths, Party, PaidTo, AnyOutputs, TimeBound
  <2>3. CASE lock.family = "DelayedRecovery"
    BY <2>3, OpenedLock, Numbers
       DEF SpentBy, LocktimeIsPast, Paths, Party, PaidTo, AnyOutputs, TimeBound
  <2>4. CASE lock.family = "AbsoluteTime"
    BY <2>4, OpenedLock, Numbers
       DEF SpentBy, LocktimeIsPast, Paths, Party, PaidTo, AnyOutputs, TimeBound
  <2>5. CASE lock.family = "RelativeSequence"
    BY <2>5, OpenedLock, Numbers
       DEF SpentBy, LocktimeIsPast, Paths, Party, PaidTo, AnyOutputs, TimeBound
  <2>6. CASE lock.family = "AllowedDestination"
    BY <2>6, OpenedLock, Numbers
       DEF SpentBy, LocktimeIsPast, Paths, Party, PaidTo, AnyOutputs, TimeBound
  <2>7. CASE lock.family = "AbsoluteTimeDestination"
    BY <2>7, OpenedLock, Numbers
       DEF SpentBy, LocktimeIsPast, Paths, Party, PaidTo, AnyOutputs, TimeBound
  <2>8. CASE lock.family = "Escrow"
    BY <2>8, OpenedLock, Numbers
       DEF SpentBy, LocktimeIsPast, Paths, Party, PaidTo, AnyOutputs, TimeBound
  <2> QED BY <2>1, <2>2, <2>3, <2>4, <2>5, <2>6, <2>7, <2>8, OpenedLock DEF AllFamilies
<1> QED BY <1>1

\* A spend that a submit route lets through is one for the path it records.
LEMMA AdmittedSpends ==
    ASSUME Offered, SpentBy(lock, tx), NEW p \in Paths(lock), Admits(p)
    PROVE  Mature(Opened, p, tx.now) /\ tx.pays = <<PaidTo(lock, p)>>
<1>1. p \in {"owner", "other"}
  BY DEF Paths
<1>2. CASE lock.family \in {"ProtectKas", "OwnerRelease"}
  BY <1>1, <1>2, OpenedLock
     DEF Admits, Pays, ProtectKasAdmits, OwnerReleaseAdmits, Paths, TimeBound
<1>3. CASE lock.family = "ImmediateRecovery"
  BY <1>1, <1>3, OpenedLock, Numbers
     DEF Admits, Pays, ImmediateRecoveryAdmits, Paths, TimeBound,
         SpentBy, LocktimeIsPast
<1>4. CASE lock.family = "DelayedRecovery"
  BY <1>1, <1>4, OpenedLock, Numbers
     DEF Admits, Pays, DelayedOwnerAdmits, DelayedRecoveryAdmits, Paths, TimeBound,
         SpentBy, LocktimeIsPast
<1>5. CASE lock.family = "AbsoluteTime"
  BY <1>1, <1>5, OpenedLock, Numbers
     DEF Admits, Pays, AbsoluteTimeAdmits, Paths, TimeBound,
         SpentBy, LocktimeIsPast
<1>6. CASE lock.family = "RelativeSequence"
  BY <1>1, <1>6, OpenedLock, Numbers
     DEF Admits, Pays, RelativeSequenceAdmits, Paths, TimeBound,
         SpentBy, LocktimeIsPast
<1>7. CASE lock.family = "AllowedDestination"
  BY <1>1, <1>7, OpenedLock, Numbers
     DEF Admits, Pays, AllowedDestinationAdmits, Paths, TimeBound,
         SpentBy, LocktimeIsPast
<1>8. CASE lock.family = "AbsoluteTimeDestination"
  BY <1>1, <1>8, OpenedLock, Numbers
     DEF Admits, Pays, AbsoluteTimeDestinationAdmits, Paths, TimeBound,
         SpentBy, LocktimeIsPast
<1>9. CASE lock.family = "Escrow"
  BY <1>1, <1>9, OpenedLock, Numbers
     DEF Admits, Pays, EscrowReleaseAdmits, EscrowRefundAdmits, Paths, TimeBound,
         SpentBy, LocktimeIsPast
<1> QED BY <1>2, <1>3, <1>4, <1>5, <1>6, <1>7, <1>8, <1>9, OpenedLock DEF AllFamilies

\* What a build route makes, the submit route lets through and the script accepts.
LEMMA RouteSpends ==
    ASSUME Offered, NEW p \in Paths(lock), RouteTx(p)
    PROVE  Admits(p) /\ SpentBy(lock, tx)
<1>1. p \in {"owner", "other"}
  BY DEF Paths
<1>2. CASE lock.family \in {"ProtectKas", "OwnerRelease"}
  BY <1>1, <1>2, OpenedLock
     DEF RouteTx, ProtectKasBuilds, OwnerReleaseBuilds, Builds, Admits, Pays,
         ProtectKasAdmits, OwnerReleaseAdmits, Paths, Party, PaidTo, SpentBy
<1>3. CASE lock.family = "ImmediateRecovery"
  BY <1>1, <1>3, OpenedLock, Numbers
     DEF RouteTx, ImmediateRecoveryBuilds, Builds, Admits, Pays,
         ImmediateRecoveryAdmits, Paths, Party, PaidTo,
         SpentBy, LocktimeIsPast
<1>4. CASE lock.family = "DelayedRecovery"
  BY <1>1, <1>4, OpenedLock, Numbers
     DEF RouteTx, DelayedOwnerBuilds, DelayedRecoveryBuilds, Builds, Admits, Pays,
         DelayedOwnerAdmits, DelayedRecoveryAdmits, Paths, Party, PaidTo,
         SpentBy, LocktimeIsPast
<1>5. CASE lock.family = "AbsoluteTime"
  BY <1>1, <1>5, OpenedLock, Numbers
     DEF RouteTx, AbsoluteTimeBuilds, Builds, Admits, Pays,
         AbsoluteTimeAdmits, Paths, Party, PaidTo,
         SpentBy, LocktimeIsPast
<1>6. CASE lock.family = "RelativeSequence"
  BY <1>1, <1>6, OpenedLock, Numbers
     DEF RouteTx, RelativeSequenceBuilds, Builds, Admits, Pays,
         RelativeSequenceAdmits, Paths, Party, PaidTo,
         SpentBy, LocktimeIsPast
<1>7. CASE lock.family = "AllowedDestination"
  BY <1>1, <1>7, OpenedLock, Numbers
     DEF RouteTx, AllowedDestinationBuilds, Builds, Admits, Pays,
         AllowedDestinationAdmits, Paths, Party, PaidTo,
         SpentBy, LocktimeIsPast
<1>8. CASE lock.family = "AbsoluteTimeDestination"
  BY <1>1, <1>8, OpenedLock, Numbers
     DEF RouteTx, AbsoluteTimeDestinationBuilds, Builds, Admits, Pays,
         AbsoluteTimeDestinationAdmits, Paths, Party, PaidTo,
         SpentBy, LocktimeIsPast
<1>9. CASE lock.family = "Escrow"
  BY <1>1, <1>9, OpenedLock, Numbers
     DEF RouteTx, EscrowReleaseBuilds, EscrowRefundBuilds, Builds, Admits, Pays,
         EscrowReleaseAdmits, EscrowRefundAdmits, Paths, Party, PaidTo,
         SpentBy, LocktimeIsPast
<1> QED BY <1>2, <1>3, <1>4, <1>5, <1>6, <1>7, <1>8, <1>9, OpenedLock DEF AllFamilies

\* A spend that a redeem script accepts is one that the page promises for some path: signed
\* by its party, in its time, and to its payee where the family says who that is.  And one
\* that a submit route lets through for a path is in time for that path and pays its payee.
THEOREM SpendsArePromised == ScriptSpec => []OnlyPromisedSpends
<1>1. ScriptIInv => OnlyPromisedSpends
  BY SomePathSpends, AdmittedSpends DEF ScriptIInv, OnlyPromisedSpends
<1> QED BY <1>1, ScriptInvariance, PTL

\* The transaction that a build route makes for a path passes the checks of the submit
\* route, and the redeem script does not fail on it.
THEOREM PromisesAreKept == ScriptSpec => []PromisedSpendsAccepted
<1>1. ScriptIInv => PromisedSpendsAccepted
  BY RouteSpends DEF ScriptIInv, PromisedSpendsAccepted
<1> QED BY <1>1, ScriptInvariance, PTL
=============================================================================
