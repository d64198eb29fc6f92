------------------------------- MODULE Faucet -------------------------------
(***************************************************************************)
(* The TN10 faucet: routes/tn10_faucet.ts and storage/tn10FaucetStore.ts.  *)
(*                                                                         *)
(* A claim handler runs without interruption between two awaits, so the    *)
(* process interleaves the handlers only at the awaits: one action below   *)
(* is the code between two of them.  The usage file survives a crash, the  *)
(* handlers do not.                                                        *)
(*                                                                         *)
(* Coins are the faucet's spendable UTXOs, numbered in the order in which  *)
(* the node lists them; createTransactions consumes that list from its     *)
(* front.  Amounts of the coins are not modelled: a claim may need one     *)
(* transaction, or a chain of up to MaxBatch where only the last one pays. *)
(***************************************************************************)
EXTENDS RequestTable, Naturals, FiniteSets

CONSTANTS
    Users,       \* authenticated users
    Claim,       \* TD_TN10_FAUCET_CLAIM_TKAS
    DailyLimit,  \* TD_TN10_FAUCET_DAILY_LIMIT_TKAS
    MaxDay,      \* bound: days the model runs through
    MaxCoin,     \* bound: coins ever created
    MaxBatch,    \* bound: transactions in one claim
    MaxFaults    \* bound: lost replies and crashes

ASSUME FaucetAssumption ==
    /\ Claim \in Nat \ {0}
    /\ DailyLimit \in Nat
    /\ Claim <= DailyLimit           \* tn10_faucet_claim_exceeds_daily_limit
    /\ MaxDay \in Nat \ {0} /\ MaxCoin \in Nat /\ MaxCoin >= 2 /\ MaxBatch \in Nat \ {0}
    /\ MaxFaults \in Nat /\ IsFiniteSet(Reqs)

VARIABLES
    day,      \* the UTC day
    claimed,  \* the usage file: sompi recorded per user and day
    coins,    \* the faucet's unspent outputs, on the node
    minted,   \* coins created so far
    paid,     \* history: sompi the node accepted per user and day
    faults    \* lost replies and crashes so far

vars == <<day, claimed, req, coins, minted, paid, faults>>

Days == 1..MaxDay
Handlers ==
    {Idle}
    \cup [pc: {"checked", "accepted"}, user: Users, day: Days]
    \cup [pc: {"built"}, user: Users, day: Days,
          entries: SUBSET (1..MaxCoin), left: 1..MaxBatch]

TypeOK ==
    /\ day \in Days
    /\ claimed \in [Users -> [Days -> Nat]]
    /\ req \in [Reqs -> Handlers]
    /\ coins \subseteq 1..minted
    /\ minted \in 0..MaxCoin
    /\ paid \in [Users -> [Days -> Nat]]
    /\ faults \in 0..MaxFaults

Init ==
    /\ day = 1
    /\ claimed = [u \in Users |-> [d \in Days |-> 0]]
    /\ req = [r \in Reqs |-> Idle]
    /\ minted \in 0..2
    /\ coins = 1..minted
    /\ paid = claimed
    /\ faults = 0

-----------------------------------------------------------------------------
\* Mutant of Record: the limit is not tested again.
RecordUnchecked(r) ==
    /\ req[r].pc = "accepted"
    /\ claimed' = [claimed EXCEPT ![req[r].user][req[r].day] = @ + Claim]
    /\ req' = [req EXCEPT ![r] = Idle]
    /\ UNCHANGED <<day, coins, minted, paid, faults>>

\* Mutant of Record: the usage is written before the payment is sent.
RecordEarly(r) ==
    /\ req[r].pc \in {"built", "accepted"}
    /\ LET u == req[r].user
           d == req[r].day
       IN  IF claimed[u][d] + Claim <= DailyLimit
           THEN claimed' = [claimed EXCEPT ![u][d] = @ + Claim]
           ELSE UNCHANGED claimed
    /\ req' = [req EXCEPT ![r] = Idle]
    /\ UNCHANGED <<day, coins, minted, paid, faults>>

\* Mutant of WithinQuota: tests that something is left, not a whole claim.
SomeQuotaLeft(u, d) == claimed[u][d] < DailyLimit

\* getTn10FaucetUsage and the quota test of the handler.
WithinQuota(u, d) == DailyLimit - claimed[u][d] >= Claim /\ claimed[u][d] <= DailyLimit

\* Up to the first RPC await: the day is read and the quota tested once.
CheckQuota(r, u) ==
    /\ req[r] = Idle
    /\ WithinQuota(u, day)
    /\ req' = [req EXCEPT ![r] = [pc |-> "checked", user |-> u, day |-> day]]
    /\ UNCHANGED <<day, claimed, coins, minted, paid, faults>>

\* getUtxosByAddresses answers: reply 409 on no spendable entry, else build
\* from the entries as they were then.
ReadUtxos(r) ==
    /\ req[r].pc = "checked"
    /\ \/ /\ coins = {}
          /\ req' = [req EXCEPT ![r] = Idle]
       \/ /\ coins # {}
          /\ \E n \in 1..MaxBatch :
               req' = [req EXCEPT ![r] =
                   [pc |-> "built", user |-> req[r].user, day |-> req[r].day,
                    entries |-> coins, left |-> n]]
    /\ UNCHANGED <<day, claimed, coins, minted, paid, faults>>

First(S) == CHOOSE c \in S : \A e \in S : c <= e

\* The node accepts the next transaction of the claim: its input is still
\* unspent.  The last one pays the user, each returns change to the faucet.
Submit(r) ==
    /\ req[r].pc = "built"
    /\ First(req[r].entries) \in coins
    /\ minted < MaxCoin
    /\ minted' = minted + 1
    /\ coins' = (coins \ {First(req[r].entries)}) \cup {minted + 1}
    /\ LET u == req[r].user
           d == req[r].day
       IN  \/ /\ req[r].left > 1
              /\ req' = [req EXCEPT ![r] =
                     [pc |-> "built", user |-> u, day |-> d,
                      entries |-> {minted + 1}, left |-> req[r].left - 1]]
              /\ UNCHANGED paid
           \/ /\ req[r].left = 1
              /\ req' = [req EXCEPT ![r] = [pc |-> "accepted", user |-> u, day |-> d]]
              /\ paid' = [paid EXCEPT ![u][d] = @ + Claim]
    /\ UNCHANGED <<day, claimed, faults>>

\* submit() throws: the input is spent, in the mempool or on the chain.
SubmitRejected(r) ==
    /\ req[r].pc = "built"
    /\ First(req[r].entries) \notin coins
    /\ req' = [req EXCEPT ![r] = Idle]
    /\ UNCHANGED <<day, claimed, coins, minted, paid, faults>>

\* submit() returns: recordTn10FaucetClaim, which throws over the limit.
Record(r) ==
    /\ req[r].pc = "accepted"
    /\ LET u == req[r].user
           d == req[r].day
       IN  IF claimed[u][d] + Claim <= DailyLimit
           THEN claimed' = [claimed EXCEPT ![u][d] = @ + Claim]
           ELSE UNCHANGED claimed
    /\ req' = [req EXCEPT ![r] = Idle]
    /\ UNCHANGED <<day, coins, minted, paid, faults>>

\* The node's answer is lost: submit() throws although the node accepted.
LoseReply(r) ==
    /\ req[r].pc = "accepted"
    /\ faults < MaxFaults
    /\ faults' = faults + 1
    /\ req' = [req EXCEPT ![r] = Idle]
    /\ UNCHANGED <<day, claimed, coins, minted, paid>>

\* The process restarts: the file stays, every handler is gone.
Crash ==
    /\ faults < MaxFaults
    /\ faults' = faults + 1
    /\ req' = [r \in Reqs |-> Idle]
    /\ UNCHANGED <<day, claimed, coins, minted, paid>>

\* UTC midnight.
NextDay ==
    /\ day < MaxDay
    /\ day' = day + 1
    /\ UNCHANGED <<claimed, req, coins, minted, paid, faults>>

Next ==
    \/ \E r \in Reqs :
        \/ \E u \in Users : CheckQuota(r, u)
        \/ ReadUtxos(r) \/ Submit(r) \/ SubmitRejected(r)
        \/ Record(r) \/ LoseReply(r)
    \/ Crash
    \/ NextDay

Spec == Init /\ [][Next]_vars

-----------------------------------------------------------------------------
\* The usage file never shows a user above the daily limit, whatever number
\* of claims raced past the handler's own test (recordTn10FaucetClaim).
RecordedWithinLimit ==
    \A u \in Users, d \in Days : claimed[u][d] <= DailyLimit

InFlight(u, d) ==
    {r \in Reqs : req[r].pc = "accepted" /\ req[r].user = u /\ req[r].day = d}

\* A user is charged quota only for a payment the node accepted, once for
\* each: what is recorded, plus what accepted claims still may record, is
\* covered by what was paid (the handler records after its last submit).
ChargedOnlyIfPaid ==
    \A u \in Users, d \in Days :
        claimed[u][d] + Claim * Cardinality(InFlight(u, d)) <= paid[u][d]

\* How far concurrent claims can overdraw the daily limit: by one claim for
\* every other request that may be in flight, and by the claims in flight at
\* a lost answer or a crash.  The first record that reaches the limit closes
\* the quota test for good, however the requests interleave.
OverdraftBounded ==
    \A u \in Users, d \in Days :
        paid[u][d] <= DailyLimit + Claim * (Cardinality(Reqs) - 1)
                      + Claim * Cardinality(Reqs) * faults
=============================================================================
