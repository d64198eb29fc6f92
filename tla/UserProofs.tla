----------------------------- MODULE UserProofs -----------------------------
(***************************************************************************)
(* Proofs about Faucet, for any number of users, requests and coins, and,  *)
(* at the end, about Accounts.                                             *)
(***************************************************************************)
EXTENDS Faucet, Accounts, TLAPS, FiniteSetTheorems

\* Every state of the faucet has its type: in particular the usage file
\* holds a natural number for every user and day.
THEOREM FaucetTypeCorrect == Spec => []TypeOK
<1> USE FaucetAssumption
<1>1. Init => TypeOK
  BY DEF Init, TypeOK, Handlers, Idle, Days
<1>2. TypeOK /\ [Next]_vars => TypeOK'
  <2> SUFFICES ASSUME TypeOK, [Next]_vars PROVE TypeOK'
    OBVIOUS
  <2> USE DEF TypeOK
  <2>1. ASSUME NEW r \in Reqs, NEW u \in Users, CheckQuota(r, u) PROVE TypeOK'
    <3>1. [pc |-> "checked", user |-> u, day |-> day] \in Handlers
      BY DEF Handlers
    <3>2. QED BY <2>1, <3>1 DEF CheckQuota
  <2>2. ASSUME NEW r \in Reqs, ReadUtxos(r) PROVE TypeOK'
    <3>1. Idle \in Handlers
      BY DEF Handlers
    <3>2. req[r].pc = "checked" /\ req[r] \in Handlers
      BY <2>2 DEF ReadUtxos
    <3>3. req[r].user \in Users /\ req[r].day \in Days
      BY <3>2 DEF Handlers, Idle
    <3>4. ASSUME NEW n \in 1..MaxBatch
          PROVE  [pc |-> "built", user |-> req[r].user, day |-> req[r].day,
                  entries |-> coins, left |-> n] \in Handlers
      BY <3>3 DEF Handlers
    <3>5. QED BY <2>2, <3>1, <3>4 DEF ReadUtxos
  <2>3. ASSUME NEW r \in Reqs, Submit(r) PROVE TypeOK'
    <3>1. req[r].pc = "built" /\ req[r] \in Handlers
      BY <2>3 DEF Submit
    <3>2. /\ req[r].user \in Users /\ req[r].day \in Days
          /\ req[r] = [pc |-> "built", user |-> req[r].user, day |-> req[r].day,
                       entries |-> req[r].entries, left |-> req[r].left]
          /\ req[r].left \in 1..MaxBatch
      BY <3>1 DEF Handlers, Idle
    <3>3. minted' \in 0..MaxCoin /\ coins' \subseteq 1..minted' /\ minted' \in 1..MaxCoin
      BY <2>3 DEF Submit
    <3>4. CASE /\ req[r].left > 1
               /\ req' = [req EXCEPT ![r] =
                     [pc |-> "built", user |-> req[r].user, day |-> req[r].day,
                      entries |-> {minted + 1}, left |-> req[r].left - 1]]
               /\ UNCHANGED paid
      <4>1. [pc |-> "built", user |-> req[r].user, day |-> req[r].day,
             entries |-> {minted + 1}, left |-> req[r].left - 1] \in Handlers
        BY <2>3, <3>2, <3>3, <3>4 DEF Handlers, Submit
      <4>2. QED BY <2>3, <3>3, <3>4, <4>1 DEF Submit
    <3>5. CASE /\ req' = [req EXCEPT ![r] = [pc |-> "accepted", user |-> req[r].user, day |-> req[r].day]]
               /\ paid' = [paid EXCEPT ![req[r].user][req[r].day] = @ + Claim]
      <4>1. [pc |-> "accepted", user |-> req[r].user, day |-> req[r].day] \in Handlers
        BY <3>2 DEF Handlers
      <4>2. paid' \in [Users -> [Days -> Nat]]
        BY <3>2, <3>5
      <4>3. QED BY <2>3, <3>3, <3>5, <4>1, <4>2 DEF Submit
    <3>6. QED BY <2>3, <3>4, <3>5 DEF Submit
  <2>4. ASSUME NEW r \in Reqs, SubmitRejected(r) \/ LoseReply(r) PROVE TypeOK'
    BY <2>4 DEF SubmitRejected, LoseReply, Handlers
  <2>5. ASSUME NEW r \in Reqs, Record(r) PROVE TypeOK'
    <3>1. req[r].user \in Users /\ req[r].day \in Days
      BY <2>5 DEF Record, Handlers, Idle
    <3>2. CASE UNCHANGED claimed
      BY <2>5, <3>2 DEF Record, Handlers
    <3>4. CASE claimed' = [claimed EXCEPT ![req[r].user][req[r].day] = @ + Claim]
      <4>1. claimed' \in [Users -> [Days -> Nat]]
        BY <3>1, <3>4
      <4>2. QED BY <2>5, <4>1 DEF Record, Handlers
    <3>3. QED BY <2>5, <3>2, <3>4 DEF Record
  <2>6. CASE Crash
    BY <2>6 DEF Crash, Handlers
  <2>7. CASE NextDay
    BY <2>7 DEF NextDay, Days
  <2>8. CASE UNCHANGED vars
    BY <2>8 DEF vars
  <2>9. QED BY <2>1, <2>2, <2>3, <2>4, <2>5, <2>6, <2>7, <2>8 DEF Next
<1>3. QED BY <1>1, <1>2, PTL DEF Spec

\* The usage file never shows a user above the daily limit: Record is the
\* only writer and tests the limit on the value it replaces.
THEOREM RecordedLimit == Spec => []RecordedWithinLimit
<1> USE FaucetAssumption
<1>1. Init => RecordedWithinLimit
  BY DEF Init, RecordedWithinLimit
<1>2. TypeOK /\ RecordedWithinLimit /\ [Next]_vars => RecordedWithinLimit'
  <2> SUFFICES ASSUME TypeOK, RecordedWithinLimit, [Next]_vars
               PROVE  RecordedWithinLimit'
    OBVIOUS
  <2>1. ASSUME NEW r \in Reqs, Record(r) PROVE RecordedWithinLimit'
    <3>1. req[r].user \in Users /\ req[r].day \in Days
      BY <2>1 DEF Record, TypeOK, Handlers, Idle
    <3>2. CASE claimed' = claimed
      BY <3>2 DEF RecordedWithinLimit
    <3>3. CASE /\ claimed[req[r].user][req[r].day] + Claim <= DailyLimit
               /\ claimed' = [claimed EXCEPT ![req[r].user][req[r].day] = @ + Claim]
      BY <3>1, <3>3 DEF TypeOK, RecordedWithinLimit
    <3>4. QED BY <2>1, <3>2, <3>3 DEF Record
  <2>2. CASE claimed' = claimed
    BY <2>2 DEF RecordedWithinLimit
  <2>3. QED
    BY <2>1, <2>2, Zenon DEF Next, CheckQuota, ReadUtxos, Submit, SubmitRejected,
                      LoseReply, Crash, NextDay, vars
<1>3. QED BY <1>1, <1>2, FaucetTypeCorrect, PTL DEF Spec

-----------------------------------------------------------------------------
(* What the handlers in flight may still do to the books of a user's day.  *)
(* While there is quota left, everything paid is recorded, about to be, or *)
(* went with a fault.  Once the quota is used up no handler passes the     *)
(* test any more, and what the day may come to is what was paid and what   *)
(* the pending handlers may still pay.                                     *)

\* The handlers that passed the quota test and did not pay yet.
Pending(u, d) ==
    {r \in Reqs : req[r].pc \in {"checked", "built"} /\ req[r].user = u /\ req[r].day = d}

Due(u, d) == Claim * Cardinality(InFlight(u, d))
May(u, d) == Claim * Cardinality(Pending(u, d))
Most == Claim * Cardinality(Reqs)
Overdraft == Claim * Cardinality(Reqs) * faults

BooksOK(u, d) ==
    /\ claimed[u][d] + Due(u, d) <= paid[u][d]
    /\ claimed[u][d] + Claim <= DailyLimit =>
         paid[u][d] <= claimed[u][d] + Due(u, d) + Overdraft
    /\ claimed[u][d] + Claim > DailyLimit =>
         paid[u][d] + May(u, d) <= DailyLimit + Most - Claim + Overdraft

IInv == TypeOK /\ RecordedWithinLimit /\ \A u \in Users, d \in Days : BooksOK(u, d)

-----------------------------------------------------------------------------
\* Amounts of sets of handlers.

LEMMA Times ==
    ASSUME NEW c \in Nat, NEW k \in Nat
    PROVE  /\ c * k \in Nat
           /\ c * (k + 1) = c * k + c
           /\ k > 0 => c * (k - 1) = c * k - c
           /\ \A m \in Nat : k <= m => c * k <= c * m
<1>1. c * k \in Nat /\ c * (k + 1) = c * k + c
  OBVIOUS
<1>2. k > 0 => c * (k - 1) = c * k - c
  OBVIOUS
<1>3. ASSUME NEW m \in Nat, k <= m
      PROVE  c * k <= c * m
  <2>1. PICK j \in Nat : m = k + j
    <3>1. m - k \in Nat /\ m = k + (m - k)
      BY <1>3
    <3> QED
      BY <3>1
  <2>2. c * m = c * k + c * j /\ c * j \in Nat /\ c * k \in Nat
    BY <2>1
  <2> QED
    BY <2>2
<1> QED
  BY <1>1, <1>2, <1>3

\* Two sets of handlers that differ in r at most.
LEMMA Shift ==
    ASSUME NEW S \in SUBSET Reqs, NEW T \in SUBSET Reqs, NEW r, S \ {r} = T \ {r}
    PROVE  /\ Claim * Cardinality(S) \in Nat /\ Claim * Cardinality(T) \in Nat
           /\ Claim * Cardinality(T) = Claim * Cardinality(S)
                 + (IF r \in T THEN Claim ELSE 0) - (IF r \in S THEN Claim ELSE 0)
<1> DEFINE R == S \ {r}
<1>1. IsFiniteSet(R) /\ Cardinality(R) \in Nat
  <2>1. R \in SUBSET Reqs
    OBVIOUS
  <2> QED
    BY <2>1, FS_Subset, FS_CardinalityType, FaucetAssumption
<1>2. ASSUME NEW U \in SUBSET Reqs, U \ {r} = R
      PROVE  /\ Claim * Cardinality(U) \in Nat
             /\ Claim * Cardinality(U) = Claim * Cardinality(R) + (IF r \in U THEN Claim ELSE 0)
  <2>1. U = IF r \in U THEN R \cup {r} ELSE R
    BY <1>2
  <2>2. r \notin R
    OBVIOUS
  <2>3. Cardinality(R \cup {r}) = Cardinality(R) + 1
    BY <1>1, <2>2, FS_AddElement
  <2>4. Claim \in Nat
    BY FaucetAssumption
  <2>5. /\ Claim * Cardinality(R) \in Nat
        /\ Claim * (Cardinality(R) + 1) = Claim * Cardinality(R) + Claim
    BY <1>1, <2>4, Times
  <2>6. CASE r \in U
    <3>1. Cardinality(U) = Cardinality(R) + 1
      BY <2>1, <2>3, <2>6
    <3> QED
      BY <2>4, <2>5, <2>6, <3>1
  <2>7. CASE r \notin U
    <3>1. Cardinality(U) = Cardinality(R)
      BY <2>1, <2>7
    <3> QED
      BY <2>4, <2>5, <2>7, <3>1
  <2> HIDE DEF R
  <2> QED
    BY <2>6, <2>7
<1>3. Claim \in Nat /\ Claim * Cardinality(R) \in Nat
  BY <1>1, Times, FaucetAssumption
<1> HIDE DEF R
<1>4. /\ Claim * Cardinality(S) \in Nat
      /\ Claim * Cardinality(S) = Claim * Cardinality(R) + (IF r \in S THEN Claim ELSE 0)
  BY <1>2 DEF R
<1>5. /\ Claim * Cardinality(T) \in Nat
      /\ Claim * Cardinality(T) = Claim * Cardinality(R) + (IF r \in T THEN Claim ELSE 0)
  BY <1>2 DEF R
<1> QED
  BY <1>3, <1>4, <1>5

LEMMA AmountsTyped ==
    ASSUME TypeOK, NEW u \in Users, NEW d \in Days
    PROVE  /\ Due(u, d) \in Nat /\ May(u, d) \in Nat /\ Most \in Nat /\ Overdraft \in Nat
           /\ Due(u, d) + May(u, d) <= Most
<1> DEFINE A == InFlight(u, d)
           Q == Pending(u, d)
<1>1. A \in SUBSET Reqs /\ Q \in SUBSET Reqs /\ A \cap Q = {} /\ IsFiniteSet(Reqs)
  BY FaucetAssumption DEF InFlight, Pending
<1>2. /\ IsFiniteSet(A) /\ IsFiniteSet(Q) /\ IsFiniteSet(A \cup Q)
      /\ Cardinality(A) \in Nat /\ Cardinality(Q) \in Nat /\ Cardinality(Reqs) \in Nat
  <2>1. A \cup Q \in SUBSET Reqs
    BY <1>1
  <2> QED
    BY <1>1, <2>1, FS_Subset, FS_CardinalityType
<1>3. Cardinality(A) + Cardinality(Q) <= Cardinality(Reqs)
  <2>1. Cardinality(A \cup Q) = Cardinality(A) + Cardinality(Q) - Cardinality(A \cap Q)
    BY <1>2, FS_Union
  <2>2. Cardinality(A \cap Q) = 0
    BY <1>1, FS_EmptySet
  <2>3. Cardinality(A \cup Q) <= Cardinality(Reqs)
    <3>1. A \cup Q \in SUBSET Reqs
      BY <1>1
    <3> QED
      BY <1>1, <3>1, FS_Subset
  <2> QED
    BY <1>2, <2>1, <2>2, <2>3
<1> HIDE DEF A, Q
<1>4. Claim \in Nat /\ faults \in Nat
  BY FaucetAssumption DEF TypeOK
<1>5. Claim * (Cardinality(A) + Cardinality(Q)) <= Claim * Cardinality(Reqs)
  BY <1>2, <1>3, <1>4, Times
<1>6. Claim * (Cardinality(A) + Cardinality(Q)) = Claim * Cardinality(A) + Claim * Cardinality(Q)
  BY <1>2, <1>4
<1>7. /\ Claim * Cardinality(A) \in Nat /\ Claim * Cardinality(Q) \in Nat
      /\ Claim * Cardinality(Reqs) \in Nat
  BY <1>2, <1>4, Times
<1>8. Claim * Cardinality(Reqs) * faults \in Nat
  BY <1>4, <1>7, Times
<1> QED
  BY <1>5, <1>6, <1>7, <1>8 DEF Due, May, Most, Overdraft, A, Q

\* A handler goes from req[r] to h.
Owes(h, pcs, u, d) == IF h.pc \in pcs /\ h.user = u /\ h.day = d THEN Claim ELSE 0

Moved(r, h, u, d) ==
    /\ Due(u, d)' = Due(u, d) + Owes(h, {"accepted"}, u, d) - Owes(req[r], {"accepted"}, u, d)
    /\ May(u, d)' = May(u, d) + Owes(h, {"checked", "built"}, u, d)
                              - Owes(req[r], {"checked", "built"}, u, d)

LEMMA HandlerMoves ==
    ASSUME TypeOK, NEW r \in Reqs, NEW h, req' = [req EXCEPT ![r] = h],
           NEW u \in Users, NEW d \in Days
    PROVE  Moved(r, h, u, d)
<1>1. \A q \in Reqs : req'[q] = IF q = r THEN h ELSE req[q]
  BY DEF TypeOK
<1>2. /\ InFlight(u, d) \in SUBSET Reqs /\ InFlight(u, d)' \in SUBSET Reqs
      /\ InFlight(u, d) \ {r} = InFlight(u, d)' \ {r}
      /\ r \in InFlight(u, d)' <=> h.pc \in {"accepted"} /\ h.user = u /\ h.day = d
      /\ r \in InFlight(u, d) <=> req[r].pc \in {"accepted"} /\ req[r].user = u /\ req[r].day = d
  BY <1>1 DEF InFlight
<1>3. /\ Pending(u, d) \in SUBSET Reqs /\ Pending(u, d)' \in SUBSET Reqs
      /\ Pending(u, d) \ {r} = Pending(u, d)' \ {r}
      /\ r \in Pending(u, d)' <=> h.pc \in {"checked", "built"} /\ h.user = u /\ h.day = d
      /\ r \in Pending(u, d) <=> req[r].pc \in {"checked", "built"} /\ req[r].user = u /\ req[r].day = d
  BY <1>1 DEF Pending
<1>4. /\ Claim * Cardinality(InFlight(u, d)') = Claim * Cardinality(InFlight(u, d))
           + (IF r \in InFlight(u, d)' THEN Claim ELSE 0) - (IF r \in InFlight(u, d) THEN Claim ELSE 0)
  BY <1>2, Shift
<1>5. /\ Claim * Cardinality(Pending(u, d)') = Claim * Cardinality(Pending(u, d))
           + (IF r \in Pending(u, d)' THEN Claim ELSE 0) - (IF r \in Pending(u, d) THEN Claim ELSE 0)
  BY <1>3, Shift
<1> QED
  BY <1>2, <1>3, <1>4, <1>5 DEF Due, May, Owes, Moved

-----------------------------------------------------------------------------
\* What a step does to the books of one user's day.

Waits(u, d) ==
    /\ claimed'[u][d] = claimed[u][d] /\ paid'[u][d] = paid[u][d] /\ faults' = faults
    /\ Due(u, d)' = Due(u, d)
    /\ May(u, d)' <= May(u, d) \/ claimed[u][d] + Claim <= DailyLimit

Pays(u, d) ==
    /\ claimed'[u][d] = claimed[u][d] /\ paid'[u][d] = paid[u][d] + Claim /\ faults' = faults
    /\ Due(u, d)' = Due(u, d) + Claim /\ May(u, d)' = May(u, d) - Claim

Records(u, d) ==
    /\ IF claimed[u][d] + Claim <= DailyLimit THEN claimed'[u][d] = claimed[u][d] + Claim
                                              ELSE claimed'[u][d] = claimed[u][d]
    /\ paid'[u][d] = paid[u][d] /\ faults' = faults
    /\ Due(u, d)' = Due(u, d) - Claim /\ May(u, d)' = May(u, d)

Faults(u, d) ==
    /\ claimed'[u][d] = claimed[u][d] /\ paid'[u][d] = paid[u][d] /\ faults' = faults + 1
    /\ Due(u, d)' <= Due(u, d) /\ May(u, d)' <= May(u, d)

LEMMA BooksKept ==
    ASSUME TypeOK, TypeOK', NEW u \in Users, NEW d \in Days, BooksOK(u, d),
           Waits(u, d) \/ Pays(u, d) \/ Records(u, d) \/ Faults(u, d)
    PROVE  BooksOK(u, d)'
<1>1. /\ Due(u, d) \in Nat /\ May(u, d) \in Nat /\ Most \in Nat /\ Overdraft \in Nat
      /\ Due(u, d) + May(u, d) <= Most
  BY AmountsTyped
<1>2. Due(u, d)' \in Nat /\ May(u, d)' \in Nat
  <2>1. \A S \in SUBSET Reqs : Claim * Cardinality(S) \in Nat
    BY Shift
  <2>2. InFlight(u, d)' \in SUBSET Reqs /\ Pending(u, d)' \in SUBSET Reqs
    BY DEF InFlight, Pending
  <2> QED
    BY <2>1, <2>2 DEF Due, May
<1>3. /\ claimed[u][d] \in Nat /\ paid[u][d] \in Nat /\ DailyLimit \in Nat /\ Claim \in Nat
      /\ claimed'[u][d] \in Nat /\ paid'[u][d] \in Nat
  BY FaucetAssumption DEF TypeOK
<1>4. /\ faults' = faults => Overdraft' = Overdraft
      /\ faults' = faults + 1 => Overdraft' = Overdraft + Most
  <2>1. faults \in Nat /\ Most \in Nat /\ Overdraft = Most * faults /\ Overdraft' = Most * faults'
    BY <1>1 DEF TypeOK, Most, Overdraft
  <2>2. Most * (faults + 1) = Most * faults + Most
    BY <2>1, Times
  <2> QED
    BY <2>1, <2>2
<1>5. Most' = Most
  BY DEF Most
<1>6. CASE Waits(u, d)
  BY <1>1, <1>2, <1>3, <1>4, <1>5, <1>6 DEF BooksOK, Waits
<1>7. CASE Pays(u, d)
  BY <1>1, <1>2, <1>3, <1>4, <1>5, <1>7 DEF BooksOK, Pays
<1>8. CASE Records(u, d)
  BY <1>1, <1>2, <1>3, <1>4, <1>5, <1>8 DEF BooksOK, Records
<1>9. CASE Faults(u, d)
  BY <1>1, <1>2, <1>3, <1>4, <1>5, <1>9 DEF BooksOK, Faults
<1> QED
  BY <1>6, <1>7, <1>8, <1>9

\* The handlers in flight are of a user and a day.
LEMMA HandlerOf ==
    ASSUME TypeOK, NEW r \in Reqs, req[r].pc \in {"checked", "built", "accepted"}
    PROVE  req[r].user \in Users /\ req[r].day \in Days
BY DEF TypeOK, Handlers, Idle

LEMMA StepBooks ==
    ASSUME TypeOK, [Next]_vars, NEW u \in Users, NEW d \in Days
    PROVE  Waits(u, d) \/ Pays(u, d) \/ Records(u, d) \/ Faults(u, d)
<1> USE FaucetAssumption
<1>1. /\ Due(u, d) \in Nat /\ May(u, d) \in Nat /\ Claim \in Nat /\ DailyLimit \in Nat
      /\ claimed[u][d] \in Nat
  BY AmountsTyped DEF TypeOK
<1>2. ASSUME NEW r \in Reqs, NEW v \in Users, CheckQuota(r, v)
      PROVE  Waits(u, d)
  <2>1. PICK h : h = [pc |-> "checked", user |-> v, day |-> day]
    OBVIOUS
  <2>2. req' = [req EXCEPT ![r] = h] /\ req[r] = Idle
    BY <1>2, <2>1 DEF CheckQuota
  <2>3. Moved(r, h, u, d)
    BY <2>2, HandlerMoves
  <2>4. /\ Owes(h, {"accepted"}, u, d) = 0 /\ Owes(req[r], {"accepted"}, u, d) = 0
        /\ Owes(h, {"checked", "built"}, u, d) = IF v = u /\ day = d THEN Claim ELSE 0
        /\ Owes(req[r], {"checked", "built"}, u, d) = 0
    BY <2>1, <2>2 DEF Owes, Idle
  <2>5. /\ Due(u, d)' = Due(u, d)
        /\ May(u, d)' = May(u, d) + (IF v = u /\ day = d THEN Claim ELSE 0)
    BY <1>1, <2>3, <2>4 DEF Moved
  <2>6. v = u /\ day = d => claimed[u][d] + Claim <= DailyLimit
    BY <1>1, <1>2 DEF CheckQuota, WithinQuota
  <2>7. UNCHANGED <<claimed, paid, faults>>
    BY <1>2 DEF CheckQuota
  <2> QED
    BY <1>1, <2>5, <2>6, <2>7 DEF Waits
<1>3. ASSUME NEW r \in Reqs, ReadUtxos(r)
      PROVE  Waits(u, d)
  <2>1. PICK h : /\ req' = [req EXCEPT ![r] = h]
                 /\ \/ h.pc = "idle"
                    \/ h.pc = "built" /\ h.user = req[r].user /\ h.day = req[r].day
    <3>1. ASSUME req' = [req EXCEPT ![r] = Idle]
          PROVE  \E h : /\ req' = [req EXCEPT ![r] = h]
                        /\ \/ h.pc = "idle"
                           \/ h.pc = "built" /\ h.user = req[r].user /\ h.day = req[r].day
      <4>1. Idle.pc = "idle"
        BY DEF Idle
      <4> WITNESS Idle
      <4> QED
        BY <3>1, <4>1
    <3>2. ASSUME NEW n, req' = [req EXCEPT ![r] =
                   [pc |-> "built", user |-> req[r].user, day |-> req[r].day,
                    entries |-> coins, left |-> n]]
          PROVE  \E h : /\ req' = [req EXCEPT ![r] = h]
                        /\ \/ h.pc = "idle"
                           \/ h.pc = "built" /\ h.user = req[r].user /\ h.day = req[r].day
      <4> WITNESS [pc |-> "built", user |-> req[r].user, day |-> req[r].day,
                   entries |-> coins, left |-> n]
      <4> QED
        BY <3>2
    <3> QED
      BY <1>3, <3>1, <3>2 DEF ReadUtxos
  <2>2. Moved(r, h, u, d)
    BY <2>1, HandlerMoves
  <2>3. /\ Owes(h, {"accepted"}, u, d) = 0 /\ Owes(req[r], {"accepted"}, u, d) = 0
        /\ \/ Owes(h, {"checked", "built"}, u, d) = 0
           \/ Owes(h, {"checked", "built"}, u, d) = Owes(req[r], {"checked", "built"}, u, d)
        /\ Owes(req[r], {"checked", "built"}, u, d) \in {0, Claim}
    BY <1>3, <2>1 DEF Owes, ReadUtxos
  <2>4. Due(u, d)' = Due(u, d) /\ May(u, d)' <= May(u, d)
    BY <1>1, <2>2, <2>3 DEF Moved
  <2>5. UNCHANGED <<claimed, paid, faults>>
    BY <1>3 DEF ReadUtxos
  <2> QED
    BY <2>4, <2>5 DEF Waits
<1>4. ASSUME NEW r \in Reqs, Submit(r)
      PROVE  Waits(u, d) \/ Pays(u, d)
  <2>1. PICK v, e : v = req[r].user /\ e = req[r].day
    OBVIOUS
  <2>2. req[r].pc = "built" /\ v \in Users /\ e \in Days /\ UNCHANGED <<claimed, faults>>
    BY <1>4, <2>1, HandlerOf DEF Submit
  <2>3. /\ Owes(req[r], {"accepted"}, u, d) = 0
        /\ Owes(req[r], {"checked", "built"}, u, d) = IF v = u /\ e = d THEN Claim ELSE 0
    BY <2>1, <2>2 DEF Owes
  <2>4. CASE /\ req' = [req EXCEPT ![r] =
                   [pc |-> "built", user |-> v, day |-> e,
                    entries |-> {minted + 1}, left |-> req[r].left - 1]]
             /\ UNCHANGED paid
    <3>1. PICK h : h = [pc |-> "built", user |-> v, day |-> e,
                        entries |-> {minted + 1}, left |-> req[r].left - 1]
      OBVIOUS
    <3>2. Moved(r, h, u, d)
      BY <2>4, <3>1, HandlerMoves
    <3>3. /\ Owes(h, {"accepted"}, u, d) = 0
          /\ Owes(h, {"checked", "built"}, u, d) = IF v = u /\ e = d THEN Claim ELSE 0
      BY <3>1 DEF Owes
    <3>4. Due(u, d)' = Due(u, d) /\ May(u, d)' = May(u, d)
      BY <1>1, <2>3, <3>2, <3>3 DEF Moved
    <3> QED
      BY <1>1, <2>2, <2>4, <3>4 DEF Waits
  <2>5. CASE /\ req' = [req EXCEPT ![r] = [pc |-> "accepted", user |-> v, day |-> e]]
             /\ paid' = [paid EXCEPT ![v][e] = @ + Claim]
    <3>1. PICK h : h = [pc |-> "accepted", user |-> v, day |-> e]
      OBVIOUS
    <3>2. Moved(r, h, u, d)
      BY <2>5, <3>1, HandlerMoves
    <3>3. /\ Owes(h, {"accepted"}, u, d) = IF v = u /\ e = d THEN Claim ELSE 0
          /\ Owes(h, {"checked", "built"}, u, d) = 0
      BY <3>1 DEF Owes
    <3>4. /\ Due(u, d)' = Due(u, d) + (IF v = u /\ e = d THEN Claim ELSE 0)
          /\ May(u, d)' = May(u, d) - (IF v = u /\ e = d THEN Claim ELSE 0)
      BY <1>1, <2>3, <3>2, <3>3 DEF Moved
    <3>5. paid'[u][d] = IF v = u /\ e = d THEN paid[u][d] + Claim ELSE paid[u][d]
      BY <2>2, <2>5 DEF TypeOK
    <3>6. CASE v = u /\ e = d
      BY <2>2, <3>4, <3>5, <3>6 DEF Pays
    <3>7. CASE ~ (v = u /\ e = d)
      BY <1>1, <2>2, <3>4, <3>5, <3>7 DEF Waits
    <3> QED
      BY <3>6, <3>7
  <2> QED
    BY <1>4, <2>1, <2>4, <2>5 DEF Submit
<1>5. ASSUME NEW r \in Reqs, SubmitRejected(r)
      PROVE  Waits(u, d)
  <2>1. PICK h : h = Idle
    OBVIOUS
  <2>2. Moved(r, h, u, d)
    BY <1>5, <2>1, HandlerMoves DEF SubmitRejected
  <2>3. /\ Owes(h, {"accepted"}, u, d) = 0 /\ Owes(req[r], {"accepted"}, u, d) = 0
        /\ Owes(h, {"checked", "built"}, u, d) = 0
        /\ Owes(req[r], {"checked", "built"}, u, d) \in {0, Claim}
    BY <1>5, <2>1 DEF Owes, SubmitRejected, Idle
  <2>4. Due(u, d)' = Due(u, d) /\ May(u, d)' <= May(u, d)
    BY <1>1, <2>2, <2>3 DEF Moved
  <2> QED
    BY <1>5, <2>4 DEF Waits, SubmitRejected
<1>6. ASSUME NEW r \in Reqs, Record(r)
      PROVE  Waits(u, d) \/ Records(u, d)
  <2>1. PICK v, e, h : v = req[r].user /\ e = req[r].day /\ h = Idle
    OBVIOUS
  <2>2. /\ req[r].pc = "accepted" /\ v \in Users /\ e \in Days /\ UNCHANGED <<paid, faults>>
        /\ req' = [req EXCEPT ![r] = h]
        /\ IF claimed[v][e] + Claim <= DailyLimit
           THEN claimed' = [claimed EXCEPT ![v][e] = @ + Claim]
           ELSE claimed' = claimed
    BY <1>6, <2>1, HandlerOf DEF Record
  <2>3. Moved(r, h, u, d)
    BY <2>2, HandlerMoves
  <2>4. /\ Owes(h, {"accepted"}, u, d) = 0 /\ Owes(h, {"checked", "built"}, u, d) = 0
        /\ Owes(req[r], {"accepted"}, u, d) = IF v = u /\ e = d THEN Claim ELSE 0
        /\ Owes(req[r], {"checked", "built"}, u, d) = 0
    BY <2>1, <2>2 DEF Owes, Idle
  <2>5. /\ Due(u, d)' = Due(u, d) - (IF v = u /\ e = d THEN Claim ELSE 0)
        /\ May(u, d)' = May(u, d)
    BY <1>1, <2>3, <2>4 DEF Moved
  <2>6. CASE v = u /\ e = d
    <3>1. IF claimed[u][d] + Claim <= DailyLimit THEN claimed'[u][d] = claimed[u][d] + Claim
                                                 ELSE claimed'[u][d] = claimed[u][d]
      BY <2>2, <2>6 DEF TypeOK
    <3> QED
      BY <2>2, <2>5, <2>6, <3>1 DEF Records
  <2>7. CASE ~ (v = u /\ e = d)
    <3>1. claimed'[u][d] = claimed[u][d]
      BY <2>2, <2>7 DEF TypeOK
    <3> QED
      BY <1>1, <2>2, <2>5, <2>7, <3>1 DEF Waits
  <2> QED
    BY <2>6, <2>7
<1>7. ASSUME NEW r \in Reqs, LoseReply(r)
      PROVE  Faults(u, d)
  <2>1. PICK h : h = Idle
    OBVIOUS
  <2>2. Moved(r, h, u, d)
    BY <1>7, <2>1, HandlerMoves DEF LoseReply
  <2>3. /\ Owes(h, {"accepted"}, u, d) = 0 /\ Owes(h, {"checked", "built"}, u, d) = 0
        /\ Owes(req[r], {"accepted"}, u, d) \in {0, Claim}
        /\ Owes(req[r], {"checked", "built"}, u, d) = 0
    BY <1>7, <2>1 DEF Owes, LoseReply, Idle
  <2>4. Due(u, d)' <= Due(u, d) /\ May(u, d)' = May(u, d)
    BY <1>1, <2>2, <2>3 DEF Moved
  <2> QED
    BY <1>1, <1>7, <2>4 DEF Faults, LoseReply
<1>8. CASE Crash
  <2>1. InFlight(u, d)' = {} /\ Pending(u, d)' = {}
    BY <1>8 DEF Crash, InFlight, Pending, Idle
  <2>2. Due(u, d)' = 0 /\ May(u, d)' = 0
    BY <1>1, <2>1, FS_EmptySet DEF Due, May
  <2> QED
    BY <1>1, <1>8, <2>2 DEF Faults, Crash
<1>9. CASE NextDay \/ UNCHANGED vars
  <2>1. UNCHANGED <<claimed, req, paid, faults>>
    BY <1>9 DEF NextDay, vars
  <2>2. Due(u, d)' = Due(u, d) /\ May(u, d)' = May(u, d)
    BY <2>1 DEF Due, May, InFlight, Pending
  <2> QED
    BY <1>1, <2>1, <2>2 DEF Waits
<1> QED
  BY <1>2, <1>3, <1>4, <1>5, <1>6, <1>7, <1>8, <1>9 DEF Next

LEMMA Invariance == Spec => []IInv
<1> DEFINE Books == \A u \in Users, d \in Days : BooksOK(u, d)
<1>1. Init /\ TypeOK => Books
  <2> SUFFICES ASSUME Init, TypeOK, NEW u \in Users, NEW d \in Days
               PROVE  BooksOK(u, d)
    OBVIOUS
  <2>1. InFlight(u, d) = {}
    BY DEF Init, InFlight, Idle
  <2>2. Due(u, d) = 0
    BY <2>1, FS_EmptySet, FaucetAssumption DEF Due
  <2>3. Overdraft \in Nat
    BY AmountsTyped
  <2>4. claimed[u][d] = 0 /\ paid[u][d] = 0 /\ Claim <= DailyLimit /\ Claim \in Nat /\ DailyLimit \in Nat
    BY FaucetAssumption DEF Init
  <2> QED
    BY <2>2, <2>3, <2>4 DEF BooksOK
<1>2. TypeOK /\ TypeOK' /\ Books /\ [Next]_vars => Books'
  BY BooksKept, StepBooks
<1> HIDE DEF Books
<1>3. TypeOK /\ RecordedWithinLimit /\ Books => IInv
  BY DEF Books, IInv
<1> QED
  BY <1>1, <1>2, <1>3, FaucetTypeCorrect, RecordedLimit, PTL DEF Spec

\* A user is charged quota only for payments that the node accepted, once for each.
THEOREM ChargesAreForPayments == Spec => []ChargedOnlyIfPaid
<1>1. IInv => ChargedOnlyIfPaid
  BY DEF IInv, BooksOK, ChargedOnlyIfPaid, Due
<1> QED
  BY <1>1, Invariance, PTL

\* Racing claims overdraw a user's day by one claim for every other request that
\* may be in flight, and by those that a fault took along.
THEOREM OverdraftIsBounded == Spec => []OverdraftBounded
<1>1. IInv => OverdraftBounded
  <2> SUFFICES ASSUME TypeOK, NEW u \in Users, NEW d \in Days, BooksOK(u, d)
               PROVE  paid[u][d] <= DailyLimit + Claim * (Cardinality(Reqs) - 1) + Overdraft
    BY DEF IInv, OverdraftBounded, Overdraft
  <2>1. /\ Due(u, d) \in Nat /\ May(u, d) \in Nat /\ Most \in Nat /\ Overdraft \in Nat
        /\ Due(u, d) + May(u, d) <= Most
    BY AmountsTyped
  <2>2. /\ claimed[u][d] \in Nat /\ paid[u][d] \in Nat /\ DailyLimit \in Nat /\ Claim \in Nat
        /\ Cardinality(Reqs) \in Nat
    BY FaucetAssumption, FS_CardinalityType DEF TypeOK
  <2>3. Claim * (Cardinality(Reqs) - 1) = Most - Claim
    BY <2>2 DEF Most
  <2> QED
    BY <2>1, <2>2, <2>3 DEF BooksOK
<1> QED
  BY <1>1, Invariance, PTL

-----------------------------------------------------------------------------
(***************************************************************************)
(* Accounts, for any number of addresses, phones, accounts, codes and      *)
(* waiting requests.                                                       *)
(*                                                                         *)
(* AnnouncedIsThere is not inductive: a sign-up that waits for its welcome *)
(* mail removes an account by its number if the mail fails.  AccountsIInv  *)
(* says whose number that is: an account that this request made, that no   *)
(* other request waits for and that was not announced.  That a new account *)
(* has a number of its own needs, in turn, that every number in use is     *)
(* below the next one.  MailWasRead needs that every code on file was      *)
(* mailed to its address for its account (MailOK).                         *)
(***************************************************************************)

Mailing == [pc: {"mailing"}, purpose: Purposes, email: Emails, code: CodeIds]
Resetting == [pc: {"resetting"}, email: Emails, code: CodeIds]
Welcoming == [pc: {"welcoming"}, user: Ids, email: Emails]
AccountsHandlers == {Idle} \cup Mailing \cup Resetting \cup Welcoming

\* The accounts that requests in flight have made and not yet answered for.
WaitsFor(h, id) == h.pc = "welcoming" /\ h.user = id

\* The accounts: their types, one account for a number, an address or a phone,
\* numbers below the next one, and nothing announced that is not there.
AccountsOK ==
    /\ users \subseteq UserRecord /\ \A u, v \in users : u.id = v.id => u = v
    /\ frozen \subseteq Ids /\ announced \subseteq Ids /\ nextUser \in 1..(MaxUsers + 1)
    /\ \A u \in users : u.id < nextUser
    /\ IdentityIsUnique /\ AnnouncedIsThere

\* The codes, and the mails that arrived.
CodesOK ==
    /\ codes \subseteq CodeRecord
    /\ \A c, d \in codes : c.purpose = d.purpose /\ c.email = d.email => c = d
    /\ resets \subseteq [email: Emails, code: CodeIds]
    /\ inbox \subseteq [email: Emails, code: CodeIds]
    /\ nextCode \in 1..(MaxCodes + 1)

\* What was mailed, and the codes of now among it: what is typed was mailed for
\* what the code's record says.
Sent(c) == [purpose |-> c.purpose, email |-> c.email, user |-> c.user, code |-> c.code]
MailOK ==
    /\ mailed \subseteq MailRecord /\ sessions \subseteq [user: Ids, code: CodeIds]
    /\ \A c \in codes : Sent(c) \in mailed
    /\ MailWasRead

\* A sign-up waits for an account of its own, which was not announced.
RequestsOK ==
    /\ req \in [Reqs -> AccountsHandlers]
    /\ \A r \in Reqs, id \in Ids : WaitsFor(req[r], id) => id < nextUser /\ id \notin announced
    /\ \A r, q \in Reqs, id \in Ids : WaitsFor(req[r], id) /\ WaitsFor(req[q], id) => r = q

AccountsIInv == AccountsOK /\ CodesOK /\ MailOK /\ RequestsOK

-----------------------------------------------------------------------------
\* What AccountsIInv was found for: the types and the three promises.
LEMMA InvariantImplies ==
    ASSUME AccountsIInv
    PROVE  AccountsTypeOK /\ IdentityIsUnique /\ MailWasRead /\ AnnouncedIsThere
<1>1. \A r \in Reqs : req[r].pc \in {"idle", "mailing", "resetting", "welcoming"}
  <2>1. \A h \in Mailing : h.pc = "mailing"
    BY DEF Mailing
  <2>2. \A h \in Resetting : h.pc = "resetting"
    BY DEF Resetting
  <2>3. \A h \in Welcoming : h.pc = "welcoming"
    BY DEF Welcoming
  <2>4. Idle.pc = "idle"
    BY DEF Idle
  <2>5. \A h \in AccountsHandlers : h.pc \in {"idle", "mailing", "resetting", "welcoming"}
    <3> SUFFICES ASSUME NEW h \in AccountsHandlers
                 PROVE  h.pc \in {"idle", "mailing", "resetting", "welcoming"}
      OBVIOUS
    <3>1. CASE h = Idle
      BY <2>4, <3>1
    <3>2. CASE h \in Mailing
      BY <2>1, <3>2
    <3>3. CASE h \in Resetting
      BY <2>2, <3>3
    <3>4. CASE h \in Welcoming
      BY <2>3, <3>4
    <3> QED
      BY <3>1, <3>2, <3>3, <3>4 DEF AccountsHandlers
  <2>6. \A r \in Reqs : req[r] \in AccountsHandlers
    BY DEF AccountsIInv, RequestsOK
  <2> QED
    BY <2>5, <2>6
<1> QED
  BY <1>1 DEF AccountsIInv, AccountsOK, CodesOK, MailOK, AccountsTypeOK

\* What is known of a request by what it waits for.
LEMMA HandlerTyped ==
    ASSUME RequestsOK, NEW r \in Reqs
    PROVE  /\ req[r].pc = "mailing" => req[r] \in Mailing
           /\ req[r].pc = "resetting" => req[r] \in Resetting
           /\ req[r].pc = "welcoming" => req[r] \in Welcoming
BY DEF RequestsOK, AccountsHandlers, Idle, Mailing, Resetting, Welcoming

\* A request that comes to wait for no account leaves the others as they are.
LEMMA OtherWaitsKept ==
    ASSUME RequestsOK, NEW r \in Reqs, NEW h \in AccountsHandlers, h.pc # "welcoming",
           Become(r, h), UNCHANGED <<announced, nextUser>>
    PROVE  RequestsOK'
BY DEF RequestsOK, Become, WaitsFor

\* An account that is written anew under its number, with an address and a
\* phone that no other account has, keeps everything that is said of accounts.
LEMMA RewriteKept ==
    ASSUME AccountsOK, NEW u \in users, NEW v \in UserRecord, v.id = u.id,
           ~ Taken(v.email, v.phone, u.id), users' = (users \ {u}) \cup {v},
           UNCHANGED <<frozen, announced, nextUser>>
    PROVE  AccountsOK'
<1>1. \A x \in users' : x = v
          \/ /\ x \in users /\ x.id # v.id /\ x.email # v.email
             /\ x.phone # v.phone \/ v.phone \in NoDigits
  BY DEF AccountsOK, Taken
<1>2. IdentityIsUnique' /\ \A x, y \in users' : x.id = y.id => x = y
  BY <1>1 DEF AccountsOK, IdentityIsUnique
<1>3. AnnouncedIsThere'
  BY DEF AccountsOK, AnnouncedIsThere
<1> QED
  BY <1>2, <1>3 DEF AccountsOK

\* Taking accounts away keeps it too, if none of them was announced.
LEMMA RemovalKept ==
    ASSUME AccountsOK, users' \subseteq users, frozen' \subseteq frozen,
           announced' \subseteq announced,
           \A u \in users : u.id \in announced' => u \in users', nextUser' = nextUser
    PROVE  AccountsOK'
<1>1. AnnouncedIsThere'
  BY DEF AccountsOK, AnnouncedIsThere
<1> QED
  BY <1>1 DEF AccountsOK, IdentityIsUnique

\* No other account has the address or the phone of an account.
LEMMA OwnIdentityFree ==
    ASSUME AccountsOK, NEW u \in users
    PROVE  ~ Taken(u.email, u.phone, u.id)
BY DEF AccountsOK, IdentityIsUnique, Taken

\* Mails that were read stay read, so accounts keep theirs with their address.
LEMMA MailKept ==
    ASSUME MailOK, mailed \subseteq mailed', inbox \subseteq inbox', mailed' \subseteq MailRecord,
           sessions' \subseteq [user: Ids, code: CodeIds],
           \A c \in codes' : Sent(c) \in mailed',
           \A v \in users' : \/ \E u \in users : u.id = v.id /\ u.email = v.email
                             \/ AddressRead(v)',
           \A s \in sessions' : s \in sessions \/ LoginRead(s)'
    PROVE  MailOK'
<1>1. \A m : Arrived(m) => Arrived(m)'
  BY DEF Arrived
<1>2. ASSUME NEW v \in users' PROVE AddressRead(v)'
  <2>1. SUFFICES ASSUME NEW u \in users, u.id = v.id, u.email = v.email
                 PROVE  AddressRead(v)'
    BY <1>2
  <2>2. PICK m \in mailed : /\ m.email = u.email /\ Arrived(m)
                            /\ m.purpose = "signup" \/ (m.purpose = "profile_email" /\ m.user = u.id)
    BY DEF MailOK, MailWasRead, AddressRead
  <2> QED
    BY <1>1, <2>1, <2>2 DEF AddressRead
<1>3. ASSUME NEW s \in sessions' PROVE LoginRead(s)'
  <2>1. SUFFICES ASSUME s \in sessions PROVE LoginRead(s)'
    BY <1>3
  <2>2. PICK m \in mailed :
           m.purpose = "login" /\ m.user = s.user /\ m.code = s.code /\ Arrived(m)
    BY <2>1 DEF MailOK, MailWasRead, LoginRead
  <2> QED
    BY <1>1, <2>2 DEF LoginRead
<1> QED
  BY <1>2, <1>3 DEF MailOK, MailWasRead

\* In particular where no code is sent and nobody logs in or changes address.
LEMMA NoMailKept ==
    ASSUME MailOK, UNCHANGED mailed, inbox \subseteq inbox', sessions' \subseteq sessions,
           \A c \in codes' : \E d \in codes : Sent(d) = Sent(c),
           \A v \in users' : \E u \in users : u.id = v.id /\ u.email = v.email
    PROVE  MailOK'
<1>1. \A c \in codes' : Sent(c) \in mailed'
  BY DEF MailOK
<1> QED
  BY <1>1, MailKept DEF MailOK

\* A code that is sent replaces the one of its purpose and address.
LEMMA SendKept ==
    ASSUME AccountsIInv, NEW r \in Reqs, NEW purpose \in Purposes, NEW email \in Emails,
           NEW user \in Ids \cup {None}, NEW phone \in Phones, NEW pass \in Passwords,
           SendCode(r, purpose, email, user, phone, pass)
    PROVE  AccountsIInv'
<1> DEFINE c == [purpose |-> purpose, email |-> email, code |-> nextCode, user |-> user,
                 phone |-> phone, pass |-> pass, attempts |-> 0]
           h == [pc |-> "mailing", purpose |-> purpose, email |-> email, code |-> nextCode]
<1>1. nextCode \in CodeIds /\ nextCode' \in 1..(MaxCodes + 1)
  BY AccountsAssumption DEF AccountsIInv, CodesOK, SendCode, CodeIds
<1>2. c \in CodeRecord
  BY <1>1, AccountsAssumption DEF CodeRecord
<1>3. codes' = Without(purpose, email) \cup {c} /\ UNCHANGED <<resets, inbox>>
  BY DEF SendCode
<1>4. c.purpose = purpose /\ c.email = email
  OBVIOUS
<1> HIDE DEF c
<1>5. CodesOK'
  BY <1>1, <1>2, <1>3, <1>4 DEF AccountsIInv, CodesOK, Without
<1>6. h \in AccountsHandlers /\ h.pc # "welcoming"
  BY <1>1 DEF AccountsHandlers, Mailing
<1>7. RequestsOK'
  BY <1>6, OtherWaitsKept DEF AccountsIInv, SendCode, stores
<1>8. MailOK'
  <2> DEFINE m == [purpose |-> purpose, email |-> email, user |-> user, code |-> nextCode]
  <2>1. m \in MailRecord /\ mailed' = mailed \cup {m} /\ Sent(c) = m
    BY <1>1 DEF MailRecord, SendCode, Sent, c
  <2> HIDE DEF m
  <2>2. \A d \in codes' : Sent(d) \in mailed'
    BY <1>3, <2>1 DEF AccountsIInv, MailOK, Without
  <2>3. UNCHANGED <<users, sessions>> /\ inbox \subseteq inbox'
    BY <1>3 DEF SendCode, stores
  <2> QED
    BY <2>1, <2>2, <2>3, MailKept DEF AccountsIInv, MailOK
<1> QED
  BY <1>5, <1>7, <1>8 DEF AccountsIInv, AccountsOK, SendCode, stores,
     IdentityIsUnique, AnnouncedIsThere

\* Dropping codes keeps what is said of them.
LEMMA FewerCodes ==
    ASSUME CodesOK, codes' \subseteq codes, resets' \subseteq resets, UNCHANGED <<inbox, nextCode>>
    PROVE  CodesOK'
BY DEF CodesOK

LEMMA IdleTyped == Idle \in AccountsHandlers /\ Idle.pc # "welcoming" /\ Idle.pc = "idle"
BY DEF AccountsHandlers, Idle

-----------------------------------------------------------------------------
\* The steps that change accounts.

LEMMA SignupVerifyKept ==
    ASSUME AccountsIInv, NEW r \in Reqs, NEW c \in codes, SignupVerify(r, c)
    PROVE  AccountsIInv'
<1> DEFINE u == [id |-> nextUser, email |-> c.email, phone |-> c.phone, pass |-> c.pass]
           h == [pc |-> "welcoming", user |-> nextUser, email |-> c.email]
<1>1. nextUser \in Ids /\ nextUser' = nextUser + 1 /\ nextUser' \in 1..(MaxUsers + 1)
  BY AccountsAssumption DEF AccountsIInv, AccountsOK, SignupVerify, Ids
<1>2. c \in CodeRecord
  BY DEF AccountsIInv, CodesOK
<1>3. u \in UserRecord /\ h \in AccountsHandlers
  BY <1>1, <1>2 DEF UserRecord, CodeRecord, AccountsHandlers, Welcoming
<1>4. users' = users \cup {u} /\ u.id = nextUser /\ u.email = c.email /\ u.phone = c.phone
  BY DEF SignupVerify
<1>5. \A x \in users : x.id < nextUser /\ x.id \in Ids
  BY DEF AccountsIInv, AccountsOK, UserRecord
<1>6. \A x \in users : /\ x.id # u.id /\ x.email # u.email
                       /\ x.phone # u.phone \/ u.phone \in NoDigits
  <2>1. \A x \in users : x.id # None
    BY <1>5 DEF Ids, None
  <2>2. \A x \in users : x.email # c.email /\ (x.phone # c.phone \/ c.phone \in NoDigits)
    BY <2>1 DEF SignupVerify, Taken
  <2> QED
    BY <1>1, <1>4, <1>5, <2>2 DEF Ids
<1>7. UNCHANGED <<frozen, announced>>
  BY DEF SignupVerify
<1>8. \A x \in users' : x.id < nextUser'
  BY <1>1, <1>4, <1>5 DEF Ids
<1> HIDE DEF u
<1>9. AccountsOK'
  <2>1. IdentityIsUnique'
    <3>1. \A x, y \in users : x.email = y.email \/ (x.phone = y.phone /\ x.phone \notin NoDigits)
             => x = y
      BY DEF AccountsIInv, AccountsOK, IdentityIsUnique
    <3>2. \A x \in users' : x \in users \/ x = u
      BY <1>4
    <3>3. ASSUME NEW x \in users', NEW y \in users',
                 x.email = y.email \/ (x.phone = y.phone /\ x.phone \notin NoDigits)
          PROVE  x = y
      <4>1. CASE x \in users /\ y \in users
        BY <3>1, <3>3, <4>1
      <4>2. CASE x = u /\ y \in users
        BY <1>6, <3>3, <4>2
      <4>3. CASE x \in users /\ y = u
        BY <1>6, <3>3, <4>3
      <4> QED
        BY <3>2, <4>1, <4>2, <4>3
    <3> QED
      BY <3>3 DEF IdentityIsUnique
  <2>2. AnnouncedIsThere'
    BY <1>4, <1>7 DEF AccountsIInv, AccountsOK, AnnouncedIsThere
  <2> QED
    BY <1>1, <1>3, <1>4, <1>6, <1>7, <1>8, <2>1, <2>2 DEF AccountsIInv, AccountsOK
<1>10. RequestsOK'
  <2>1. req' = [req EXCEPT ![r] = h] /\ req \in [Reqs -> AccountsHandlers]
    BY DEF AccountsIInv, RequestsOK, SignupVerify, Become
  <2>2. nextUser \notin announced
    BY <1>1, <1>5 DEF AccountsIInv, AccountsOK, AnnouncedIsThere, Ids
  <2>3. \A q \in Reqs, id \in Ids : WaitsFor(req[q], id) => id < nextUser /\ id \notin announced
    BY DEF AccountsIInv, RequestsOK
  <2>4. \A q \in Reqs \ {r} : req'[q] = req[q]
    BY <2>1
  <2>5. req'[r] = h /\ \A id \in Ids : WaitsFor(h, id) => id = nextUser
    BY <2>1 DEF WaitsFor
  <2>6. \A q \in Reqs, id \in Ids :
           WaitsFor(req'[q], id)
               => id < nextUser' /\ id \notin announced /\ (q # r => id < nextUser)
    BY <1>1, <2>2, <2>3, <2>4, <2>5 DEF Ids
  <2>7. \A q, p \in Reqs, id \in Ids : WaitsFor(req'[q], id) /\ WaitsFor(req'[p], id) => q = p
    BY <1>1, <2>4, <2>5, <2>6 DEF AccountsIInv, RequestsOK, Ids
  <2> QED
    BY <1>3, <1>7, <2>1, <2>6, <2>7 DEF RequestsOK, WaitsFor
<1>11. MailOK'
  <2>1. UNCHANGED <<codes, inbox, mailed, sessions>>
    BY DEF SignupVerify
  <2>2. Sent(c) \in mailed' /\ Arrived(Sent(c))'
    BY <2>1 DEF AccountsIInv, MailOK, SignupVerify, Typed, Arrived, Sent
  <2>3. Sent(c).email = u.email /\ Sent(c).purpose = "signup"
    BY <1>4 DEF SignupVerify, Sent
  <2>4. \A v : v = u => AddressRead(v)'
    BY <2>2, <2>3 DEF AddressRead
  <2>5. \A v \in users' : v \in users \/ v = u
    BY <1>4
  <2> QED
    BY <2>1, <2>4, <2>5, MailKept DEF AccountsIInv, MailOK
<1> QED
  BY <1>9, <1>10, <1>11 DEF AccountsIInv, CodesOK, SignupVerify

LEMMA SignedUpKept ==
    ASSUME AccountsIInv, NEW r \in Reqs, SignedUp(r)
    PROVE  AccountsIInv'
<1> DEFINE id == req[r].user
<1>1. req[r] \in Welcoming /\ id \in Ids /\ WaitsFor(req[r], id)
  BY HandlerTyped DEF AccountsIInv, SignedUp, Welcoming, WaitsFor
<1>2. announced' = announced \cup ({id} \cap {u.id : u \in users})
  BY DEF SignedUp
<1>3. AccountsOK'
  BY <1>1, <1>2 DEF AccountsIInv, AccountsOK, IdentityIsUnique, AnnouncedIsThere, SignedUp
<1>4. RequestsOK'
  <2>1. req' = [req EXCEPT ![r] = Idle] /\ req \in [Reqs -> AccountsHandlers]
    BY DEF AccountsIInv, RequestsOK, SignedUp, Become
  <2>2. ~ \E x \in Ids : WaitsFor(req'[r], x)
    BY <2>1, IdleTyped DEF WaitsFor
  <2>3. \A q \in Reqs, x \in Ids : WaitsFor(req'[q], x) => q # r /\ WaitsFor(req[q], x)
    BY <2>1, <2>2
  <2>4. \A q \in Reqs \ {r}, x \in Ids : WaitsFor(req[q], x) => x # id
    BY <1>1 DEF AccountsIInv, RequestsOK
  <2>5. \A q \in Reqs, x \in Ids : WaitsFor(req'[q], x) => x < nextUser /\ x \notin announced'
    BY <1>2, <2>3, <2>4 DEF AccountsIInv, RequestsOK
  <2> QED
    BY <2>1, <2>3, <2>5, IdleTyped DEF AccountsIInv, RequestsOK, SignedUp, WaitsFor
<1>5. CodesOK'
  BY FewerCodes DEF AccountsIInv, SignedUp, Without
<1>6. MailOK'
  BY NoMailKept DEF AccountsIInv, SignedUp, Without
<1> QED
  BY <1>3, <1>4, <1>5, <1>6 DEF AccountsIInv

\* The account that goes is the one this request made.
LEMMA SignupRollbackKept ==
    ASSUME AccountsIInv, NEW r \in Reqs, SignupRollback(r)
    PROVE  AccountsIInv'
<1> DEFINE id == req[r].user
<1>1. req[r] \in Welcoming /\ id \in Ids /\ WaitsFor(req[r], id)
  BY HandlerTyped DEF AccountsIInv, SignupRollback, Welcoming, WaitsFor
<1>2. id \notin announced
  BY <1>1 DEF AccountsIInv, RequestsOK
<1>3. users' = {u \in users : u.id # id} /\ frozen' \subseteq frozen
      /\ UNCHANGED <<announced, nextUser>>
  BY DEF SignupRollback, RolledBack
<1>4. AccountsOK'
  BY <1>2, <1>3, RemovalKept DEF AccountsIInv
<1>5. RequestsOK'
  BY <1>3, IdleTyped, OtherWaitsKept DEF AccountsIInv, SignupRollback
<1>6. MailOK'
  BY <1>3, NoMailKept DEF AccountsIInv, SignupRollback
<1> QED
  BY <1>4, <1>5, <1>6 DEF AccountsIInv, CodesOK, SignupRollback

LEMMA ResetConfirmKept ==
    ASSUME AccountsIInv, NEW x \in resets, NEW u \in users, NEW w \in Passwords,
           ResetConfirm(x, u, w)
    PROVE  AccountsIInv'
<1> DEFINE v == [u EXCEPT !.pass = w]
<1>1. u \in UserRecord
  BY DEF AccountsIInv, AccountsOK
<1>2. v \in UserRecord /\ v.id = u.id /\ v.email = u.email /\ v.phone = u.phone
  BY <1>1 DEF UserRecord
<1>3. users' = (users \ {u}) \cup {v} /\ UNCHANGED <<frozen, announced, nextUser>>
  BY DEF ResetConfirm
<1> HIDE DEF v
<1>4. AccountsOK'
  BY <1>2, <1>3, OwnIdentityFree, RewriteKept DEF AccountsIInv
<1>5. CodesOK'
  BY FewerCodes DEF AccountsIInv, ResetConfirm
<1>6. MailOK'
  BY <1>2, <1>3, NoMailKept DEF AccountsIInv, ResetConfirm
<1> QED
  BY <1>4, <1>5, <1>6 DEF AccountsIInv, RequestsOK, ResetConfirm

LEMMA SavePhoneKept ==
    ASSUME AccountsIInv, NEW s \in sessions, NEW phone \in Phones, SavePhone(s, phone)
    PROVE  AccountsIInv'
<1>1. PICK u \in Owner(s) : /\ ~ Taken(u.email, phone, u.id)
                            /\ users' = (users \ {u}) \cup {[u EXCEPT !.phone = phone]}
  BY DEF SavePhone
<1> DEFINE v == [u EXCEPT !.phone = phone]
<1>2. u \in users /\ u \in UserRecord
  BY DEF AccountsIInv, AccountsOK, Owner
<1>3. v \in UserRecord /\ v.id = u.id /\ v.email = u.email /\ v.phone = phone
  BY <1>2 DEF UserRecord
<1>4. users' = (users \ {u}) \cup {v} /\ UNCHANGED <<frozen, announced, nextUser>>
  BY <1>1 DEF SavePhone
<1> HIDE DEF v
<1>5. AccountsOK'
  BY <1>1, <1>2, <1>3, <1>4, RewriteKept DEF AccountsIInv
<1>6. v.email = u.email
  BY <1>2 DEF UserRecord, v
<1>7. MailOK'
  BY <1>2, <1>3, <1>4, <1>6, NoMailKept DEF AccountsIInv, SavePhone
<1> QED
  BY <1>5, <1>7 DEF AccountsIInv, CodesOK, RequestsOK, SavePhone

LEMMA ChangePasswordKept ==
    ASSUME AccountsIInv, NEW s \in sessions, NEW current \in Passwords, NEW pass \in Passwords,
           ChangePassword(s, current, pass)
    PROVE  AccountsIInv'
<1>1. PICK u \in Owner(s) : users' = (users \ {u}) \cup {[u EXCEPT !.pass = pass]}
  BY DEF ChangePassword
<1> DEFINE v == [u EXCEPT !.pass = pass]
<1>2. u \in users /\ u \in UserRecord
  BY DEF AccountsIInv, AccountsOK, Owner
<1>3. v \in UserRecord /\ v.id = u.id /\ v.email = u.email /\ v.phone = u.phone
  BY <1>2 DEF UserRecord
<1>4. users' = (users \ {u}) \cup {v} /\ UNCHANGED <<frozen, announced, nextUser>>
  BY <1>1 DEF ChangePassword
<1> HIDE DEF v
<1>5. AccountsOK'
  BY <1>2, <1>3, <1>4, OwnIdentityFree, RewriteKept DEF AccountsIInv
<1>6. MailOK'
  BY <1>2, <1>3, <1>4, NoMailKept DEF AccountsIInv, ChangePassword
<1> QED
  BY <1>5, <1>6 DEF AccountsIInv, CodesOK, RequestsOK, ChangePassword

\* The profile that is written is an old one; its address and phone are
\* compared with the accounts of now.
LEMMA EmailChangeVerifyKept ==
    ASSUME AccountsIInv, NEW s \in sessions, NEW c \in codes, EmailChangeVerify(s, c)
    PROVE  AccountsIInv'
<1>1. PICK u \in Owner(s) :
         users' = (users \ {u}) \cup {[u EXCEPT !.email = c.email, !.phone = c.phone]}
  BY DEF EmailChangeVerify
<1> DEFINE v == [u EXCEPT !.email = c.email, !.phone = c.phone]
<1>2. u \in users /\ u \in UserRecord /\ u.id = s.user /\ c \in CodeRecord
  BY DEF AccountsIInv, AccountsOK, CodesOK, Owner
<1>3. v \in UserRecord /\ v.id = u.id /\ v.email = c.email /\ v.phone = c.phone
  BY <1>2 DEF UserRecord, CodeRecord
<1>4. users' = (users \ {u}) \cup {v} /\ UNCHANGED <<frozen, announced, nextUser>>
  BY <1>1 DEF EmailChangeVerify
<1>5. ~ Taken(c.email, c.phone, u.id)
  BY <1>2 DEF EmailChangeVerify
<1> HIDE DEF v
<1>6. AccountsOK'
  BY <1>2, <1>3, <1>4, <1>5, RewriteKept DEF AccountsIInv
<1>7. CodesOK'
  BY FewerCodes DEF AccountsIInv, EmailChangeVerify, Without
<1>8. MailOK'
  <2>1. AddressRead(v)'
    BY <1>2, <1>3 DEF AccountsIInv, MailOK, EmailChangeVerify, Typed, AddressRead, Arrived, Sent
  <2>2. UNCHANGED <<inbox, mailed, sessions>> /\ codes' \subseteq codes
    BY DEF EmailChangeVerify, Without
  <2> QED
    BY <1>4, <2>1, <2>2, MailKept DEF AccountsIInv, MailOK
<1> QED
  BY <1>6, <1>7, <1>8 DEF AccountsIInv, RequestsOK, EmailChangeVerify

LEMMA DeleteKept ==
    ASSUME AccountsIInv, NEW u \in users, Delete(u)
    PROVE  AccountsIInv'
<1>1. AccountsOK'
  BY RemovalKept DEF AccountsIInv, Delete
<1>2. RequestsOK'
  BY DEF AccountsIInv, RequestsOK, WaitsFor, Delete
<1>3. MailOK'
  BY NoMailKept DEF AccountsIInv, Delete
<1> QED
  BY <1>1, <1>2, <1>3 DEF AccountsIInv, CodesOK, Delete

-----------------------------------------------------------------------------
\* The steps that leave the accounts alone, but for what is frozen.

LEMMA LoginVerifyKept ==
    ASSUME AccountsIInv, NEW c \in codes, LoginVerify(c)
    PROVE  AccountsIInv'
<1>1. CodesOK'
  BY FewerCodes DEF AccountsIInv, LoginVerify, Without
<1>2. MailOK'
  <2>1. UNCHANGED <<users, inbox, mailed>> /\ codes' \subseteq codes
    BY DEF LoginVerify, Without, stores
  <2>2. \A s \in sessions' \ sessions : \E u \in users : s = [user |-> u.id, code |-> c.code]
            /\ c.user = u.id
    BY DEF LoginVerify, Asked, UserAt
  <2>3. c \in CodeRecord /\ \A u \in users : u.id \in Ids
    BY DEF AccountsIInv, AccountsOK, CodesOK, UserRecord
  <2>4. Sent(c) \in mailed' /\ Arrived(Sent(c))' /\ c.purpose = "login"
    BY <2>1 DEF AccountsIInv, MailOK, LoginVerify, Typed, Arrived, Sent
  <2>5. \A s \in sessions' \ sessions : LoginRead(s)' /\ s \in [user: Ids, code: CodeIds]
    BY <2>2, <2>3, <2>4 DEF LoginRead, Sent, CodeRecord
  <2> QED
    BY <2>1, <2>5, MailKept DEF AccountsIInv, MailOK
<1> QED
  BY <1>1, <1>2 DEF AccountsIInv, AccountsOK, IdentityIsUnique, AnnouncedIsThere,
     RequestsOK, LoginVerify, stores

LEMMA MistypeKept ==
    ASSUME AccountsIInv, NEW c \in codes, Mistype(c)
    PROVE  AccountsIInv'
<1> DEFINE d == [c EXCEPT !.attempts = c.attempts + 1]
<1>1. c \in CodeRecord
  BY DEF AccountsIInv, CodesOK
<1>2. c.attempts < MaxAttempts =>
        d \in CodeRecord /\ d.purpose = c.purpose /\ d.email = c.email
  BY <1>1, AccountsAssumption DEF CodeRecord
<1>3. codes' \subseteq codes \/ (c.attempts < MaxAttempts /\ codes' = (codes \ {c}) \cup {d})
  BY DEF Mistype
<1>4. c.attempts < MaxAttempts => Sent(d) = Sent(c)
  BY <1>1 DEF Sent, CodeRecord
<1> HIDE DEF d
<1>5. CodesOK'
  BY <1>2, <1>3 DEF AccountsIInv, CodesOK, Mistype
<1>6. MailOK'
  BY <1>3, <1>4, NoMailKept DEF AccountsIInv, Mistype, stores
<1> QED
  BY <1>5, <1>6 DEF AccountsIInv, AccountsOK, IdentityIsUnique, AnnouncedIsThere, RequestsOK,
     Mistype, stores

LEMMA MailArrivesKept ==
    ASSUME AccountsIInv, NEW r \in Reqs, MailArrives(r)
    PROVE  AccountsIInv'
<1>1. req[r].email \in Emails /\ req[r].code \in CodeIds
  BY HandlerTyped DEF AccountsIInv, MailArrives, Mailing, Resetting
<1>2. CodesOK'
  BY <1>1 DEF AccountsIInv, CodesOK, MailArrives
<1>3. MailOK'
  BY NoMailKept DEF AccountsIInv, MailArrives, stores
<1> QED
  BY <1>2, <1>3 DEF AccountsIInv, AccountsOK, IdentityIsUnique, AnnouncedIsThere, RequestsOK,
     MailArrives, stores

\* A request ends, and nothing else happens but that codes may go.
LEMMA AnswerKept ==
    ASSUME AccountsIInv, NEW r \in Reqs, MailSent(r) \/ MailFailed(r) \/ ResetAnswered(r)
    PROVE  AccountsIInv'
<1>1. UNCHANGED <<stores, resets, inbox, mailed, sessions, nextCode>> /\ Become(r, Idle)
      /\ codes' \subseteq codes
  BY DEF MailSent, MailFailed, ResetAnswered, Without
<1>2. RequestsOK'
  BY <1>1, IdleTyped, OtherWaitsKept DEF AccountsIInv, stores
<1>3. CodesOK'
  BY <1>1, FewerCodes DEF AccountsIInv
<1>4. MailOK'
  BY <1>1, NoMailKept DEF AccountsIInv, stores
<1> QED
  BY <1>1, <1>2, <1>3, <1>4 DEF AccountsIInv, AccountsOK, IdentityIsUnique, AnnouncedIsThere,
     stores

LEMMA ResetRequestKept ==
    ASSUME AccountsIInv, NEW r \in Reqs, NEW u \in users, ResetRequest(r, u)
    PROVE  AccountsIInv'
<1> DEFINE h == [pc |-> "resetting", email |-> u.email, code |-> nextCode]
<1>1. nextCode \in CodeIds /\ nextCode' \in 1..(MaxCodes + 1)
  BY AccountsAssumption DEF AccountsIInv, CodesOK, ResetRequest, CodeIds
<1>2. u.email \in Emails
  BY DEF AccountsIInv, AccountsOK, UserRecord
<1>3. CodesOK'
  BY <1>1, <1>2 DEF AccountsIInv, CodesOK, ResetRequest
<1>4. h \in AccountsHandlers /\ h.pc # "welcoming"
  BY <1>1, <1>2 DEF AccountsHandlers, Resetting
<1>5. RequestsOK'
  BY <1>4, OtherWaitsKept DEF AccountsIInv, ResetRequest, stores
<1>6. MailOK'
  BY NoMailKept DEF AccountsIInv, ResetRequest, stores
<1> QED
  BY <1>3, <1>5, <1>6 DEF AccountsIInv, AccountsOK, IdentityIsUnique, AnnouncedIsThere,
     ResetRequest, stores

\* The steps that only take codes or sessions away.
LEMMA DropKept ==
    ASSUME AccountsIInv, UNCHANGED <<stores, inbox, mailed, req, nextCode>>, codes' \subseteq codes,
           resets' \subseteq resets, sessions' \subseteq sessions
    PROVE  AccountsIInv'
<1>1. CodesOK'
  BY FewerCodes DEF AccountsIInv
<1>2. MailOK'
  BY NoMailKept DEF AccountsIInv, stores
<1> QED
  BY <1>1, <1>2 DEF AccountsIInv, AccountsOK, IdentityIsUnique, AnnouncedIsThere, RequestsOK,
     stores

LEMMA FreezeKept ==
    ASSUME AccountsIInv, NEW u \in users, Freeze(u) \/ Unfreeze(u)
    PROVE  AccountsIInv'
<1>1. u.id \in Ids
  BY DEF AccountsIInv, AccountsOK, UserRecord
<1>2. /\ UNCHANGED <<users, announced, nextUser, codes, resets, inbox, mailed, sessions, req, nextCode>>
      /\ frozen' \subseteq Ids
  BY <1>1 DEF AccountsIInv, AccountsOK, Freeze, Unfreeze
<1>3. MailOK'
  BY <1>2, NoMailKept DEF AccountsIInv
<1> QED
  BY <1>2, <1>3 DEF AccountsIInv, AccountsOK, IdentityIsUnique, AnnouncedIsThere, CodesOK, RequestsOK

LEMMA RestartKept ==
    ASSUME AccountsIInv, Restart
    PROVE  AccountsIInv'
<1>1. req' \in [Reqs -> AccountsHandlers] /\ \A r \in Reqs, id \in Ids : ~ WaitsFor(req'[r], id)
  BY IdleTyped DEF Restart, WaitsFor
<1>2. MailOK'
  BY NoMailKept DEF AccountsIInv, Restart, stores
<1> QED
  BY <1>1, <1>2 DEF AccountsIInv, AccountsOK, IdentityIsUnique, AnnouncedIsThere, CodesOK, RequestsOK,
     Restart, stores, WaitsFor

-----------------------------------------------------------------------------
\* AccountsIInv holds at the start: nothing is stored.
LEMMA InitOK == AccountsInit => AccountsIInv
<1> SUFFICES ASSUME AccountsInit PROVE AccountsIInv
  OBVIOUS
<1>1. AccountsOK
  BY AccountsAssumption DEF AccountsInit, AccountsOK, IdentityIsUnique, AnnouncedIsThere
<1>2. CodesOK /\ MailOK
  BY AccountsAssumption DEF AccountsInit, CodesOK, MailOK, MailWasRead
<1>3. RequestsOK
  BY IdleTyped DEF AccountsInit, RequestsOK, WaitsFor
<1> QED
  BY <1>1, <1>2, <1>3 DEF AccountsIInv

\* Every step keeps it.
LEMMA NextKept == AccountsIInv /\ [AccountsNext]_accountsVars => AccountsIInv'
<1> SUFFICES ASSUME AccountsIInv, [AccountsNext]_accountsVars PROVE AccountsIInv'
  OBVIOUS
<1>1. ASSUME NEW r \in Reqs, NEW e \in Emails, NEW p \in Phones, NEW w \in Passwords,
             SignupRequest(r, e, p, w)
      PROVE  AccountsIInv'
  BY <1>1, SendKept DEF SignupRequest, Purposes
<1>2. ASSUME NEW r \in Reqs, NEW u \in users, NEW w \in Passwords, LoginRequest(r, u, w)
      PROVE  AccountsIInv'
  <2>1. u \in UserRecord
    BY DEF AccountsIInv, AccountsOK
  <2> QED
    BY <1>2, <2>1, SendKept DEF LoginRequest, Purposes, UserRecord
<1>3. ASSUME NEW r \in Reqs, NEW s \in sessions, NEW e \in Emails, NEW p \in Phones,
             EmailChangeRequest(r, s, e, p)
      PROVE  AccountsIInv'
  <2>1. PICK u \in Owner(s) : SendCode(r, "profile_email", e, u.id, p, u.pass)
    BY <1>3 DEF EmailChangeRequest
  <2>2. u \in UserRecord
    BY DEF AccountsIInv, AccountsOK, Owner
  <2> QED
    BY <2>1, <2>2, SendKept DEF Purposes, UserRecord
<1>4. ASSUME NEW c \in codes, Expire(c) PROVE AccountsIInv'
  BY <1>4, DropKept DEF Expire
<1>5. ASSUME NEW s \in sessions, Logout(s) PROVE AccountsIInv'
  BY <1>5, DropKept DEF Logout
<1>6. ASSUME NEW s \in sessions, NEW c \in codes, EmailChangeRefused(s, c) PROVE AccountsIInv'
  BY <1>6, DropKept DEF EmailChangeRefused, Without
<1>7. ASSUME NEW x \in resets, ResetExpire(x) PROVE AccountsIInv'
  BY <1>7, DropKept DEF ResetExpire
<1>8. CASE UNCHANGED accountsVars
  BY <1>8, DropKept DEF accountsVars, stores
<1> QED
  BY <1>1, <1>2, <1>3, <1>4, <1>5, <1>6, <1>7, <1>8, SignupVerifyKept, SignedUpKept,
     SignupRollbackKept, ResetRequestKept, MailArrivesKept, AnswerKept, MistypeKept,
     LoginVerifyKept, SavePhoneKept, ChangePasswordKept, EmailChangeVerifyKept,
     ResetConfirmKept, DeleteKept, FreezeKept, RestartKept
     DEF AccountsNext

\* AccountsIInv holds throughout.
THEOREM AccountsInvariance == AccountsSpec => []AccountsIInv
<1> QED
  BY InitOK, NextKept, PTL DEF AccountsSpec

\* No two accounts ever have one address, or one phone that has digits: the
\* checks that are repeated when a code is typed are enough, whatever happened since it was
\* asked for (userStore.ts setUserIdentity, v1_users.ts signup/verify).
THEOREM IdentityStaysUnique == AccountsSpec => [](AccountsTypeOK /\ IdentityIsUnique)
<1>1. AccountsIInv => AccountsTypeOK /\ IdentityIsUnique
  BY InvariantImplies
<1> QED
  BY <1>1, AccountsInvariance, PTL

\* Nobody has an account at an address whose mail he did not read, or a session
\* without the password of its account and the mail that was sent for it,
\* whichever codes were replaced, cleared or mailed late (v1_users.ts login,
\* signup/verify, profile/email/verify; emailAuthCodeStore.ts).
THEOREM MailIsRead == AccountsSpec => []MailWasRead
<1>1. AccountsIInv => MailWasRead
  BY InvariantImplies
<1> QED
  BY <1>1, AccountsInvariance, PTL

\* A sign-up that fails never removes an account that was announced.
THEOREM AnnouncedStay == AccountsSpec => []AnnouncedIsThere
<1>1. AccountsIInv => AnnouncedIsThere
  BY InvariantImplies
<1> QED
  BY <1>1, AccountsInvariance, PTL
=============================================================================
