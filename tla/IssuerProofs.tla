---------------------------- MODULE IssuerProofs ----------------------------
(***************************************************************************)
(* Proofs about IssuerToken, for any number of users, wallets, requests,   *)
(* builds, transactions, amounts, authorizations and cut-offs.             *)
(*                                                                         *)
(* SupplyConserved compares the controller output with the holder outputs  *)
(* and with the burns that receipts and handlers still owe to it.  It is   *)
(* not inductive: that a step keeps the books needs to know what every     *)
(* file, receipt, cached build and handler may say of the chain.           *)
(* SupplyInvariant says it, in these parts.                                *)
(*   ChainOK     one controller, outputs with places of their own;         *)
(*   FilesOK     in a file no two records stand for one holder output;     *)
(*   ReceiptsOK  one receipt for a transaction;                            *)
(*   EntryInv    what a build spends and makes: a place that it names is   *)
(*               gone, or has the output and the amount it was built for;  *)
(*   Due         the receipts of a supply update are pending, and make up  *)
(*               what it takes off, as long as its controller lives;       *)
(*   HandlerInv  a handler between the chain and its files: nobody else    *)
(*               knows of the controller it made, nor of its burn;         *)
(*   Balance     whoever can find the controller finds it with every       *)
(*               pending burn on it, cut off handlers or not.              *)
(* ShownIsOwned follows from FilesOK: the records that a wallet is shown   *)
(* are of different live outputs, all its own.                             *)
(*                                                                         *)
(* Total, Pending and the balances are sums over sets, which the           *)
(* specification takes by picking one element after another.  The first    *)
(* section says that such a sum exists, and that it does not matter what   *)
(* is picked.  It is by induction, for which the theorems of the library   *)
(* take an operator; here induction is over a set of numbers, or of sets.  *)
(***************************************************************************)
EXTENDS IssuerToken, TLAPS, FiniteSetTheorems, WellFoundedInduction, SequenceTheorems

-----------------------------------------------------------------------------
(***************************************************************************)
(* Sums over finite sets.                                                  *)
(***************************************************************************)
\* A set of naturals that is not empty has a least element.
LEMMA Least ==
    ASSUME NEW T, T \subseteq Nat, T # {}
    PROVE  \E m \in T : \A n \in T : m <= n
<1>1. PICK m \in T : \A n \in T : ~(<<n, m>> \in OpToRel(<, Nat))
  BY NatLessThanWellFounded, WFMin, Zenon
<1>2. OpToRel(<, Nat) = {ss \in Nat \X Nat : ss[1] < ss[2]}
  BY Zenon DEF OpToRel
<1>3. \A n \in T : ~ (n < m)
  BY <1>1, <1>2
<1> QED
  BY <1>3

\* Induction, for a set of numbers.
LEMMA Induction ==
    ASSUME NEW G, 0 \in G, \A n \in Nat : n \in G => n + 1 \in G
    PROVE  \A n \in Nat : n \in G
<1> DEFINE T == {n \in Nat : n \notin G}
<1> SUFFICES ASSUME T # {} PROVE FALSE
  OBVIOUS
<1>1. PICK m \in T : \A n \in T : m <= n
  BY Least, T \subseteq Nat
<1>2. m # 0 /\ m - 1 \in Nat /\ m - 1 \notin T
  BY <1>1
<1> QED
  BY <1>1, <1>2

\* What holds of a finite set when it holds of all that one element less leaves.
LEMMA SubsetInduction ==
    ASSUME NEW U, IsFiniteSet(U), NEW G,
           \A s \in SUBSET U : (\A x \in s : s \ {x} \in G) => s \in G
    PROVE  \A s \in SUBSET U : s \in G
<1> DEFINE H == {n \in Nat : \A s \in SUBSET U : Cardinality(s) <= n => s \in G}
<1>1. \A s \in SUBSET U : IsFiniteSet(s) /\ Cardinality(s) \in Nat
  BY FS_Subset, FS_CardinalityType
<1>2. 0 \in H
  <2> SUFFICES ASSUME NEW s \in SUBSET U, Cardinality(s) <= 0 PROVE s \in G
    OBVIOUS
  <2>1. s = {}
    BY <1>1, FS_EmptySet
  <2> QED
    BY <2>1
<1>3. ASSUME NEW n \in Nat, n \in H PROVE n + 1 \in H
  <2> SUFFICES ASSUME NEW s \in SUBSET U, Cardinality(s) <= n + 1 PROVE s \in G
    OBVIOUS
  <2>1. ASSUME NEW x \in s PROVE s \ {x} \in G
    <3>1. Cardinality(s \ {x}) = Cardinality(s) - 1
      BY <1>1, FS_RemoveElement
    <3>2. Cardinality(s \ {x}) <= n
      BY <1>1, <3>1
    <3> QED
      BY <1>3, <3>2
  <2> QED
    BY <2>1
<1>4. \A n \in Nat : n \in H
  <2> HIDE DEF H
  <2> QED
  BY <1>2, <1>3, Induction
<1> QED
  BY <1>1, <1>4

-----------------------------------------------------------------------------
\* F goes through the sets by picking one element after another.
Folds(F, val, pick, U) ==
    /\ F = [s \in SUBSET U |-> F[s]] /\ F[{}] = 0
    /\ \A s \in SUBSET U : s # {} /\ F[s \ {pick[s]}] \in Int =>
          F[s] = F[s \ {pick[s]}] + val[pick[s]]

AddsUp(F, val, U) ==
    /\ F \in [SUBSET U -> Int] /\ F[{}] = 0
    /\ \A s \in SUBSET U : \A x \in s : F[s] = F[s \ {x}] + val[x]

Picks(pick, U) == \A s \in SUBSET U : s # {} => pick[s] \in s

\* There is one such F, whatever is picked.
LEMMA FoldExists ==
    ASSUME NEW U, IsFiniteSet(U), NEW val \in [U -> Int], NEW pick, Picks(pick, U)
    PROVE  \E F \in [SUBSET U -> Int] : Folds(F, val, pick, U)
<1> DEFINE Step(F, t) == IF t = {} THEN 0 ELSE val[pick[t]] + F[t \ {pick[t]}]
           Good(F, n) == \A t \in SUBSET U : Cardinality(t) <= n => F[t] = Step(F, t)
           H == {n \in Nat : \E F \in [SUBSET U -> Int] : Good(F, n)}
<1>1. \A s \in SUBSET U : IsFiniteSet(s) /\ Cardinality(s) \in Nat
  BY FS_Subset, FS_CardinalityType
<1>0. \A t \in SUBSET U : t # {} => /\ pick[t] \in U /\ t \ {pick[t]} \in SUBSET U
                                    /\ Cardinality(t \ {pick[t]}) = Cardinality(t) - 1
  BY <1>1, FS_RemoveElement DEF Picks
<1>2. 0 \in H
  <2> DEFINE Z == [t \in SUBSET U |-> 0]
  <2>1. Z \in [SUBSET U -> Int]
    OBVIOUS
  <2>2. ASSUME NEW t \in SUBSET U, Cardinality(t) <= 0 PROVE Z[t] = Step(Z, t)
    <3>1. t = {}
      BY <1>1, <2>2, FS_EmptySet
    <3> QED
      BY <3>1
  <2>3. Good(Z, 0)
    BY <2>2
  <2> QED
    BY <2>1, <2>3
<1>3. ASSUME NEW n \in Nat, n \in H PROVE n + 1 \in H
  <2>1. PICK F \in [SUBSET U -> Int] : Good(F, n)
    BY <1>3
  <2> DEFINE E == [t \in SUBSET U |-> Step(F, t)]
  <2>2. E \in [SUBSET U -> Int]
    <3> SUFFICES ASSUME NEW t \in SUBSET U PROVE Step(F, t) \in Int
      OBVIOUS
    <3>1. t # {} => val[pick[t]] \in Int /\ F[t \ {pick[t]}] \in Int
      BY <1>0
    <3> QED
      BY <3>1
  <2>3. ASSUME NEW t \in SUBSET U, Cardinality(t) <= n + 1 PROVE E[t] = Step(E, t)
    <3>1. CASE t = {}
      BY <3>1
    <3>2. CASE t # {}
      <4> DEFINE r == t \ {pick[t]}
      <4>1. r \in SUBSET U /\ Cardinality(r) <= n
        BY <1>0, <1>1, <2>3, <3>2
      <4>2. F[r] = Step(F, r)
        BY <2>1, <4>1
      <4>3. E[r] = Step(F, r)
        BY <4>1
      <4>4. E[t] = val[pick[t]] + F[r]
        BY <3>2
      <4> QED
        BY <3>2, <4>2, <4>3, <4>4
    <3> QED
      BY <3>1, <3>2
  <2>4. Good(E, n + 1)
    BY <2>3
  <2>5. n + 1 \in Nat
    OBVIOUS
  <2> HIDE DEF Good, E
  <2> QED
    BY <2>2, <2>4, <2>5
<1>4. Cardinality(U) \in H
  <2> HIDE DEF H
  <2> QED
    BY <1>1, <1>2, <1>3, Induction
<1>5. PICK F \in [SUBSET U -> Int] : Good(F, Cardinality(U))
  BY <1>4
<1>6. \A t \in SUBSET U : Cardinality(t) <= Cardinality(U)
  BY FS_Subset
<1>7. \A t \in SUBSET U : F[t] = Step(F, t)
  BY <1>5, <1>6
<1>8. \A t \in SUBSET U : t # {} => val[pick[t]] \in Int /\ F[t \ {pick[t]}] \in Int
  BY <1>0
<1>9. F[{}] = 0
  BY <1>7
<1>10. \A t \in SUBSET U : t # {} => F[t] = F[t \ {pick[t]}] + val[pick[t]]
  <2> SUFFICES ASSUME NEW t \in SUBSET U, t # {} PROVE F[t] = F[t \ {pick[t]}] + val[pick[t]]
    OBVIOUS
  <2>1. F[t] = val[pick[t]] + F[t \ {pick[t]}]
    BY <1>7
  <2>2. val[pick[t]] \in Int /\ F[t \ {pick[t]}] \in Int
    BY <1>8
  <2> QED
    BY <2>1, <2>2
<1>11. F = [t \in SUBSET U |-> F[t]]
  BY <1>5, Zenon
<1> QED
  BY <1>9, <1>10, <1>11, Zenon DEF Folds

\* Each picks its own elements; the sum is the same: any element may be taken away.
LEMMA FoldAddsUp ==
    ASSUME NEW U, IsFiniteSet(U), NEW val \in [U -> Int], NEW pick, Picks(pick, U),
           NEW F, Folds(F, val, pick, U)
    PROVE  AddsUp(F, val, U)
<1> DEFINE G == {s \in SUBSET U : \A x \in s : F[s] = F[s \ {x}] + val[x]}
<1> DEFINE I == {s \in SUBSET U : F[s] \in Int}
<1>5. \A s \in SUBSET U : F[s] \in Int
  <2>1. ASSUME NEW s \in SUBSET U, \A x \in s : s \ {x} \in I PROVE s \in I
    <3>2. ASSUME s # {} PROVE val[pick[s]] \in Int /\ F[s \ {pick[s]}] \in Int
      <4>1. pick[s] \in s /\ pick[s] \in U
        BY <3>2 DEF Picks
      <4> QED
        BY <2>1, <4>1
    <3>1. F[{}] = 0 /\ (s # {} => F[s] = F[s \ {pick[s]}] + val[pick[s]])
      BY <3>2, Zenon DEF Folds
    <3>3. F[s] \in Int
      <4>1. CASE s = {}
        BY <3>1, <4>1
      <4>2. CASE s # {}
        <5>1. val[pick[s]] \in Int /\ F[s \ {pick[s]}] \in Int
          BY <3>2, <4>2
        <5>2. F[s] = F[s \ {pick[s]}] + val[pick[s]]
          BY <3>1, <4>2
        <5> HIDE DEF I
        <5> QED
          BY <5>1, <5>2
      <4> QED
        BY <4>1, <4>2
    <3> QED
      BY <3>3
  <2>2. \A s \in SUBSET U : s \in I
    <3> HIDE DEF I
    <3> QED
      BY <2>1, SubsetInduction
  <2> QED
    BY <2>2
<1>2. ASSUME NEW s \in SUBSET U, \A x \in s : s \ {x} \in G PROVE s \in G
  <2>1. CASE s = {}
    BY <2>1
  <2>2. CASE s # {}
    <3> DEFINE p == pick[s]
    <3>1. p \in s /\ F[s] = F[s \ {p}] + val[p]
      BY <1>5, <2>2 DEF Picks, Folds
    <3>2. ASSUME NEW x \in s PROVE F[s] = F[s \ {x}] + val[x]
      <4>1. CASE x = p
        <5>1. val[p] \in Int /\ F[s \ {p}] \in Int
          BY <1>5, <3>1
        <5> QED
          BY <3>1, <4>1, <5>1
      <4>2. CASE x # p
        <5> DEFINE r == s \ {p, x}
        <5>1. (s \ {p}) \ {x} = r /\ (s \ {x}) \ {p} = r
          OBVIOUS
        <5>2. F[s \ {p}] = F[r] + val[x]
          BY <1>2, <3>1, <4>2, <5>1
        <5>3. F[s \ {x}] = F[r] + val[p]
          BY <1>2, <3>1, <4>2, <5>1
        <5>4. val[x] \in Int /\ val[p] \in Int /\ F[r] \in Int
          BY <1>5, <3>1
        <5> HIDE DEF r
        <5> QED
          BY <3>1, <5>2, <5>3, <5>4
      <4> QED
        BY <4>1, <4>2
    <3> QED
      BY <3>2
  <2> QED
    BY <2>1, <2>2
<1>3. \A s \in SUBSET U : s \in G
  <2> HIDE DEF G
  <2> QED
    BY <1>2, SubsetInduction
<1>4. F = [s \in SUBSET U |-> F[s]]
  BY Zenon DEF Folds
<1> QED
  BY <1>3, <1>4, <1>5 DEF AddsUp, Folds

\* Two sums agree where their summands do.
LEMMA Agree ==
    ASSUME NEW U, NEW V, NEW F, NEW G, NEW v, NEW w, AddsUp(F, v, U), AddsUp(G, w, V)
    PROVE  \A S : /\ S \subseteq U /\ S \subseteq V /\ IsFiniteSet(S)
                  /\ \A x \in S : v[x] = w[x]
              => F[S] = G[S]
<1> SUFFICES ASSUME NEW S, S \subseteq U, S \subseteq V, IsFiniteSet(S),
                    \A x \in S : v[x] = w[x]
             PROVE  F[S] = G[S]
  OBVIOUS
<1> DEFINE H == {s \in SUBSET S : F[s] = G[s]}
<1>1. ASSUME NEW s \in SUBSET S, \A x \in s : s \ {x} \in H PROVE s \in H
  <2>1. CASE s = {}
    BY <2>1 DEF AddsUp
  <2>2. CASE s # {}
    <3>1. PICK x \in s : TRUE
      BY <2>2
    <3>2. F[s] = F[s \ {x}] + v[x] /\ G[s] = G[s \ {x}] + w[x]
      BY <3>1 DEF AddsUp
    <3>3. F[s \ {x}] = G[s \ {x}] /\ v[x] = w[x]
      BY <1>1, <3>1
    <3> QED
      BY <3>2, <3>3
  <2> QED
    BY <2>1, <2>2
<1>2. \A s \in SUBSET S : s \in H
  <2> HIDE DEF H
  <2> QED
    BY <1>1, SubsetInduction
<1> QED
  BY <1>2

-----------------------------------------------------------------------------
\* The sum of v[x] over the x in U.
Sum(v, U) == CHOOSE n \in Int : \E F : AddsUp(F, v, U) /\ F[U] = n

Numbers(v, U) == IsFiniteSet(U) /\ \A x \in U : v[x] \in Int

\* A sum of numbers is an integer, whatever function it is read from.
LEMMA SumIs ==
    ASSUME NEW U, NEW v, Numbers(v, U)
    PROVE  /\ \E F : AddsUp(F, v, U)
           /\ \A F : AddsUp(F, v, U) => Sum(v, U) = F[U]
           /\ Sum(v, U) \in Int
<1>1. \E F : AddsUp(F, v, U)
  <2>1. PICK val : val = [x \in U |-> v[x]]
    OBVIOUS
  <2>2. PICK pick : pick = [s \in SUBSET U |-> CHOOSE x \in s : TRUE]
    OBVIOUS
  <2>3. val \in [U -> Int] /\ \A x \in U : val[x] = v[x]
    BY <2>1 DEF Numbers
  <2>4. Picks(pick, U)
    BY <2>2, Zenon DEF Picks
  <2>5. PICK F : Folds(F, val, pick, U)
    BY <2>3, <2>4, FoldExists DEF Numbers
  <2>6. AddsUp(F, val, U)
    BY <2>3, <2>4, <2>5, FoldAddsUp DEF Numbers
  <2>7. AddsUp(F, v, U)
    BY <2>3, <2>6 DEF AddsUp
  <2> QED
    BY <2>7
<1>2. \A F, G : AddsUp(F, v, U) /\ AddsUp(G, v, U) => F[U] = G[U]
  <2> SUFFICES ASSUME NEW F, NEW G, AddsUp(F, v, U), AddsUp(G, v, U) PROVE F[U] = G[U]
    OBVIOUS
  <2> QED
    BY Agree, U \subseteq U DEF Numbers
<1>3. \A F : AddsUp(F, v, U) => F[U] \in Int
  BY DEF AddsUp
<1>4. \E n \in Int : \E F : AddsUp(F, v, U) /\ F[U] = n
  BY <1>1, <1>3
<1>5. Sum(v, U) \in Int /\ \E F : AddsUp(F, v, U) /\ F[U] = Sum(v, U)
  BY <1>4, Zenon DEF Sum
<1> QED
  BY <1>1, <1>2, <1>5

\* Equal summands have equal sums.
LEMMA SumAgree ==
    ASSUME NEW U, NEW v, NEW w, Numbers(v, U), \A x \in U : w[x] = v[x]
    PROVE  Sum(w, U) = Sum(v, U)
<1>1. Numbers(w, U)
  BY DEF Numbers
<1>2. PICK F : AddsUp(F, v, U)
  BY SumIs
<1>3. AddsUp(F, w, U)
  BY <1>2 DEF AddsUp
<1> QED
  BY <1>1, <1>2, <1>3, SumIs

\* One element may be taken away.
LEMMA SumRemove ==
    ASSUME NEW U, NEW v, Numbers(v, U), NEW x \in U
    PROVE  /\ Sum(v, U) = Sum(v, U \ {x}) + v[x]
           /\ Sum(v, U) \in Int /\ Sum(v, U \ {x}) \in Int /\ v[x] \in Int
<1> DEFINE T == U \ {x}
<1>1. Numbers(v, T) /\ v[x] \in Int
  BY FS_RemoveElement DEF Numbers
<1>2. PICK F : AddsUp(F, v, U)
  BY SumIs
<1>3. PICK G : AddsUp(G, v, T)
  BY <1>1, SumIs
<1>4. F[U] = F[T] + v[x]
  <2>1. \A s \in SUBSET U : \A y \in s : F[s] = F[s \ {y}] + v[y]
    BY <1>2, Zenon DEF AddsUp
  <2>2. U \in SUBSET U
    OBVIOUS
  <2> QED
    BY <2>1, <2>2
<1>5. F[T] = G[T]
  <2>1. T \subseteq U /\ T \subseteq T /\ IsFiniteSet(T)
    BY <1>1 DEF Numbers
  <2> HIDE DEF T
  <2> QED
    BY <1>2, <1>3, <2>1, Agree
<1>6. Sum(v, U) = F[U] /\ Sum(v, T) = G[T] /\ Sum(v, U) \in Int /\ Sum(v, T) \in Int
  BY <1>1, <1>2, <1>3, SumIs
<1> QED
  BY <1>1, <1>4, <1>5, <1>6

\* Nothing adds up to nothing.
LEMMA SumEmpty == ASSUME NEW v PROVE Sum(v, {}) = 0 /\ Numbers(v, {})
<1>1. Numbers(v, {})
  BY FS_EmptySet DEF Numbers
<1>2. PICK F : AddsUp(F, v, {})
  BY <1>1, SumIs
<1>3. Sum(v, {}) = F[{}]
  BY <1>1, <1>2, SumIs
<1> QED
  BY <1>1, <1>2, <1>3 DEF AddsUp

\* The parts of a set add up to its sum.
LEMMA SumUnion ==
    ASSUME NEW v, NEW S, Numbers(v, S), NEW T \in SUBSET S
    PROVE  /\ Sum(v, S) = Sum(v, S \ T) + Sum(v, T)
           /\ Numbers(v, T) /\ Numbers(v, S \ T)
           /\ Sum(v, S) \in Int /\ Sum(v, S \ T) \in Int /\ Sum(v, T) \in Int
<1>1. ASSUME NEW R \in SUBSET S PROVE Numbers(v, R) /\ Sum(v, R) \in Int
  <2>1. Numbers(v, R)
    BY FS_Subset DEF Numbers
  <2> QED
    BY <2>1, SumIs
<1> DEFINE G == {R \in SUBSET S : Sum(v, S) = Sum(v, S \ R) + Sum(v, R)}
<1>2. ASSUME NEW R \in SUBSET S, \A x \in R : R \ {x} \in G PROVE R \in G
  <2>1. CASE R = {}
    <3>1. S \ R = S /\ Sum(v, R) = 0 /\ Sum(v, S) \in Int
      BY <1>1, <2>1, SumEmpty
    <3> QED
      BY <3>1
  <2>2. CASE R # {}
    <3>1. PICK x \in R : TRUE
      BY <2>2
    <3>2. PICK Q \in SUBSET S : Q = R \ {x}
      OBVIOUS
    <3>3. Sum(v, S) = Sum(v, S \ Q) + Sum(v, Q)
      BY <1>2, <3>1, <3>2
    <3>4. Sum(v, R) = Sum(v, Q) + v[x] /\ v[x] \in Int
      BY <1>1, <3>1, <3>2, SumRemove
    <3>5. Sum(v, S \ Q) = Sum(v, S \ R) + v[x]
      <4>1. (S \ Q) \ {x} = S \ R /\ x \in S \ Q /\ S \ Q \in SUBSET S
        BY <3>1, <3>2
      <4>2. Numbers(v, S \ Q)
        BY <1>1, <4>1
      <4> QED
        BY <4>1, <4>2, SumRemove
    <3>6. Sum(v, S \ R) \in Int /\ Sum(v, Q) \in Int
      <4>1. S \ R \in SUBSET S
        OBVIOUS
      <4> QED
        BY <1>1, <4>1
    <3> QED
      BY <3>3, <3>4, <3>5, <3>6
  <2> QED
    BY <2>1, <2>2
<1>3. IsFiniteSet(S)
  BY DEF Numbers
<1>4. \A R \in SUBSET S : R \in G
  <2> HIDE DEF G
  <2> QED
    BY <1>2, <1>3, SubsetInduction
<1>5. S \ T \in SUBSET S /\ S \in SUBSET S
  OBVIOUS
<1> QED
  BY <1>1, <1>4, <1>5

\* A sum of naturals is a natural, and bounds the sums of its parts.
LEMMA SumBounds ==
    ASSUME NEW v, NEW S, Numbers(v, S), \A x \in S : v[x] >= 0
    PROVE  /\ Sum(v, S) \in Nat
           /\ \A T \in SUBSET S : Sum(v, T) \in Nat /\ Sum(v, T) <= Sum(v, S)
<1> DEFINE G == {R \in SUBSET S : Sum(v, R) \in Nat}
<1>1. ASSUME NEW R \in SUBSET S, \A x \in R : R \ {x} \in G PROVE R \in G
  <2>1. CASE R = {}
    BY <2>1, SumEmpty
  <2>2. CASE R # {}
    <3>1. PICK x \in R : TRUE
      BY <2>2
    <3>2. Numbers(v, R)
      BY SumUnion
    <3>3. Sum(v, R) = Sum(v, R \ {x}) + v[x] /\ v[x] \in Int /\ v[x] >= 0
      BY <3>1, <3>2, SumRemove
    <3>4. Sum(v, R \ {x}) \in Nat
      BY <1>1, <3>1
    <3> QED
      BY <3>3, <3>4
  <2> QED
    BY <2>1, <2>2
<1>2. IsFiniteSet(S)
  BY DEF Numbers
<1>3. \A R \in SUBSET S : R \in G
  <2> HIDE DEF G
  <2> QED
    BY <1>1, <1>2, SubsetInduction
<1>4. ASSUME NEW T \in SUBSET S PROVE Sum(v, T) <= Sum(v, S)
  <2>1. Sum(v, S) = Sum(v, S \ T) + Sum(v, T)
    BY SumUnion
  <2>2. S \ T \in SUBSET S
    OBVIOUS
  <2>3. Sum(v, S \ T) \in Nat /\ Sum(v, T) \in Nat
    BY <1>3, <2>2
  <2> QED
    BY <2>1, <2>3
<1> QED
  BY <1>3, <1>4, S \in SUBSET S

\* One summand changes.
LEMMA SumUpdate ==
    ASSUME NEW U, NEW v, NEW w, Numbers(v, U), Numbers(w, U), NEW x \in U,
           \A y \in U \ {x} : w[y] = v[y]
    PROVE  /\ Sum(w, U) = Sum(v, U) - v[x] + w[x]
           /\ Sum(v, U) \in Int /\ v[x] \in Int /\ w[x] \in Int
<1> DEFINE T == U \ {x}
<1>1. Numbers(v, T)
  BY FS_RemoveElement DEF Numbers
<1>2. Sum(w, T) = Sum(v, T)
  BY <1>1, SumAgree
<1>3. Sum(v, U) = Sum(v, T) + v[x] /\ Sum(v, U) \in Int /\ Sum(v, T) \in Int /\ v[x] \in Int
  BY SumRemove
<1>4. Sum(w, U) = Sum(w, T) + w[x] /\ w[x] \in Int
  BY SumRemove
<1> QED
  BY <1>2, <1>3, <1>4

-----------------------------------------------------------------------------
(***************************************************************************)
(* The invariant of the supply.                                            *)
(***************************************************************************)
\* The operations that spend the controller output, or make the first.
Movers == {"deploy", "issue", "change_owner", "reclaim"}
Txs(rcs) == {x.tx : x \in rcs}
Outpoint(at) == at \in Nat \X Nat /\ at[1] <= ntx

\* If it is still there, the output at this place is the one meant.
Names(at, role, n) == \A o \in live : o.at = at => o.role = role /\ o.amount = n

ControllerLives(at) == \E o \in live : o.at = at /\ o.role = "controller"

\* The chain: places below the last transaction, one controller.
ChainOK ==
    /\ ntx \in Nat /\ IsFiniteSet(live)
    /\ \A o \in live : /\ o.at \in Nat \X Nat /\ o.at[1] \in 1..ntx
                       /\ o.role \in Roles /\ o.amount \in Nat
                       /\ o = [at |-> o.at, role |-> o.role, wallet |-> o.wallet, amount |-> o.amount]
    /\ \A o, p \in live : o.at = p.at => o = p
    /\ \A c, d \in Controllers : c = d

\* A record names two places.
RecordOK(rec) ==
    /\ rec = [wallet |-> rec.wallet, issuer |-> rec.issuer, issued |-> rec.issued,
              controller |-> rec.controller, holder |-> rec.holder, amount |-> rec.amount,
              status |-> rec.status]
    /\ rec.issued \in Nat /\ rec.amount \in Nat
    /\ Outpoint(rec.controller) /\ Outpoint(rec.holder)

\* A file: no two records of it stand for one holder output.
FileOK(records) ==
    /\ IsFiniteSet(records)
    /\ \A rec \in records : RecordOK(rec) /\ (rec.holder = NoHolder => rec.amount = 0)
    /\ \A x, y \in records : x.holder = y.holder /\ x.holder # NoHolder => x = y

\* A receipt stands for one transaction.
ReceiptsOK ==
    /\ receipts = [u \in Users |-> receipts[u]]
    /\ \A u \in Users :
          /\ IsFiniteSet(receipts[u])
          /\ \A x \in receipts[u] :
                /\ x = [tx |-> x.tx, wallet |-> x.wallet, amount |-> x.amount, pending |-> x.pending]
                /\ x.tx \in 1..ntx /\ x.amount \in Nat /\ x.pending \in BOOLEAN
          /\ \A x, y \in receipts[u] : x.tx = y.tx => x = y

\* The receipts of a reclaim are pending, and make up its amount.
Due(e) ==
    LET due == {x \in receipts[User(e)] : x.tx \in e.receipts}
    IN  (\A x \in due : x.pending) /\ Total(due) = e.amount

\* Holder outputs that a build has picked.
LotsOK(S) ==
    /\ IsFiniteSet(S)
    /\ \A x \in S : /\ x.amount \in Nat /\ Outpoint(x.holder) /\ x.holder # NoHolder
                    /\ Names(x.holder, "holder", x.amount)
    /\ \A x, y \in S : x.holder = y.holder => x = y

\* A build: what it spends is there as it was, or gone, and its outputs
\* keep the supply that it spends.
EntryInv(e) ==
    /\ e = Entry(e.op, e.wallet, e.new, e.spends, e.outs, e.record, e.amount, e.event, e.receipts)
    /\ e.op \in Operations /\ e.wallet \in Wallets /\ e.amount \in Nat /\ RecordOK(e.record)
    /\ e.op = "deploy" => /\ e.spends = {} /\ e.outs = DeployOutputs(e.wallet, e.amount)
                          /\ e.record.controller = NoHolder /\ e.record.amount = e.amount
    /\ e.op \in Movers \ {"deploy"} =>
          e.spends = {e.record.controller} /\ Names(e.record.controller, "controller", e.record.issued)
    /\ e.op = "issue" => e.outs = IssueOutputs(e.wallet, e.new, e.record, e.amount)
    /\ e.op = "change_owner" => e.outs = ChangeOutputs(e.new, e.record)
    /\ e.op = "reclaim" =>
          /\ e.outs = ReclaimOutputs(e.wallet, e.record, e.amount) /\ e.amount <= e.record.issued
          /\ e.receipts \subseteq Txs(receipts[User(e)])
          /\ ControllerLives(e.record.controller) => Due(e)
    /\ e.op = "transfer" =>
          \E S : /\ LotsOK(S) /\ S # {} /\ e.spends = {x.holder : x \in S}
                 /\ Total(S) - e.amount \in Nat
                 /\ e.outs = TransferOutputs(e.wallet, e.new, Total(S), e.amount)
    /\ e.op = "burn" =>
          \E S : /\ LotsOK(S) /\ S # {} /\ e.spends = {x.holder : x \in S}
                 /\ Total(S) - e.amount \in Nat
                 /\ e.outs = BurnOutputs(e.wallet, Total(S), e.amount)

\* Who may still write this outpoint into a file, or build upon it.
HandlerCites(h, at) ==
    \/ h.pc \in Stages /\ h.entry.record.controller = at
    \/ h.pc \in {"issued", "verified"} /\ at = <<h.tx, 0>>
    \/ h.pc = "reclaim_build" /\ \E rec \in h.records : rec.controller = at

Cited(at) ==
    \/ \E u \in Users : \E rec \in store[u] : rec.controller = at
    \/ \E e \in cache : e.record.controller = at
    \/ \E r \in Reqs : HandlerCites(req[r], at)

\* The chain has the new controller, and no file names it yet.
Moving(h) == h.pc = "accepted" /\ h.entry.op \in Movers

\* What a supply update has read, before it asks the node: good as long as
\* the controller that it will spend lives.
SnapshotOK(h) ==
    /\ h = [pc |-> h.pc, wallet |-> h.wallet, receipts |-> h.receipts, records |-> h.records]
    /\ h.wallet \in Wallets /\ FileOK(h.records) /\ IsFiniteSet(h.receipts)
    /\ \A x \in h.receipts : x.pending /\ x.amount \in Nat
    /\ Txs(h.receipts) \subseteq Txs(receipts[OwnerOf[h.wallet]])
    /\ \A rec \in h.records :
          ControllerLives(rec.controller) => h.receipts \subseteq receipts[OwnerOf[h.wallet]]

\* A handler is idle, about to build a supply update, or has a build; after its
\* transaction nobody else knows of what it made until it writes.
HandlerInv(h) ==
    \/ h = Idle
    \/ h.pc = "reclaim_build" /\ SnapshotOK(h)
    \/ /\ h.pc \in Stages /\ h = [pc |-> h.pc, tx |-> h.tx, entry |-> h.entry] /\ EntryInv(h.entry)
       /\ h.tx \in Nat /\ h.tx <= ntx
       /\ h.pc # "checked" => h.tx # 0
       /\ h.pc \in {"issued", "verified", "recorded"} => h.entry.op = "issue"
       /\ Moving(h) =>
             /\ \E o \in live : o.at = <<h.tx, 0>> /\ o.role = "controller"
             /\ ~ Cited(<<h.tx, 0>>)
       /\ h.pc = "accepted" /\ h.entry.op = "burn" => \A u \in Users : h.tx \notin Txs(receipts[u])
       /\ h.pc = "accepted" /\ h.entry.op = "reclaim" => Due(h.entry)

FilesOK == store = [u \in Users |-> store[u]] /\ \A u \in Users : FileOK(store[u])

HandlersOK ==
    /\ req = [r \in Reqs |-> req[r]] /\ \A r \in Reqs : HandlerInv(req[r])
    /\ \A r, q \in Reqs : r # q /\ req[r].pc = "accepted" /\ req[q].pc = "accepted" => req[r].tx # req[q].tx

\* Whoever finds the controller finds it with the burns on it that are pending.
Reachable(at) == Cited(at) \/ \E r \in Reqs : Moving(req[r]) /\ at = <<req[r].tx, 0>>

Balance ==
    \A c \in Controllers :
        /\ c.amount >= Total(Holders)
        /\ cutOff = 0 => c.amount = Total(Holders) + Pending
        /\ Reachable(c.at) => c.amount >= Total(Holders) + Pending

Structure == ChainOK /\ FilesOK /\ ReceiptsOK /\ HandlersOK /\ (\A e \in cache : EntryInv(e))

SupplyInvariant == Structure /\ cutOff \in Nat /\ Balance

-----------------------------------------------------------------------------
(***************************************************************************)
(* Total and Pending are sums.                                             *)
(***************************************************************************)
\* The sum that always picks what CHOOSE picks is one of them.
LEMMA ChosenAddsUp ==
    ASSUME NEW U, NEW v, v \in [U -> Int], IsFiniteSet(U)
    PROVE  /\ \E f : f = [s \in SUBSET U |-> IF s = {} THEN 0
                             ELSE v[CHOOSE x \in s : TRUE] + f[s \ {CHOOSE x \in s : TRUE}]]
           /\ \A f : f = [s \in SUBSET U |-> IF s = {} THEN 0
                             ELSE v[CHOOSE x \in s : TRUE] + f[s \ {CHOOSE x \in s : TRUE}]]
                => AddsUp(f, v, U)
<1> DEFINE pick == [s \in SUBSET U |-> CHOOSE x \in s : TRUE]
           R(f, s) == IF s = {} THEN 0 ELSE v[CHOOSE x \in s : TRUE] + f[s \ {CHOOSE x \in s : TRUE}]
<1>1. Picks(pick, U)
  BY Zenon DEF Picks
<1>2. \A s \in SUBSET U : s # {} => pick[s] = (CHOOSE x \in s : TRUE) /\ v[pick[s]] \in Int
  BY <1>1 DEF Picks
<1> HIDE DEF pick
<1>3. PICK f \in [SUBSET U -> Int] : Folds(f, v, pick, U)
  BY <1>1, FoldExists
<1>4. ASSUME NEW s \in SUBSET U PROVE f[s] = R(f, s)
  <2>1. CASE s = {}
    BY <1>3, <2>1, Zenon DEF Folds
  <2>2. CASE s # {}
    <3>1. f[s \ {pick[s]}] \in Int
      BY <1>3
    <3>2. f[s] = f[s \ {pick[s]}] + v[pick[s]]
      BY <1>3, <2>2, <3>1, Zenon DEF Folds
    <3>3. f[s] = v[pick[s]] + f[s \ {pick[s]}]
      BY <1>2, <2>2, <3>1, <3>2
    <3> QED
      BY <1>2, <2>2, <3>3
  <2> QED
    BY <2>1, <2>2
<1>5. f = [s \in SUBSET U |-> R(f, s)]
  <2>1. f = [s \in SUBSET U |-> f[s]]
    BY <1>3, Zenon
  <2> HIDE DEF R
  <2> QED
    BY <1>4, <2>1, Zenon
<1>6. ASSUME NEW g, g = [s \in SUBSET U |-> R(g, s)] PROVE AddsUp(g, v, U)
  <2>1. g = [s \in SUBSET U |-> g[s]] /\ \A s \in SUBSET U : g[s] = R(g, s)
    BY <1>6, Zenon
  <2>2. g[{}] = 0
    BY <2>1
  <2>3. ASSUME NEW s \in SUBSET U, s # {}, g[s \ {pick[s]}] \in Int
        PROVE  g[s] = g[s \ {pick[s]}] + v[pick[s]]
    <3>1. R(g, s) = v[pick[s]] + g[s \ {pick[s]}] /\ v[pick[s]] \in Int
      BY <1>2, <2>3
    <3>2. g[s] = R(g, s)
      BY <2>1
    <3> HIDE DEF R
    <3> QED
      BY <2>3, <3>1, <3>2
  <2> HIDE DEF R
  <2>4. Folds(g, v, pick, U)
    BY <2>1, <2>2, <2>3, Zenon DEF Folds
  <2> QED
    BY <1>1, <2>4, FoldAddsUp
<1> QED
  BY <1>5, <1>6, Zenon

\* Amounts(S) as a function, and the sum that the source's reduce makes of it.
Amount(S) == [o \in S |-> o.amount]
Amounted(S) == IsFiniteSet(S) /\ \A o \in S : o.amount \in Nat

\* Total is the sum of the amounts.
LEMMA TotalIs ==
    ASSUME NEW S, Amounted(S)
    PROVE  Total(S) = Sum(Amount(S), S) /\ Numbers(Amount(S), S)
<1> DEFINE v == Amount(S)
           Eq(f) == f = [s \in SUBSET S |-> IF s = {} THEN 0
                           ELSE v[CHOOSE x \in s : TRUE] + f[s \ {CHOOSE x \in s : TRUE}]]
           Eq2(f) == f = [s \in SUBSET S |-> IF s = {} THEN 0
                           ELSE (CHOOSE x \in s : TRUE).amount + f[s \ {CHOOSE x \in s : TRUE}]]
<1>1. v \in [S -> Int] /\ Numbers(v, S) /\ IsFiniteSet(S)
  BY DEF Amount, Amounted, Numbers
<1>2. \A s \in SUBSET S : s # {} => v[CHOOSE x \in s : TRUE] = (CHOOSE x \in s : TRUE).amount
  <2> SUFFICES ASSUME NEW s \in SUBSET S, s # {}
               PROVE v[CHOOSE x \in s : TRUE] = (CHOOSE x \in s : TRUE).amount
    OBVIOUS
  <2>1. (CHOOSE x \in s : TRUE) \in s
    BY Zenon
  <2> QED
    BY <2>1 DEF Amount
<1>3. \A f : Eq(f) <=> Eq2(f)
  <2> SUFFICES ASSUME NEW f PROVE Eq(f) <=> Eq2(f)
    OBVIOUS
  <2> DEFINE A(s) == IF s = {} THEN 0 ELSE v[CHOOSE x \in s : TRUE] + f[s \ {CHOOSE x \in s : TRUE}]
             B(s) == IF s = {} THEN 0
                     ELSE (CHOOSE x \in s : TRUE).amount + f[s \ {CHOOSE x \in s : TRUE}]
  <2>1. \A s \in SUBSET S : A(s) = B(s)
    BY <1>2
  <2>2. [s \in SUBSET S |-> A(s)] = [s \in SUBSET S |-> B(s)]
    <3> HIDE DEF A, B
    <3> QED
      BY <2>1, Zenon
  <2> QED
    BY <2>2, Zenon
<1>4. Eq2(CHOOSE f : Eq2(f)) /\ AddsUp(CHOOSE f : Eq2(f), v, S)
  <2>0. (\E f : Eq(f)) /\ (\A f : Eq(f) => AddsUp(f, v, S))
    <3> HIDE DEF v
    <3> QED
      BY <1>1, ChosenAddsUp, Zenon
  <2> HIDE DEF Eq, Eq2
  <2>1. \E f : Eq2(f)
    BY <1>3, <2>0, Zenon
  <2>2. Eq2(CHOOSE f : Eq2(f))
    BY <2>1, Zenon
  <2>3. AddsUp(CHOOSE f : Eq2(f), v, S)
    BY <1>3, <2>0, <2>2, Zenon
  <2> QED
    BY <2>2, <2>3
<1>5. Total(S) = (CHOOSE f : Eq2(f))[S]
  BY Zenon DEF Total, MapThenSumSet, MapThenFoldSet
<1>6. Sum(v, S) = (CHOOSE f : Eq2(f))[S]
  <2> HIDE DEF Eq2, v
  <2> QED
    BY <1>1, <1>4, SumIs, Zenon
<1> QED
  BY <1>1, <1>5, <1>6, Zenon DEF v

\* No outputs, no amount.
LEMMA TotalEmpty == Total({}) = 0 /\ Amounted({})
<1>1. Amounted({})
  BY FS_EmptySet DEF Amounted
<1> QED
  BY <1>1, TotalIs, SumEmpty

\* The parts of a set.
LEMMA TotalSplit ==
    ASSUME NEW S, Amounted(S), NEW T \in SUBSET S
    PROVE  /\ Amounted(T) /\ Amounted(S \ T)
           /\ Total(S) \in Nat /\ Total(T) \in Nat /\ Total(S \ T) \in Nat
           /\ Total(S) = Total(S \ T) + Total(T)
<1> DEFINE v == Amount(S)
<1>1. Amounted(T) /\ Amounted(S \ T)
  BY FS_Subset, FS_Difference DEF Amounted
<1>2. Numbers(v, S) /\ Total(S) = Sum(v, S) /\ \A o \in S : v[o] >= 0
  BY TotalIs DEF Amount, Amounted
<1>3. ASSUME NEW R \in SUBSET S, Amounted(R) PROVE Total(R) = Sum(v, R)
  <2>1. Total(R) = Sum(Amount(R), R) /\ Numbers(Amount(R), R)
    BY <1>3, TotalIs
  <2>2. \A o \in R : v[o] = Amount(R)[o]
    BY DEF Amount
  <2> QED
    BY <2>1, <2>2, SumAgree
<1>4. S \ T \in SUBSET S
  OBVIOUS
<1>5. Sum(v, S) = Sum(v, S \ T) + Sum(v, T)
  <2> HIDE DEF v
  <2> QED
    BY <1>2, SumUnion
<1>6. Sum(v, S) \in Nat /\ Sum(v, T) \in Nat /\ Sum(v, S \ T) \in Nat
  <2> HIDE DEF v
  <2> QED
    BY <1>2, <1>4, SumBounds
<1> QED
  BY <1>1, <1>2, <1>3, <1>4, <1>5, <1>6

\* One output has its amount.
LEMMA TotalOne ==
    ASSUME NEW x, x.amount \in Nat
    PROVE  Total({x}) = x.amount /\ Amounted({x})
<1>1. Amounted({x})
  BY FS_Singleton DEF Amounted
<1>2. Total({x}) = Sum(Amount({x}), {x}) /\ Numbers(Amount({x}), {x})
  BY <1>1, TotalIs
<1>3. Sum(Amount({x}), {x}) = Sum(Amount({x}), {x} \ {x}) + Amount({x})[x]
  BY <1>2, SumRemove, x \in {x}
<1>4. Amount({x})[x] = x.amount /\ {x} \ {x} = {}
  BY DEF Amount
<1> QED
  BY <1>1, <1>2, <1>3, <1>4, SumEmpty

\* Disjoint sets add up.
LEMMA TotalUnion ==
    ASSUME NEW S, NEW T, Amounted(S), Amounted(T), S \cap T = {}
    PROVE  Amounted(S \cup T) /\ Total(S \cup T) = Total(S) + Total(T)
           /\ Total(S) \in Nat /\ Total(T) \in Nat
<1>1. Amounted(S \cup T)
  BY FS_Union DEF Amounted
<1>2. (S \cup T) \ T = S /\ T \in SUBSET (S \cup T)
  OBVIOUS
<1> QED
  BY <1>1, <1>2, TotalSplit

\* Two sets whose elements match one to one, with equal amounts.
LEMMA TotalMatched ==
    ASSUME NEW S, NEW T, NEW f, Amounted(S),
           \A x \in S : f[x] \in T /\ f[x].amount = x.amount,
           \A x, y \in S : f[x] = f[y] => x = y,
           \A t \in T : \E x \in S : t = f[x]
    PROVE  Amounted(T) /\ Total(T) = Total(S)
<1> DEFINE Image(R) == {f[x] : x \in R}
           G == {R \in SUBSET S : Amounted(Image(R)) /\ Total(Image(R)) = Total(R)}
<1>1. ASSUME NEW R \in SUBSET S, \A x \in R : R \ {x} \in G PROVE R \in G
  <2>1. CASE R = {}
    <3>1. Image(R) = {}
      BY <2>1
    <3> QED
      BY <2>1, <3>1, TotalEmpty
  <2>2. CASE R # {}
    <3>1. PICK x \in R : TRUE
      BY <2>2
    <3>2. PICK Q \in SUBSET S : Q = R \ {x}
      OBVIOUS
    <3>3. Amounted(Image(Q)) /\ Total(Image(Q)) = Total(Q)
      BY <1>1, <3>1, <3>2
    <3>4. Image(R) = Image(Q) \cup {f[x]}
      BY <3>1, <3>2
    <3>5. Image(Q) \cap {f[x]} = {}
      BY <3>1, <3>2
    <3>6. x.amount \in Nat /\ f[x].amount = x.amount
      BY <3>1 DEF Amounted
    <3>7. Total({f[x]}) = x.amount /\ Amounted({f[x]}) /\ Total({x}) = x.amount
      BY <3>6, TotalOne
    <3>8. Amounted(R)
      BY TotalSplit
    <3>9. {x} \in SUBSET R
      BY <3>1
    <3>10. Total(R) = Total(Q) + x.amount
      <4>1. Total(R) = Total(R \ {x}) + Total({x})
        BY <3>8, <3>9, TotalSplit
      <4> QED
        BY <3>2, <3>7, <4>1
    <3>11. Amounted(Image(R)) /\ Total(Image(R)) = Total(Image(Q)) + Total({f[x]})
      <4>1. PICK A, B : A = Image(Q) /\ B = {f[x]}
        OBVIOUS
      <4> HIDE DEF Image
      <4>2. Amounted(A \cup B) /\ Total(A \cup B) = Total(A) + Total(B)
        BY <3>3, <3>5, <3>7, <4>1, TotalUnion
      <4> QED
        BY <3>4, <4>1, <4>2
    <3> QED
      BY <3>3, <3>7, <3>10, <3>11
  <2> QED
    BY <2>1, <2>2
<1>2. IsFiniteSet(S)
  BY DEF Amounted
<1>3. \A R \in SUBSET S : R \in G
  <2> HIDE DEF G
  <2> QED
    BY <1>1, <1>2, SubsetInduction
<1>4. Image(S) = T
  <2>1. \A t : t \in Image(S) <=> t \in T
    BY SMT
  <2> QED
    BY <2>1, Zenon
<1> QED
  BY <1>3, <1>4, S \in SUBSET S

\* What the handler adds to the pending burns.
Moved(h) ==
    IF h.pc \notin {"accepted", "issued", "verified"} THEN 0
    ELSE CASE h.entry.op = "burn" -> h.entry.amount
           [] h.entry.op = "reclaim" -> 0 - h.entry.amount
           [] OTHER -> 0
Owed(u) == {x \in receipts[u] : x.pending}
Owings == [u \in Users |-> Total(Owed(u))]
Moves == [r \in Reqs |-> Moved(req[r])]

\* A sum as the specification takes it.
ChosenSum(v, U) ==
    /\ \E f : f = [s \in SUBSET U |-> IF s = {} THEN 0
                     ELSE v[CHOOSE x \in s : TRUE] + f[s \ {CHOOSE x \in s : TRUE}]]
    /\ \A f : f = [s \in SUBSET U |-> IF s = {} THEN 0
                     ELSE v[CHOOSE x \in s : TRUE] + f[s \ {CHOOSE x \in s : TRUE}]]
           => Sum(v, U) = f[U]

\* It gives the sum.
LEMMA ChosenIsSum ==
    ASSUME NEW U, NEW v, v \in [U -> Int], IsFiniteSet(U)
    PROVE  ChosenSum(v, U)
<1>1. Numbers(v, U)
  BY DEF Numbers
<1>2. \A F : AddsUp(F, v, U) => Sum(v, U) = F[U]
  BY <1>1, SumIs, Zenon
<1> DEFINE Eq(f) == f = [s \in SUBSET U |-> IF s = {} THEN 0
                             ELSE v[CHOOSE x \in s : TRUE] + f[s \ {CHOOSE x \in s : TRUE}]]
<1>4. (\E f : Eq(f)) /\ (\A f : Eq(f) => AddsUp(f, v, U))
  BY ChosenAddsUp, Zenon
<1>5. (\E f : Eq(f)) /\ (\A f : Eq(f) => Sum(v, U) = f[U])
  <2> HIDE DEF Eq
  <2> QED
    BY <1>2, <1>4, Zenon
<1> QED
  BY <1>5, Zenon DEF ChosenSum

\* The first sum of Pending: what the receipts of the users owe.
LEMMA OwingsAddUp ==
    ASSUME NEW U, NEW v, v \in [U -> Int], IsFiniteSet(U)
    PROVE  (\A u \in U : v[u] = Total({x \in receipts[u] : x.pending})) =>
           MapThenSumSet(LAMBDA u : Total({x \in receipts[u] : x.pending}), U) = Sum(v, U)
<1> DEFINE T(u) == Total({x \in receipts[u] : x.pending})
           A(f, s) == IF s = {} THEN 0
                      ELSE v[CHOOSE x \in s : TRUE] + f[s \ {CHOOSE x \in s : TRUE}]
           B(f, s) == IF s = {} THEN 0
                      ELSE T(CHOOSE x \in s : TRUE) + f[s \ {CHOOSE x \in s : TRUE}]
           Eq(f) == f = [s \in SUBSET U |-> A(f, s)]
           Eq2(f) == f = [s \in SUBSET U |-> B(f, s)]
<1>3. (\E f : Eq(f)) /\ \A f : Eq(f) => Sum(v, U) = f[U]
  <2>1. ChosenSum(v, U)
    BY ChosenIsSum
  <2> QED
    BY <2>1, Zenon DEF ChosenSum
<1> SUFFICES ASSUME \A u \in U : v[u] = T(u)
             PROVE  MapThenSumSet(LAMBDA u : Total({x \in receipts[u] : x.pending}), U) = Sum(v, U)
  BY Zenon
<1>1. \A f : \A s \in SUBSET U : A(f, s) = B(f, s)
  <2> SUFFICES ASSUME NEW f, NEW s \in SUBSET U, s # {} PROVE A(f, s) = B(f, s)
    OBVIOUS
  <2>1. (CHOOSE x \in s : TRUE) \in U
    <3>1. (CHOOSE x \in s : TRUE) \in s
      BY Zenon
    <3> QED
      BY <3>1
  <2>2. \A u \in U : v[u] = T(u)
    BY Zenon
  <2> HIDE DEF T
  <2> QED
    BY <2>1, <2>2, Zenon
<1>2. \A f : Eq(f) <=> Eq2(f)
  <2> SUFFICES ASSUME NEW f PROVE Eq(f) <=> Eq2(f)
    OBVIOUS
  <2>1. [s \in SUBSET U |-> A(f, s)] = [s \in SUBSET U |-> B(f, s)]
    <3> HIDE DEF A, B
    <3> QED
      BY <1>1, Zenon
  <2> HIDE DEF A, B
  <2> QED
    BY <2>1, Zenon
<1>4. Sum(v, U) = (CHOOSE f : Eq2(f))[U]
  <2> HIDE DEF Eq, Eq2
  <2>1. Eq2(CHOOSE f : Eq2(f))
    BY <1>2, <1>3, Zenon
  <2> QED
    BY <1>2, <1>3, <2>1, Zenon
<1> QED
  BY <1>4, Zenon DEF MapThenSumSet, MapThenFoldSet

\* Its second sum: what the handlers have not recorded.
LEMMA MovesAddUp ==
    ASSUME NEW U, NEW v, v \in [U -> Int], IsFiniteSet(U)
    PROVE  (\A r \in U : v[r] = (
         IF ~ Unrecorded(r) THEN 0
         ELSE CASE req[r].entry.op = "burn" -> req[r].entry.amount
                [] req[r].entry.op = "reclaim" -> 0 - req[r].entry.amount
                [] OTHER -> 0)) =>
           MapThenSumSet(LAMBDA r : (
         IF ~ Unrecorded(r) THEN 0
         ELSE CASE req[r].entry.op = "burn" -> req[r].entry.amount
                [] req[r].entry.op = "reclaim" -> 0 - req[r].entry.amount
                [] OTHER -> 0), U) = Sum(v, U)
<1> DEFINE T(r) == (
         IF ~ Unrecorded(r) THEN 0
         ELSE CASE req[r].entry.op = "burn" -> req[r].entry.amount
                [] req[r].entry.op = "reclaim" -> 0 - req[r].entry.amount
                [] OTHER -> 0)
           A(f, s) == IF s = {} THEN 0
                      ELSE v[CHOOSE x \in s : TRUE] + f[s \ {CHOOSE x \in s : TRUE}]
           B(f, s) == IF s = {} THEN 0
                      ELSE T(CHOOSE x \in s : TRUE) + f[s \ {CHOOSE x \in s : TRUE}]
           Eq(f) == f = [s \in SUBSET U |-> A(f, s)]
           Eq2(f) == f = [s \in SUBSET U |-> B(f, s)]
<1>3. (\E f : Eq(f)) /\ \A f : Eq(f) => Sum(v, U) = f[U]
  <2>1. ChosenSum(v, U)
    BY ChosenIsSum
  <2> QED
    BY <2>1, Zenon DEF ChosenSum
<1> SUFFICES ASSUME \A r \in U : v[r] = T(r) PROVE MapThenSumSet(LAMBDA r : T(r), U) = Sum(v, U)
  BY Zenon
<1>1. \A f : \A s \in SUBSET U : A(f, s) = B(f, s)
  <2> SUFFICES ASSUME NEW f, NEW s \in SUBSET U, s # {} PROVE A(f, s) = B(f, s)
    OBVIOUS
  <2>1. (CHOOSE x \in s : TRUE) \in U
    <3>1. (CHOOSE x \in s : TRUE) \in s
      BY Zenon
    <3> QED
      BY <3>1
  <2>2. \A u \in U : v[u] = T(u)
    BY Zenon
  <2> HIDE DEF T
  <2> QED
    BY <2>1, <2>2, Zenon
<1>2. \A f : Eq(f) <=> Eq2(f)
  <2> SUFFICES ASSUME NEW f PROVE Eq(f) <=> Eq2(f)
    OBVIOUS
  <2>1. [s \in SUBSET U |-> A(f, s)] = [s \in SUBSET U |-> B(f, s)]
    <3> HIDE DEF A, B
    <3> QED
      BY <1>1, Zenon
  <2> HIDE DEF A, B
  <2> QED
    BY <2>1, Zenon
<1>4. Sum(v, U) = (CHOOSE f : Eq2(f))[U]
  <2> HIDE DEF Eq, Eq2
  <2>1. Eq2(CHOOSE f : Eq2(f))
    BY <1>2, <1>3, Zenon
  <2> QED
    BY <1>2, <1>3, <2>1, Zenon
<1> QED
  BY <1>4, Zenon DEF MapThenSumSet, MapThenFoldSet

\* Pending is the sum of both.
PendingAddsUp ==
    /\ Numbers(Owings, Users) /\ Numbers(Moves, Reqs)
    /\ \A u \in Users : Amounted(Owed(u)) /\ Total(Owed(u)) \in Nat
    /\ \A r \in Reqs : Moved(req[r]) \in Int
    /\ Pending = Sum(Owings, Users) + Sum(Moves, Reqs)
    /\ Sum(Owings, Users) \in Nat /\ Sum(Moves, Reqs) \in Int

\* Pending is what the users owe and what the handlers move.
LEMMA PendingIs ==
    ASSUME ReceiptsOK, HandlersOK
    PROVE  PendingAddsUp
<1>1. \A u \in Users : Amounted(Owed(u)) /\ Total(Owed(u)) \in Nat
  <2> SUFFICES ASSUME NEW u \in Users PROVE Amounted(Owed(u)) /\ Total(Owed(u)) \in Nat
    OBVIOUS
  <2>1. IsFiniteSet(receipts[u]) /\ \A x \in receipts[u] : x.amount \in Nat
    BY DEF ReceiptsOK
  <2>2. Owed(u) \subseteq receipts[u]
    BY DEF Owed
  <2>3. Amounted(Owed(u))
    BY <2>1, <2>2, FS_Subset DEF Amounted
  <2> QED
    BY <2>3, TotalSplit, {} \in SUBSET Owed(u)
<1>2. ASSUME NEW r \in Reqs PROVE Moved(req[r]) \in Int
  <2>1. HandlerInv(req[r])
    BY DEF HandlersOK
  <2>2. CASE req[r].pc \notin {"accepted", "issued", "verified"}
    BY <2>2 DEF Moved
  <2>3. CASE req[r].pc \in {"accepted", "issued", "verified"}
    <3>1. req[r].entry.amount \in Nat
      BY <2>1, <2>3 DEF HandlerInv, EntryInv, Idle
    <3> QED
      BY <3>1 DEF Moved
  <2> QED
    BY <2>2, <2>3
<1>3. IsFiniteSet(Users) /\ IsFiniteSet(Reqs)
  BY TokenAssumption, IssuerAssumption
<1>4. Owings \in [Users -> Int] /\ Moves \in [Reqs -> Int] /\ \A u \in Users : Owings[u] >= 0
  BY <1>1, <1>2 DEF Owings, Moves
<1>5. Numbers(Owings, Users) /\ Numbers(Moves, Reqs)
  BY <1>3, <1>4 DEF Numbers
<1>6. Pending = Sum(Owings, Users) + Sum(Moves, Reqs)
  <2>1. \A u \in Users : Owings[u] = Total({x \in receipts[u] : x.pending})
    BY Zenon DEF Owings, Owed
  <2>2. MapThenSumSet(LAMBDA u : Total({x \in receipts[u] : x.pending}), Users) = Sum(Owings, Users)
    BY <1>3, <1>4, <2>1, OwingsAddUp, Zenon
  <2>4. \A r \in Reqs : Moves[r] = (
         IF ~ Unrecorded(r) THEN 0
         ELSE CASE req[r].entry.op = "burn" -> req[r].entry.amount
                [] req[r].entry.op = "reclaim" -> 0 - req[r].entry.amount
                [] OTHER -> 0)
    BY DEF Moves, Moved, Unrecorded
  <2>5. MapThenSumSet(LAMBDA r : (
         IF ~ Unrecorded(r) THEN 0
         ELSE CASE req[r].entry.op = "burn" -> req[r].entry.amount
                [] req[r].entry.op = "reclaim" -> 0 - req[r].entry.amount
                [] OTHER -> 0), Reqs) = Sum(Moves, Reqs)
    BY <1>3, <1>4, <2>4, MovesAddUp, Zenon
  <2> QED
    BY <2>2, <2>5, Zenon DEF Pending
<1>7. Sum(Owings, Users) \in Nat /\ Sum(Moves, Reqs) \in Int
  BY <1>4, <1>5, SumBounds, SumIs
<1> QED
  BY <1>1, <1>2, <1>5, <1>6, <1>7 DEF PendingAddsUp

-----------------------------------------------------------------------------
(***************************************************************************)
(* What a step of the chain or of the receipts leaves true.                *)
(***************************************************************************)
\* The chain has grown: what lives either lived or is new.
Grows ==
    /\ ntx \in Nat /\ ntx' \in Nat /\ ntx <= ntx'
    /\ \A o \in live' : o \in live \/ o.at[1] > ntx
TxsGrow == \A u \in Users : Txs(receipts[u]) \subseteq Txs(receipts'[u])

\* A place stays a place; no output comes to live where there was none.
LEMMA OutpointLater ==
    ASSUME NEW at, Grows, Outpoint(at)
    PROVE  /\ Outpoint(at)'
           /\ ControllerLives(at)' => ControllerLives(at)
           /\ \A role, n : Names(at, role, n) => Names(at, role, n)'
<1>1. at \in Nat \X Nat /\ at[1] \in Nat /\ at[1] <= ntx
  BY DEF Outpoint
<1>2. \A o \in live' : o.at = at => o \in live
  BY <1>1 DEF Grows
<1>3. Outpoint(at)'
  BY <1>1 DEF Outpoint, Grows
<1> QED
  BY <1>2, <1>3 DEF ControllerLives, Names

\* A record stays sound,
LEMMA RecordLater ==
    ASSUME NEW rec, Grows, RecordOK(rec)
    PROVE  RecordOK(rec)'
<1>1. Outpoint(rec.controller)' /\ Outpoint(rec.holder)'
  BY OutpointLater DEF RecordOK
<1> QED
  BY <1>1 DEF RecordOK

\* a file does,
LEMMA FileLater ==
    ASSUME NEW records, Grows, FileOK(records)
    PROVE  FileOK(records)'
<1>1. \A rec \in records : RecordOK(rec)'
  BY RecordLater DEF FileOK
<1> QED
  BY <1>1 DEF FileOK

\* and so do the holder outputs that a build has picked,
LEMMA LotsLater ==
    ASSUME NEW S, Grows, LotsOK(S)
    PROVE  LotsOK(S)'
<1>1. \A x \in S : Outpoint(x.holder)' /\ Names(x.holder, "holder", x.amount)'
  BY OutpointLater DEF LotsOK
<1> QED
  BY <1>1 DEF LotsOK

\* and a build, if a supply update stays due.
LEMMA EntryLater ==
    ASSUME NEW e, Grows, TxsGrow, EntryInv(e),
           e.op = "reclaim" /\ ControllerLives(e.record.controller)' => Due(e)'
    PROVE  EntryInv(e)'
<1>1. RecordOK(e.record)'
  BY RecordLater DEF EntryInv
<1>2. Names(e.record.controller, "controller", e.record.issued) =>
         Names(e.record.controller, "controller", e.record.issued)'
  BY OutpointLater DEF EntryInv, RecordOK
<1>3. User(e) \in Users
  BY TokenAssumption DEF EntryInv, User
<1>4. e.receipts \subseteq Txs(receipts[User(e)]) => e.receipts \subseteq Txs(receipts'[User(e)])
  BY <1>3 DEF TxsGrow
<1>5. e.op = "transfer" =>
          \E S : /\ LotsOK(S)' /\ S # {} /\ e.spends = {x.holder : x \in S}
                 /\ Total(S) - e.amount \in Nat
                 /\ e.outs = TransferOutputs(e.wallet, e.new, Total(S), e.amount)
  <2> SUFFICES ASSUME e.op = "transfer" PROVE
          \E S : /\ LotsOK(S)' /\ S # {} /\ e.spends = {x.holder : x \in S}
                 /\ Total(S) - e.amount \in Nat
                 /\ e.outs = TransferOutputs(e.wallet, e.new, Total(S), e.amount)
    OBVIOUS
  <2>1. PICK S : /\ LotsOK(S) /\ S # {} /\ e.spends = {x.holder : x \in S}
                 /\ Total(S) - e.amount \in Nat
                 /\ e.outs = TransferOutputs(e.wallet, e.new, Total(S), e.amount)
    BY Zenon DEF EntryInv
  <2>2. LotsOK(S)'
    BY <2>1, LotsLater
  <2> QED
    BY <2>1, <2>2, Zenon
<1>6. e.op = "burn" =>
          \E S : /\ LotsOK(S)' /\ S # {} /\ e.spends = {x.holder : x \in S}
                 /\ Total(S) - e.amount \in Nat
                 /\ e.outs = BurnOutputs(e.wallet, Total(S), e.amount)
  <2> SUFFICES ASSUME e.op = "burn" PROVE
          \E S : /\ LotsOK(S)' /\ S # {} /\ e.spends = {x.holder : x \in S}
                 /\ Total(S) - e.amount \in Nat
                 /\ e.outs = BurnOutputs(e.wallet, Total(S), e.amount)
    OBVIOUS
  <2>1. PICK S : /\ LotsOK(S) /\ S # {} /\ e.spends = {x.holder : x \in S}
                 /\ Total(S) - e.amount \in Nat
                 /\ e.outs = BurnOutputs(e.wallet, Total(S), e.amount)
    BY Zenon DEF EntryInv
  <2>2. LotsOK(S)'
    BY <2>1, LotsLater
  <2> QED
    BY <2>1, <2>2, Zenon
<1> QED
  BY <1>1, <1>2, <1>4, <1>5, <1>6, Zenon DEF EntryInv, User

\* What is due depends on the receipts alone.
LEMMA DueSame ==
    ASSUME NEW e, receipts' = receipts
    PROVE  Due(e)' <=> Due(e)
  BY Zenon DEF Due, User

\* What a supply update has read stays good while its controller lives.
LEMMA SnapshotLater ==
    ASSUME NEW h, Grows, TxsGrow, SnapshotOK(h),
           \A rec \in h.records :
              ControllerLives(rec.controller)' => h.receipts \subseteq receipts'[OwnerOf[h.wallet]]
    PROVE  SnapshotOK(h)'
<1>1. FileOK(h.records)'
  BY FileLater DEF SnapshotOK
<1>2. OwnerOf[h.wallet] \in Users
  BY TokenAssumption DEF SnapshotOK
<1> QED
  BY <1>1, <1>2, Zenon DEF SnapshotOK, TxsGrow

\* A handler stays sound, if nobody comes to know of what it moved.
LEMMA HandlerLater ==
    ASSUME NEW h, Grows, TxsGrow, HandlerInv(h),
           h.pc \in Stages /\ h.entry.op = "reclaim" /\ ControllerLives(h.entry.record.controller)'
              => Due(h.entry)',
           h.pc = "reclaim_build" => \A rec \in h.records :
              ControllerLives(rec.controller)' => h.receipts \subseteq receipts'[OwnerOf[h.wallet]],
           Moving(h) => /\ \E o \in live' : o.at = <<h.tx, 0>> /\ o.role = "controller"
                        /\ ~ Cited(<<h.tx, 0>>)',
           h.pc = "accepted" /\ h.entry.op = "burn" => \A u \in Users : h.tx \notin Txs(receipts'[u]),
           h.pc = "accepted" /\ h.entry.op = "reclaim" => Due(h.entry)'
    PROVE  HandlerInv(h)'
<1>1. CASE h = Idle
  BY <1>1 DEF HandlerInv
<1>2. CASE h.pc = "reclaim_build" /\ SnapshotOK(h)
  <2>1. SnapshotOK(h)'
    BY <1>2, SnapshotLater
  <2> QED
    BY <1>2, <2>1 DEF HandlerInv
<1>3. CASE h.pc \in Stages /\ h # Idle /\ h.pc # "reclaim_build"
  <2>1. EntryInv(h.entry)
    BY <1>3 DEF HandlerInv
  <2>2. EntryInv(h.entry)'
    BY <1>3, <2>1, EntryLater
  <2>3. h.tx \in Nat /\ h.tx <= ntx'
    BY <1>3 DEF HandlerInv, Grows
  <2> QED
    BY <1>3, <2>2, <2>3, Zenon DEF HandlerInv, Moving
<1> QED
  BY <1>1, <1>2, <1>3 DEF HandlerInv, Stages, Idle

-----------------------------------------------------------------------------
(***************************************************************************)
(* Steps that touch neither the chain nor the receipts.                    *)
(***************************************************************************)
\* Whatever a step cites was cited, or is the place that a handler moved the
\* controller to, which that handler is writing down.
MayCite(at) ==
    \/ Cited(at) \/ at = NoHolder
    \/ \E r \in Reqs : Moving(req[r]) /\ at = <<req[r].tx, 0>> /\ req'[r].pc # "accepted"

\* Nothing comes into reach by citing what was cited.
LEMMA ReachableBefore ==
    ASSUME NEW at, HandlersOK,
           Cited(at)' => MayCite(at), \A r \in Reqs : Moving(req'[r]) => req'[r] = req[r]
    PROVE  Reachable(at)' => Reachable(at) \/ at = NoHolder
<1>1. Reachable(at)' => Cited(at)' \/ \E r \in Reqs : Moving(req'[r]) /\ at = <<req'[r].tx, 0>>
  BY Zenon DEF Reachable, Moving
<1>2. MayCite(at) => Reachable(at) \/ at = NoHolder
  BY Zenon DEF Reachable, MayCite
<1>3. (\E r \in Reqs : Moving(req'[r]) /\ at = <<req'[r].tx, 0>>) => Reachable(at)
  BY Zenon DEF Reachable
<1> QED
  BY <1>1, <1>2, <1>3

\* Steps that touch neither the chain nor the receipts.
LEMMA QuietStructure ==
    ASSUME Structure, UNCHANGED <<live, ntx, receipts>>, FilesOK',
           \A e \in cache' : EntryInv(e),
           req' = [q \in Reqs |-> req'[q]],
           \A q \in Reqs : req'[q] = req[q] \/ (HandlerInv(req'[q]) /\ req'[q].pc # "accepted"),
           \A at : Cited(at)' => MayCite(at)
    PROVE  Structure'
<1>1. Grows /\ TxsGrow
  BY DEF Grows, TxsGrow, Structure, ChainOK
<1>2. ChainOK'
  BY DEF Structure, ChainOK, Controllers
<1>3. ReceiptsOK'
  BY DEF Structure, ReceiptsOK
<1>4. \A e : EntryInv(e) => EntryInv(e)'
  <2> SUFFICES ASSUME NEW e, EntryInv(e) PROVE EntryInv(e)'
    OBVIOUS
  <2>1. e.op = "reclaim" /\ ControllerLives(e.record.controller)' => Due(e)'
    <3>1. ControllerLives(e.record.controller)' => ControllerLives(e.record.controller)
      BY DEF ControllerLives
    <3>2. Due(e)' <=> Due(e)
      BY DueSame
    <3> QED
      BY <3>1, <3>2, Zenon DEF EntryInv
  <2> QED
    BY <1>1, <2>1, EntryLater
<1>5. \A e \in cache' : EntryInv(e)'
  BY <1>4
<1>6. ASSUME NEW q \in Reqs PROVE HandlerInv(req[q])'
  <2>1. PICK h : h = req'[q]
    OBVIOUS
  <2>2. HandlerInv(h) /\ (h = req[q] \/ h.pc # "accepted")
    BY <2>1 DEF Structure, HandlersOK
  <2>3. h.pc \in Stages /\ h.entry.op = "reclaim" /\ ControllerLives(h.entry.record.controller)'
              => Due(h.entry)'
    <3>1. ControllerLives(h.entry.record.controller)' => ControllerLives(h.entry.record.controller)
      BY DEF ControllerLives
    <3>2. Due(h.entry)' <=> Due(h.entry)
      BY DueSame
    <3>3. h.pc \in Stages => EntryInv(h.entry)
      BY <2>2 DEF HandlerInv, Idle, Stages
    <3> QED
      BY <3>1, <3>2, <3>3, Zenon DEF EntryInv
  <2>4. h.pc = "reclaim_build" => \A rec \in h.records :
              ControllerLives(rec.controller)' => h.receipts \subseteq receipts'[OwnerOf[h.wallet]]
    <3>1. h.pc = "reclaim_build" => SnapshotOK(h)
      BY <2>2 DEF HandlerInv, Idle, Stages
    <3> QED
      BY <3>1 DEF SnapshotOK, ControllerLives
  <2>5. Moving(h) => /\ \E o \in live' : o.at = <<h.tx, 0>> /\ o.role = "controller"
                     /\ ~ Cited(<<h.tx, 0>>)'
    <3> SUFFICES ASSUME Moving(h) PROVE /\ \E o \in live' : o.at = <<h.tx, 0>> /\ o.role = "controller"
                                        /\ ~ Cited(<<h.tx, 0>>)'
      OBVIOUS
    <3>0. h.pc = "accepted" /\ h = req[q]
      BY <2>2 DEF Moving
    <3>1. (\E o \in live : o.at = <<h.tx, 0>> /\ o.role = "controller") /\ ~ Cited(<<h.tx, 0>>)
      BY <2>2, <3>0 DEF HandlerInv, Idle
    <3>2. ASSUME NEW r \in Reqs, Moving(req[r]), <<h.tx, 0>> = <<req[r].tx, 0>>, req'[r].pc # "accepted"
          PROVE FALSE
      <4>1. req[r].pc = "accepted" /\ req[r].tx = h.tx /\ r # q
        BY <2>1, <3>0, <3>2 DEF Moving
      <4> QED
        BY <3>0, <4>1 DEF Structure, HandlersOK
    <3>3. <<h.tx, 0>> # NoHolder
      BY <2>2, <3>0 DEF HandlerInv, Idle, NoHolder
    <3>4. ~ MayCite(<<h.tx, 0>>)
      BY <3>1, <3>2, <3>3, Zenon DEF MayCite
    <3> QED
      BY <3>1, <3>4
  <2>6. h.pc = "accepted" /\ h.entry.op = "burn" => \A u \in Users : h.tx \notin Txs(receipts'[u])
    BY <2>2 DEF HandlerInv, Idle
  <2>7. h.pc = "accepted" /\ h.entry.op = "reclaim" => Due(h.entry)'
    <3>1. Due(h.entry)' <=> Due(h.entry)
      BY DueSame
    <3> QED
      BY <2>2, <3>1 DEF HandlerInv, Idle
  <2>8. HandlerInv(h)'
    BY <1>1, <2>2, <2>3, <2>4, <2>5, <2>6, <2>7, HandlerLater
  <2> QED
    BY <2>1, <2>8
<1>7. HandlersOK'
  <2>1. \A r, q \in Reqs : r # q /\ req'[r].pc = "accepted" /\ req'[q].pc = "accepted"
                              => req'[r].tx # req'[q].tx
    BY DEF Structure, HandlersOK
  <2> QED
    BY <1>6, <2>1, Zenon DEF HandlersOK
<1> QED
  BY <1>2, <1>3, <1>5, <1>7, Zenon DEF Structure

\* Pending is a sum of numbers before and after.
LEMMA PendingBoth ==
    ASSUME Structure, Structure'
    PROVE  PendingAddsUp /\ PendingAddsUp'
<1>1. PendingAddsUp
  BY PendingIs DEF Structure
<1>2. ReceiptsOK' /\ HandlersOK'
  BY DEF Structure
<1>3. ReceiptsOK' /\ HandlersOK' => PendingAddsUp'
  BY PendingIs, PTL
<1> QED
  BY <1>1, <1>2, <1>3

\* It is the same if neither receipts nor handlers move.
LEMMA PendingSame ==
    ASSUME Structure, Structure', receipts' = receipts,
           \A r \in Reqs : Moved(req'[r]) = Moved(req[r])
    PROVE  Pending' = Pending /\ Pending \in Int
<1>1. PendingAddsUp /\ PendingAddsUp'
  BY PendingBoth
<1>2. Owings' = Owings
  BY Zenon DEF Owings, Owed
<1>3. Moves' = Moves
  BY Zenon DEF Moves
<1> QED
  BY <1>1, <1>2, <1>3 DEF PendingAddsUp

\* One user's receipts and one handler.
LEMMA PendingStep ==
    ASSUME Structure, Structure', NEW u \in Users, NEW r \in Reqs,
           \A v \in Users \ {u} : receipts'[v] = receipts[v],
           \A q \in Reqs \ {r} : Moved(req'[q]) = Moved(req[q])
    PROVE  /\ Pending' = Pending - Total(Owed(u)) + Total(Owed(u)') - Moved(req[r]) + Moved(req'[r])
           /\ Pending \in Int /\ Total(Owed(u)) \in Nat /\ Total(Owed(u)') \in Nat
           /\ Moved(req[r]) \in Int /\ Moved(req'[r]) \in Int
<1>1. PendingAddsUp /\ PendingAddsUp'
  BY PendingBoth
<1>2. PICK v, w, x, y : v = Owings /\ w = Owings' /\ x = Moves /\ y = Moves'
  OBVIOUS
<1>3. Numbers(v, Users) /\ Numbers(w, Users) /\ Numbers(x, Reqs) /\ Numbers(y, Reqs)
  BY <1>1, <1>2, Zenon DEF PendingAddsUp
<1>4. \A t \in Users \ {u} : w[t] = v[t]
  <2> SUFFICES ASSUME NEW t \in Users, t # u PROVE w[t] = v[t]
    OBVIOUS
  <2>1. w[t] = Total(Owed(t)') /\ v[t] = Total(Owed(t))
    BY <1>2, Zenon DEF Owings
  <2>2. receipts'[t] = receipts[t]
    OBVIOUS
  <2>3. Owed(t)' = Owed(t)
    BY <2>2, Zenon DEF Owed
  <2> QED
    BY <2>1, <2>3, Zenon
<1>5. v[u] = Total(Owed(u)) /\ w[u] = Total(Owed(u)')
  BY <1>2, Zenon DEF Owings
<1>6. (\A q \in Reqs \ {r} : y[q] = x[q]) /\ x[r] = Moved(req[r]) /\ y[r] = Moved(req'[r])
  BY <1>2 DEF Moves
<1>7. /\ Sum(w, Users) = Sum(v, Users) - v[u] + w[u]
      /\ Sum(v, Users) \in Int /\ v[u] \in Int /\ w[u] \in Int
  BY <1>3, <1>4, SumUpdate
<1>8. /\ Sum(y, Reqs) = Sum(x, Reqs) - x[r] + y[r]
      /\ Sum(x, Reqs) \in Int /\ x[r] \in Int /\ y[r] \in Int
  BY <1>3, <1>6, SumUpdate
<1>9. Pending = Sum(v, Users) + Sum(x, Reqs) /\ Pending' = Sum(w, Users) + Sum(y, Reqs)
  BY <1>1, <1>2, Zenon DEF PendingAddsUp
<1>10. Total(Owed(u)) \in Nat /\ Total(Owed(u)') \in Nat
  <2>1. (Total(Owed(u)) \in Nat)'
    BY <1>1, Zenon DEF PendingAddsUp
  <2> QED
    BY <1>1, <2>1, Zenon DEF PendingAddsUp
<1> QED
  BY <1>5, <1>6, <1>7, <1>8, <1>9, <1>10

\* A step that leaves what is owed as it is, and does not bring the controller
\* into reach.
LEMMA QuietBalance ==
    ASSUME Structure, Structure', Balance, UNCHANGED <<live, receipts>>,
           cutOff' = 0 => cutOff = 0,
           \A r \in Reqs : Moved(req'[r]) = Moved(req[r]),
           \A at : Reachable(at)' => Reachable(at) \/ at = NoHolder
    PROVE  Balance'
<1>1. Pending' = Pending
  BY PendingSame
<1>2. Holders' = Holders /\ Controllers' = Controllers
  BY DEF Holders, Controllers
<1>3. Total(Holders)' = Total(Holders)
  BY <1>2
<1>4. ASSUME NEW c \in Controllers'
      PROVE  /\ c.amount >= Total(Holders)'
             /\ cutOff' = 0 => c.amount = Total(Holders)' + Pending'
             /\ Reachable(c.at)' => c.amount >= Total(Holders)' + Pending'
  <2>1. c \in Controllers
    BY <1>2, <1>4
  <2>0. c.at # NoHolder
    BY <2>1 DEF Structure, ChainOK, Controllers, NoHolder
  <2>2. /\ c.amount >= Total(Holders)
        /\ cutOff = 0 => c.amount = Total(Holders) + Pending
        /\ Reachable(c.at) => c.amount >= Total(Holders) + Pending
    BY <2>1, Zenon DEF Balance
  <2> QED
    BY <1>1, <1>3, <2>0, <2>2
<1> QED
  BY <1>4 DEF Balance

\* Only a handler between the chain and its first write moves anything.
LEMMA RestHaveMoved ==
    ASSUME NEW h, HandlerInv(h), h.pc # "accepted"
    PROVE  Moved(h) = 0
  BY DEF HandlerInv, Moved, Idle, Stages

\* One handler goes on, and cites only what it may.
LEMMA HandlerStep ==
    ASSUME SupplyInvariant, UNCHANGED <<live, ntx, receipts, cutOff>>, FilesOK',
           NEW r \in Reqs, NEW h, req' = [req EXCEPT ![r] = h],
           HandlerInv(h), h.pc # "accepted", Moved(req[r]) = 0,
           \A at : HandlerCites(h, at) => MayCite(at),
           \A e \in cache' : EntryInv(e) /\ MayCite(e.record.controller),
           \A u \in Users : \A rec \in store'[u] : MayCite(rec.controller)
    PROVE  SupplyInvariant'
<1>1. /\ \A q \in Reqs : req'[q] = IF q = r THEN h ELSE req[q]
      /\ req' = [q \in Reqs |-> req'[q]]
  BY DEF SupplyInvariant, Structure, HandlersOK
<1>2. ASSUME NEW at, Cited(at)' PROVE MayCite(at)
  <2>1. CASE \E u \in Users : \E rec \in store'[u] : rec.controller = at
    BY <2>1
  <2>2. CASE \E e \in cache' : e.record.controller = at
    BY <2>2
  <2>3. CASE \E q \in Reqs : HandlerCites(req'[q], at)
    <3>1. PICK q \in Reqs : HandlerCites(req'[q], at)
      BY <2>3
    <3>2. CASE q = r
      BY <1>1, <3>1, <3>2
    <3>3. CASE q # r
      <4>1. HandlerCites(req[q], at)
        BY <1>1, <3>1, <3>3
      <4> QED
        BY <4>1, Zenon DEF Cited, MayCite
    <3> QED
      BY <3>2, <3>3
  <2>4. (\E q \in Reqs : HandlerCites(req[q], at)') <=> \E q \in Reqs : HandlerCites(req'[q], at)
    BY Zenon DEF HandlerCites
  <2> QED
    BY <1>2, <2>1, <2>2, <2>3, <2>4, Zenon DEF Cited
<1>3. \A q \in Reqs : req'[q] = req[q] \/ (HandlerInv(req'[q]) /\ req'[q].pc # "accepted")
  <2> SUFFICES ASSUME NEW q \in Reqs
               PROVE  req'[q] = req[q] \/ (HandlerInv(req'[q]) /\ req'[q].pc # "accepted")
    OBVIOUS
  <2>1. CASE q = r
    <3>1. req'[q] = h
      BY <1>1, <2>1
    <3> QED
      BY <3>1, Zenon
  <2>2. CASE q # r
    <3>1. req'[q] = req[q]
      BY <1>1, <2>2
    <3> QED
      BY <3>1, Zenon
  <2> QED
    BY <2>1, <2>2
<1>4. Structure'
  BY <1>1, <1>2, <1>3, QuietStructure DEF SupplyInvariant
<1>5. \A at : Reachable(at)' => Reachable(at) \/ at = NoHolder
  <2>1. \A q \in Reqs : Moving(req'[q]) => req'[q] = req[q]
    BY <1>1 DEF Moving
  <2> QED
    BY <1>2, <2>1, ReachableBefore DEF SupplyInvariant, Structure
<1>6. \A q \in Reqs : Moved(req'[q]) = Moved(req[q])
  BY <1>1, RestHaveMoved
<1>7. Balance'
  BY <1>4, <1>5, <1>6, QuietBalance DEF SupplyInvariant
<1> QED
  BY <1>4, <1>7 DEF SupplyInvariant

\* Steps that change only the cache.
LEMMA CacheStep ==
    ASSUME SupplyInvariant, UNCHANGED <<live, ntx, receipts, cutOff, store, req>>,
           \A e \in cache' : EntryInv(e) /\ MayCite(e.record.controller)
    PROVE  SupplyInvariant'
<1>1. ASSUME NEW at, Cited(at)' PROVE MayCite(at)
  <2>1. (\E q \in Reqs : HandlerCites(req[q], at)') => \E q \in Reqs : HandlerCites(req[q], at)
    BY Zenon DEF HandlerCites
  <2> QED
    BY <1>1, <2>1, Zenon DEF Cited, MayCite
<1>2. FilesOK'
  <2>1. Grows
    BY DEF Grows, SupplyInvariant, Structure, ChainOK
  <2>2. \A u \in Users : FileOK(store[u])
    BY DEF SupplyInvariant, Structure, FilesOK
  <2>3. ASSUME NEW u \in Users PROVE FileOK(store[u])'
    <3>1. PICK f : f = store[u]
      OBVIOUS
    <3>2. FileOK(f)'
      BY <2>1, <2>2, <3>1, FileLater
    <3> QED
      BY <3>1, <3>2
  <2> QED
    BY <2>3, Zenon DEF SupplyInvariant, Structure, FilesOK
<1>3. Structure'
  <2>1. req' = [q \in Reqs |-> req'[q]] /\ \A q \in Reqs : req'[q] = req[q]
    BY DEF SupplyInvariant, Structure, HandlersOK
  <2>2. \A at : Cited(at)' => MayCite(at)
    BY <1>1
  <2>3. ASSUME NEW q \in Reqs
        PROVE  req'[q] = req[q] \/ (HandlerInv(req'[q]) /\ req'[q].pc # "accepted")
    <3>1. req'[q] = req[q]
      OBVIOUS
    <3> QED
      BY <3>1, Zenon
  <2>4. Structure /\ \A e \in cache' : EntryInv(e)
    BY DEF SupplyInvariant
  <2> QED
    BY <1>2, <2>1, <2>2, <2>3, <2>4, QuietStructure, Zenon
<1>4. \A at : Reachable(at)' => Reachable(at) \/ at = NoHolder
  <2>1. \A q \in Reqs : Moving(req'[q]) => req'[q] = req[q]
    OBVIOUS
  <2>2. \A at : Cited(at)' => MayCite(at)
    BY <1>1
  <2> QED
    BY <2>1, <2>2, ReachableBefore DEF SupplyInvariant, Structure
<1>5. Balance'
  BY <1>3, <1>4, QuietBalance DEF SupplyInvariant
<1> QED
  BY <1>3, <1>5 DEF SupplyInvariant

-----------------------------------------------------------------------------
(***************************************************************************)
(* Files of records.                                                       *)
(***************************************************************************)
\* The image of a finite set is finite.
LEMMA FiniteImage ==
    ASSUME NEW S, IsFiniteSet(S), NEW T, NEW f, \A t \in T : \E s \in S : t = f[s]
    PROVE  IsFiniteSet(T)
<1>1. PICK g : g = [t \in T |-> CHOOSE s \in S : t = f[s]]
  OBVIOUS
<1>2. \A t \in T : g[t] \in S /\ t = f[g[t]]
  BY <1>1
<1>3. g \in Injection(T, S)
  BY <1>1, <1>2 DEF Injection, IsInjective
<1> QED
  BY <1>3, FS_Injection

\* A part of a file is one,
LEMMA FilePart ==
    ASSUME NEW F, FileOK(F), NEW G \in SUBSET F
    PROVE  FileOK(G)
<1>1. IsFiniteSet(G)
  BY FS_Subset DEF FileOK
<1> QED
  BY <1>1 DEF FileOK

\* a record is one,
LEMMA FileOne ==
    ASSUME NEW rec, RecordOK(rec), rec.holder = NoHolder => rec.amount = 0
    PROVE  FileOK({rec})
<1>1. IsFiniteSet({rec})
  BY FS_Singleton
<1> QED
  BY <1>1 DEF FileOK

\* and two are one if they share no holder output.
LEMMA FileUnion ==
    ASSUME NEW F, NEW G, FileOK(F), FileOK(G),
           \A x \in F, y \in G : x.holder # y.holder
    PROVE  FileOK(F \cup G)
<1>1. IsFiniteSet(F \cup G)
  BY FS_Union DEF FileOK
<1> QED
  BY <1>1 DEF FileOK

\* The records change, each keeps its holder.
LEMMA FileMapped ==
    ASSUME NEW F, FileOK(F), NEW G, NEW f,
           \A g \in G : \E rec \in F : g = f[rec],
           \A rec \in F : RecordOK(f[rec]) /\ f[rec].holder = rec.holder /\ f[rec].amount = rec.amount
    PROVE  FileOK(G)
<1>1. IsFiniteSet(G)
  BY FiniteImage DEF FileOK
<1> QED
  BY <1>1 DEF FileOK

\* The records of a file get a new controller and supply.
LEMMA Controlled ==
    ASSUME NEW F, FileOK(F), NEW at, Outpoint(at), NEW supply \in Nat
    PROVE  /\ FileOK(WithController(F, at, supply))
           /\ \A rec \in WithController(F, at, supply) :
                 rec.controller = at /\ \E old \in F : rec.holder = old.holder
<1>1. PICK f : f = [rec \in F |-> [rec EXCEPT !.controller = at, !.issued = supply,
                                              !.status = "candidate"]]
  OBVIOUS
<1>2. ASSUME NEW rec \in F
      PROVE  RecordOK(f[rec]) /\ f[rec].holder = rec.holder /\ f[rec].amount = rec.amount
             /\ f[rec].controller = at
  <2>1. RecordOK(rec)
    BY DEF FileOK
  <2>2. f[rec] = [wallet |-> rec.wallet, issuer |-> rec.issuer, issued |-> supply,
                  controller |-> at, holder |-> rec.holder, amount |-> rec.amount,
                  status |-> "candidate"]
    BY <1>1, <2>1 DEF RecordOK
  <2> QED
    BY <2>1, <2>2 DEF RecordOK
<1>3. \A g \in WithController(F, at, supply) : \E rec \in F : g = f[rec]
  BY <1>1 DEF WithController
<1>4. FileOK(WithController(F, at, supply))
  BY <1>2, <1>3, FileMapped
<1> QED
  BY <1>2, <1>3, <1>4

\* Every file is sound, so all are.
LEMMA FilesWritten ==
    ASSUME Grows, store' = [u \in Users |-> store'[u]], \A u \in Users : FileOK(store'[u])
    PROVE  FilesOK'
<1>1. ASSUME NEW u \in Users PROVE FileOK(store[u])'
  <2>1. PICK f : f = store'[u]
    OBVIOUS
  <2>2. FileOK(f)'
    BY <2>1, FileLater, Zenon
  <2> QED
    BY <2>1, <2>2
<1> QED
  BY <1>1, Zenon DEF FilesOK

-----------------------------------------------------------------------------
(***************************************************************************)
(* Submitting, and building.                                               *)
(***************************************************************************)
\* A step that leaves the chain alone is one after which it has only grown.
LEMMA QuietGrows ==
    ASSUME Structure, UNCHANGED <<live, ntx, receipts>>
    PROVE  Grows /\ TxsGrow
  BY DEF Structure, ChainOK, Grows, TxsGrow

\* A handler goes on without writing.
LEMMA RestStep ==
    ASSUME SupplyInvariant, UNCHANGED <<live, ntx, store, receipts, cache, cutOff>>,
           NEW r \in Reqs, NEW h, req' = [req EXCEPT ![r] = h],
           HandlerInv(h), h.pc # "accepted", Moved(req[r]) = 0,
           \A at : HandlerCites(h, at) => MayCite(at)
    PROVE  SupplyInvariant'
<1>1. FilesOK'
  <2>1. Grows
    BY QuietGrows DEF SupplyInvariant
  <2>2. store' = [u \in Users |-> store'[u]] /\ \A u \in Users : FileOK(store'[u])
    BY DEF SupplyInvariant, Structure, FilesOK
  <2> QED
    BY <2>1, <2>2, FilesWritten
<1>2. \A e \in cache' : EntryInv(e) /\ MayCite(e.record.controller)
  BY DEF SupplyInvariant, Structure, MayCite, Cited
<1>3. \A u \in Users : \A rec \in store'[u] : MayCite(rec.controller)
  BY DEF MayCite, Cited
<1> QED
  BY <1>1, <1>2, <1>3, HandlerStep

\* A handler writes records.
LEMMA WriteStep ==
    ASSUME SupplyInvariant, UNCHANGED <<live, ntx, receipts, cache, cutOff>>,
           store' = [u \in Users |-> store'[u]], \A u \in Users : FileOK(store'[u]),
           \A u \in Users : \A rec \in store'[u] : MayCite(rec.controller),
           NEW r \in Reqs, NEW h, req' = [req EXCEPT ![r] = h],
           HandlerInv(h), h.pc # "accepted", Moved(req[r]) = 0,
           \A at : HandlerCites(h, at) => MayCite(at)
    PROVE  SupplyInvariant'
<1>1. FilesOK'
  BY QuietGrows, FilesWritten DEF SupplyInvariant
<1>2. \A e \in cache' : EntryInv(e) /\ MayCite(e.record.controller)
  BY DEF SupplyInvariant, Structure, MayCite, Cited
<1> QED
  BY <1>1, <1>2, HandlerStep

\* A handler that has ended says nothing.
LEMMA Idles ==
    /\ HandlerInv(Idle) /\ Idle.pc # "accepted" /\ Moved(Idle) = 0
    /\ \A at : ~ HandlerCites(Idle, at)
  BY DEF HandlerInv, Idle, Moved, HandlerCites, Stages

\* What is known of a handler whose transaction the chain took.
LEMMA AtStage ==
    ASSUME SupplyInvariant, NEW r \in Reqs, req[r].pc \in Stages
    PROVE  /\ EntryInv(req[r].entry) /\ req[r].tx \in Nat /\ req[r].tx <= ntx
           /\ req[r] = [pc |-> req[r].pc, tx |-> req[r].tx, entry |-> req[r].entry]
           /\ req[r].pc # "checked" => req[r].tx # 0
           /\ req[r].pc \in {"issued", "verified", "recorded"} => req[r].entry.op = "issue"
           /\ req[r].entry.op \in Operations
           /\ req[r].entry.op \notin {"burn", "reclaim"} => Moved(req[r]) = 0
           /\ req[r].entry.wallet \in Wallets /\ User(req[r].entry) \in Users
           /\ Outpoint(<<req[r].tx, 0>>)
<1>1. HandlerInv(req[r])
  BY DEF SupplyInvariant, Structure, HandlersOK
<1>2. /\ EntryInv(req[r].entry) /\ req[r].tx \in Nat /\ req[r].tx <= ntx
      /\ req[r] = [pc |-> req[r].pc, tx |-> req[r].tx, entry |-> req[r].entry]
      /\ req[r].pc # "checked" => req[r].tx # 0
      /\ req[r].pc \in {"issued", "verified", "recorded"} => req[r].entry.op = "issue"
  <2>1. req[r] # Idle /\ req[r].pc # "reclaim_build"
    BY DEF Idle, Stages
  <2> QED
    BY <1>1, <2>1, Zenon DEF HandlerInv
<1>3. req[r].entry.op \in Operations /\ req[r].entry.wallet \in Wallets
  BY <1>2 DEF EntryInv
<1>4. User(req[r].entry) \in Users
  BY <1>3, TokenAssumption DEF User
<1>5. req[r].entry.op \notin {"burn", "reclaim"} => Moved(req[r]) = 0
  BY <1>3 DEF Moved, Operations
<1>6. Outpoint(<<req[r].tx, 0>>)
  BY <1>2 DEF Outpoint
<1> QED
  BY <1>2, <1>3, <1>4, <1>5, <1>6

\* A handler whose transaction the chain refused ends.
LEMMA RefusedStep ==
    ASSUME SupplyInvariant, NEW r \in Reqs, Refused(r)
    PROVE  SupplyInvariant'
<1>1. Moved(req[r]) = 0
  BY DEF Refused, Moved
<1>2. /\ req' = [req EXCEPT ![r] = Idle]
      /\ UNCHANGED <<live, ntx, store, receipts, cache, cutOff>>
  BY DEF Refused, Become
<1> QED
  BY <1>1, <1>2, Idles, RestStep

\* A supply update reads receipts and records.
LEMMA StartReclaimStep ==
    ASSUME SupplyInvariant, NEW r \in Reqs, NEW w \in Wallets, StartReclaim(r, w)
    PROVE  SupplyInvariant'
<1> DEFINE u == OwnerOf[w]
<1>1. u \in Users
  BY TokenAssumption
<1>2. PICK chosen, h : /\ chosen \subseteq PendingReceipts(u, w)
                       /\ h = [pc |-> "reclaim_build", wallet |-> w, receipts |-> chosen,
                               records |-> store[u]]
                       /\ req' = [req EXCEPT ![r] = h]
  <2>1. PICK chosen \in {PendingReceipts(u, w)} \cup {{x} : x \in PendingReceipts(u, w)} :
            req' = [req EXCEPT ![r] = [pc |-> "reclaim_build", wallet |-> w, receipts |-> chosen,
                                       records |-> store[u]]]
    BY Zenon DEF StartReclaim, Become
  <2>2. chosen \subseteq PendingReceipts(u, w)
    OBVIOUS
  <2> QED
    BY <2>1, <2>2, Zenon
<1>3. UNCHANGED <<live, ntx, store, receipts, cache, cutOff>> /\ req[r] = Idle
  BY DEF StartReclaim
<1>4. SnapshotOK(h)
  <2>1. IsFiniteSet(receipts[u]) /\ \A x \in receipts[u] : x.amount \in Nat
    BY <1>1 DEF SupplyInvariant, Structure, ReceiptsOK
  <2>2. chosen \subseteq receipts[u] /\ \A x \in chosen : x.pending
    BY <1>2 DEF PendingReceipts
  <2>3. IsFiniteSet(chosen)
    BY <2>1, <2>2, FS_Subset
  <2>4. FileOK(store[u])
    BY <1>1 DEF SupplyInvariant, Structure, FilesOK
  <2>5. Txs(chosen) \subseteq Txs(receipts[u])
    BY <2>2 DEF Txs
  <2>6. /\ h.pc = "reclaim_build" /\ h.wallet = w /\ h.receipts = chosen /\ h.records = store[u]
        /\ h = [pc |-> h.pc, wallet |-> h.wallet, receipts |-> h.receipts, records |-> h.records]
    BY <1>2
  <2> QED
    BY <2>1, <2>2, <2>3, <2>4, <2>5, <2>6 DEF SnapshotOK
<1>5. HandlerInv(h) /\ h.pc # "accepted"
  BY <1>2, <1>4 DEF HandlerInv
<1>6. ASSUME NEW at, HandlerCites(h, at) PROVE MayCite(at)
  <2>1. \E rec \in store[u] : rec.controller = at
    BY <1>2, <1>6 DEF HandlerCites, Stages
  <2> QED
    BY <1>1, <2>1, Zenon DEF MayCite, Cited
<1>7. Moved(req[r]) = 0
  BY <1>3, Idles
<1> QED
  BY <1>2, <1>3, <1>5, <1>6, <1>7, RestStep

\* The signed transaction is the one that was built.
LEMMA SubmittedStep ==
    ASSUME SupplyInvariant, NEW r \in Reqs, NEW e \in cache, NEW signed,
           req[r] = Idle, Submitted(r, e, signed), signed.spends = e.spends, signed.outs = e.outs
    PROVE  SupplyInvariant'
<1>1. EntryInv(e)
  BY DEF SupplyInvariant, Structure
<1>2. [e EXCEPT !.spends = signed.spends, !.outs = signed.outs] = e
  BY <1>1 DEF EntryInv, Entry
<1>3. PICK h : h = [pc |-> "checked", tx |-> 0, entry |-> e]
  OBVIOUS
<1>4. /\ req' = [req EXCEPT ![r] = h]
      /\ UNCHANGED <<live, ntx, store, receipts, cache, cutOff>>
  BY <1>2, <1>3, Zenon DEF Submitted, Become
<1>5. HandlerInv(h) /\ h.pc # "accepted"
  BY <1>1, <1>3 DEF HandlerInv, Stages, Moving, SupplyInvariant, Structure, ChainOK
<1>6. ASSUME NEW at, HandlerCites(h, at) PROVE MayCite(at)
  <2>1. e.record.controller = at
    BY <1>3, <1>6 DEF HandlerCites
  <2> QED
    BY <2>1, Zenon DEF MayCite, Cited
<1>7. Moved(req[r]) = 0
  BY Idles
<1> QED
  BY <1>4, <1>5, <1>6, <1>7, RestStep

\* A build is taken out of the cache to be submitted.
LEMMA SubmitsStep ==
    ASSUME SupplyInvariant, NEW r \in Reqs, Submits(r)
    PROVE  SupplyInvariant'
<1>1. ASSUME NEW w \in Wallets, StartReclaim(r, w) PROVE SupplyInvariant'
  BY <1>1, StartReclaimStep
<1>2. ASSUME NEW e \in cache,
             \/ SubmitDeploy(r, e) \/ SubmitIssue(r, e) \/ SubmitChange(r, e)
             \/ SubmitTransfer(r, e) \/ SubmitBurn(r, e) \/ SubmitReclaim(r, e)
      PROVE  SupplyInvariant'
  <2>1. EntryInv(e)
    BY DEF SupplyInvariant, Structure
  <2>2. CASE SubmitDeploy(r, e)
    <3>1. PICK signed : DeployAsBuilt(e, signed) /\ Submitted(r, e, signed)
      BY <2>2 DEF SubmitDeploy
    <3>2. req[r] = Idle /\ signed.spends = e.spends /\ signed.outs = e.outs
      BY <2>1, <2>2, <3>1 DEF SubmitDeploy, EntryInv, DeployAsBuilt
    <3> QED
      BY <3>1, <3>2, SubmittedStep
  <2>3. CASE SubmitIssue(r, e)
    <3>1. PICK signed : IssueAsBuilt(e, signed) /\ Submitted(r, e, signed)
      BY <2>3 DEF SubmitIssue
    <3>2. req[r] = Idle /\ signed.spends = e.spends /\ signed.outs = e.outs
      BY <2>1, <2>3, <3>1 DEF SubmitIssue, EntryInv, IssueAsBuilt, Movers
    <3> QED
      BY <3>1, <3>2, SubmittedStep
  <2>4. CASE SubmitChange(r, e)
    <3>1. PICK signed : ChangeAsBuilt(e, signed) /\ Submitted(r, e, signed)
      BY <2>4 DEF SubmitChange
    <3>2. req[r] = Idle /\ signed.spends = e.spends /\ signed.outs = e.outs
      BY <2>1, <2>4, <3>1 DEF SubmitChange, EntryInv, ChangeAsBuilt, Movers
    <3> QED
      BY <3>1, <3>2, SubmittedStep
  <2>5. CASE SubmitTransfer(r, e)
    <3>1. PICK signed : TransferAsBuilt(e, signed) /\ Submitted(r, e, signed)
      BY <2>5 DEF SubmitTransfer
    <3>2. req[r] = Idle /\ signed.spends = e.spends /\ signed.outs = e.outs
      BY <2>5, <3>1 DEF SubmitTransfer, TransferAsBuilt
    <3> QED
      BY <3>1, <3>2, SubmittedStep
  <2>6. CASE SubmitBurn(r, e)
    <3>1. PICK signed : BurnAsBuilt(e, signed) /\ Submitted(r, e, signed)
      BY <2>6 DEF SubmitBurn
    <3>2. req[r] = Idle /\ signed.spends = e.spends /\ signed.outs = e.outs
      BY <2>6, <3>1 DEF SubmitBurn, BurnAsBuilt
    <3> QED
      BY <3>1, <3>2, SubmittedStep
  <2>7. CASE SubmitReclaim(r, e)
    <3>1. PICK signed : ReclaimAsBuilt(e, signed) /\ Submitted(r, e, signed)
      BY <2>7 DEF SubmitReclaim
    <3>2. req[r] = Idle /\ signed.spends = e.spends /\ signed.outs = e.outs
      BY <2>1, <2>7, <3>1 DEF SubmitReclaim, EntryInv, ReclaimAsBuilt, Movers
    <3> QED
      BY <3>1, <3>2, SubmittedStep
  <2> QED
    BY <1>2, <2>2, <2>3, <2>4, <2>5, <2>6, <2>7
<1> QED
  BY <1>1, <1>2 DEF Submits

\* The outputs that a live record names.
LEMMA LiveRecord ==
    ASSUME ChainOK, NEW rec, NEW w, RecordIsLive(rec, w)
    PROVE  /\ rec.wallet = w
           /\ [at |-> rec.controller, role |-> "controller",
               wallet |-> rec.issuer, amount |-> rec.issued] \in live
           /\ Names(rec.controller, "controller", rec.issued)
           /\ rec.holder # NoHolder =>
                 /\ [at |-> rec.holder, role |-> "holder", wallet |-> w, amount |-> rec.amount] \in live
                 /\ Names(rec.holder, "holder", rec.amount)
<1>1. /\ rec.wallet = w
      /\ [at |-> rec.controller, role |-> "controller",
               wallet |-> rec.issuer, amount |-> rec.issued] \in live
      /\ rec.holder # NoHolder =>
            [at |-> rec.holder, role |-> "holder", wallet |-> w, amount |-> rec.amount] \in live
  BY DEF RecordIsLive, ExpectedOutputs
<1>2. \A o, p \in live : o.at = p.at => o = p
  BY DEF ChainOK
<1> QED
  BY <1>1, <1>2 DEF Names

\* What is picked to pay n covers it.
LEMMA SelectionOK ==
    ASSUME NEW S, Amounted(S), NEW n \in Nat, n > 0, NEW T \in Selections(S, n)
    PROVE  T \subseteq S /\ T # {} /\ Total(T) >= n /\ Total(T) \in Nat
<1>1. T \subseteq S /\ Total(T) >= n
  <2>1. CASE {rec \in S : rec.amount >= n} # {}
    <3>1. PICK rec \in S : rec.amount >= n /\ T = {rec}
      BY <2>1 DEF Selections
    <3>2. rec.amount \in Nat
      BY DEF Amounted
    <3> QED
      BY <3>1, <3>2, TotalOne
  <2>2. CASE {rec \in S : rec.amount >= n} = {}
    BY <2>2 DEF Selections
  <2> QED
    BY <2>1, <2>2
<1>2. Total(T) \in Nat
  BY <1>1, TotalSplit
<1>3. T # {}
  <2>1. Total({}) = 0
    BY TotalEmpty
  <2> QED
    BY <1>1, <2>1
<1> QED
  BY <1>1, <1>2, <1>3

\* Live holder outputs of a wallet can be spent together.
LEMMA LiveLotsOK ==
    ASSUME Structure, NEW w \in Wallets, NEW T \in SUBSET LiveLots(w)
    PROVE  LotsOK(T) /\ Amounted(T) /\ \A x \in T : x \in store[OwnerOf[w]] /\ RecordOK(x)
<1>1. OwnerOf[w] \in Users
  BY TokenAssumption
<1>2. FileOK(store[OwnerOf[w]])
  BY <1>1 DEF Structure, FilesOK
<1>3. ASSUME NEW x \in T
      PROVE  /\ x \in store[OwnerOf[w]] /\ RecordOK(x) /\ x.holder # NoHolder
             /\ x.amount \in Nat /\ Outpoint(x.holder) /\ Names(x.holder, "holder", x.amount)
  <2>1. x \in store[OwnerOf[w]] /\ RecordIsLive(x, w) /\ x.holder # NoHolder
    BY DEF LiveLots
  <2>2. RecordOK(x)
    BY <1>2, <2>1 DEF FileOK
  <2>3. Names(x.holder, "holder", x.amount)
    BY <2>1, LiveRecord DEF Structure
  <2> QED
    BY <2>1, <2>2, <2>3 DEF RecordOK
<1>4. IsFiniteSet(T)
  BY <1>2, <1>3, FS_Subset DEF FileOK
<1>5. \A x, y \in T : x.holder = y.holder => x = y
  BY <1>2, <1>3 DEF FileOK
<1> QED
  BY <1>3, <1>4, <1>5 DEF LotsOK, Amounted

\* A build that is sound and cites what is in the files, or is a deploy.
LEMMA CachedStep ==
    ASSUME SupplyInvariant, NEW e, Cached(e), EntryInv(e), MayCite(e.record.controller)
    PROVE  SupplyInvariant'
<1>1. /\ UNCHANGED <<live, ntx, receipts, cutOff, store, req>>
      /\ cache' = cache \cup {e}
  BY DEF Cached
<1>2. \A x \in cache' : EntryInv(x) /\ MayCite(x.record.controller)
  <2>1. \A x \in cache : EntryInv(x) /\ MayCite(x.record.controller)
    BY Zenon DEF SupplyInvariant, Structure, MayCite, Cited
  <2> QED
    BY <1>1, <2>1, Zenon
<1> QED
  BY <1>1, <1>2, CacheStep

\* A build is dropped.
LEMMA ExpireStep ==
    ASSUME SupplyInvariant, NEW e \in cache, Expire(e)
    PROVE  SupplyInvariant'
<1>1. /\ UNCHANGED <<live, ntx, receipts, cutOff, store, req>>
      /\ cache' \subseteq cache
  BY DEF Expire
<1>2. \A x \in cache : EntryInv(x) /\ MayCite(x.record.controller)
  BY Zenon DEF SupplyInvariant, Structure, MayCite, Cited
<1> QED
  BY <1>1, <1>2, CacheStep

\* A record that is stored is sound and may be cited.
LEMMA StoredIsCited ==
    ASSUME Structure, NEW w \in Wallets, NEW rec \in store[OwnerOf[w]]
    PROVE  RecordOK(rec) /\ MayCite(rec.controller) /\ OwnerOf[w] \in Users
<1>1. OwnerOf[w] \in Users
  BY TokenAssumption
<1> QED
  BY <1>1 DEF Structure, FilesOK, FileOK, MayCite, Cited

\* Amounts are naturals.
LEMMA Naturals == \A n \in Amounts : n \in Nat
  BY TokenAssumption DEF Amounts

\* One lemma for each build.
LEMMA BuildDeployStep ==
    ASSUME SupplyInvariant, NEW w \in Wallets, NEW n \in Amounts, BuildDeploy(w, n)
    PROVE  SupplyInvariant'
<1>1. PICK e : e = DeployEntry(w, n)
  OBVIOUS
<1>2. n \in Nat /\ ntx \in Nat
  BY Naturals DEF SupplyInvariant, Structure, ChainOK
<1>3. /\ e.op = "deploy" /\ e.wallet = w /\ e.new = w /\ e.spends = {} /\ e.amount = n
      /\ e.outs = DeployOutputs(w, n) /\ e.receipts = {}
      /\ e.record = [wallet |-> w, issuer |-> w, issued |-> n, controller |-> NoHolder,
                     holder |-> NoHolder, amount |-> n, status |-> "candidate"]
      /\ e = Entry(e.op, e.wallet, e.new, e.spends, e.outs, e.record, e.amount, e.event, e.receipts)
  BY <1>1 DEF DeployEntry, Entry
<1>4. RecordOK(e.record)
  BY <1>2, <1>3 DEF RecordOK, Outpoint, NoHolder
<1>5. EntryInv(e)
  BY <1>2, <1>3, <1>4 DEF EntryInv, Operations, Movers
<1>6. MayCite(e.record.controller)
  BY <1>3 DEF MayCite
<1>7. Cached(e)
  BY <1>1 DEF BuildDeploy
<1> QED
  BY <1>5, <1>6, <1>7, CachedStep

LEMMA BuildIssueStep ==
    ASSUME SupplyInvariant, NEW w \in Wallets, NEW new \in Wallets, NEW n \in Amounts, NEW event,
           BuildIssue(w, new, n, event)
    PROVE  SupplyInvariant'
<1>1. PICK rec \in IssueSources(w) : Cached(IssueEntry(w, new, rec, n, event))
  BY DEF BuildIssue
<1>2. PICK e : e = IssueEntry(w, new, rec, n, event)
  OBVIOUS
<1>3. rec \in store[OwnerOf[w]] /\ RecordIsLive(rec, w)
  BY DEF IssueSources, ControllerRecords
<1>4. RecordOK(rec) /\ MayCite(rec.controller)
  BY <1>3, StoredIsCited DEF SupplyInvariant
<1>5. Names(rec.controller, "controller", rec.issued)
  BY <1>3, LiveRecord DEF SupplyInvariant, Structure
<1>6. /\ e.op = "issue" /\ e.wallet = w /\ e.new = new /\ e.spends = {rec.controller} /\ e.amount = n
      /\ e.outs = IssueOutputs(w, new, rec, n) /\ e.record = rec
      /\ e = Entry(e.op, e.wallet, e.new, e.spends, e.outs, e.record, e.amount, e.event, e.receipts)
  BY <1>2 DEF IssueEntry, Entry
<1>7. EntryInv(e)
  BY <1>4, <1>5, <1>6, Naturals DEF EntryInv, Operations, Movers
<1> QED
  BY <1>1, <1>2, <1>4, <1>6, <1>7, CachedStep

LEMMA BuildChangeStep ==
    ASSUME SupplyInvariant, NEW w \in Wallets, NEW new \in Wallets, BuildChange(w, new)
    PROVE  SupplyInvariant'
<1>1. PICK rec \in ChangeSources(w) : Cached(ChangeEntry(w, new, rec))
  BY DEF BuildChange
<1>2. PICK e : e = ChangeEntry(w, new, rec)
  OBVIOUS
<1>3. rec \in store[OwnerOf[w]] /\ RecordIsLive(rec, w)
  BY DEF ChangeSources, ControllerRecords
<1>4. RecordOK(rec) /\ MayCite(rec.controller)
  BY <1>3, StoredIsCited DEF SupplyInvariant
<1>5. Names(rec.controller, "controller", rec.issued)
  BY <1>3, LiveRecord DEF SupplyInvariant, Structure
<1>6. /\ e.op = "change_owner" /\ e.wallet = w /\ e.new = new /\ e.spends = {rec.controller}
      /\ e.amount = 0 /\ e.outs = ChangeOutputs(new, rec) /\ e.record = rec
      /\ e = Entry(e.op, e.wallet, e.new, e.spends, e.outs, e.record, e.amount, e.event, e.receipts)
  BY <1>2 DEF ChangeEntry, Entry
<1>7. EntryInv(e)
  BY <1>4, <1>5, <1>6 DEF EntryInv, Operations, Movers
<1> QED
  BY <1>1, <1>2, <1>4, <1>6, <1>7, CachedStep

LEMMA BuildTransferStep ==
    ASSUME SupplyInvariant, NEW w \in Wallets, NEW new \in Wallets, NEW n \in Amounts,
           BuildTransfer(w, new, n)
    PROVE  SupplyInvariant'
<1>1. n > 0 /\ n \in Nat
  BY Naturals DEF BuildTransfer
<1>2. PICK S \in Selections(LiveLots(w), n) : \E rec \in S : Cached(TransferEntry(w, new, S, rec, n))
  BY DEF BuildTransfer, TransferSources
<1>3. PICK rec \in S : Cached(TransferEntry(w, new, S, rec, n))
  BY <1>2
<1>4. PICK e : e = TransferEntry(w, new, S, rec, n)
  OBVIOUS
<1>5. Amounted(LiveLots(w))
  BY LiveLotsOK, LiveLots(w) \in SUBSET LiveLots(w) DEF SupplyInvariant
<1>6. S \subseteq LiveLots(w) /\ S # {} /\ Total(S) >= n /\ Total(S) \in Nat
  BY <1>1, <1>5, SelectionOK
<1>7. LotsOK(S) /\ rec \in store[OwnerOf[w]]
  BY <1>6, LiveLotsOK DEF SupplyInvariant
<1>8. RecordOK(rec) /\ MayCite(rec.controller)
  BY <1>7, StoredIsCited DEF SupplyInvariant
<1>9. /\ e.op = "transfer" /\ e.wallet = w /\ e.new = new /\ e.spends = {x.holder : x \in S}
      /\ e.amount = n /\ e.outs = TransferOutputs(w, new, Total(S), n) /\ e.record = rec
      /\ e = Entry(e.op, e.wallet, e.new, e.spends, e.outs, e.record, e.amount, e.event, e.receipts)
  BY <1>4, Zenon DEF TransferEntry, Entry
<1>10. Total(S) - n \in Nat
  BY <1>1, <1>6
<1>11. EntryInv(e)
  <2>1. \E T : /\ LotsOK(T) /\ T # {} /\ e.spends = {x.holder : x \in T}
               /\ Total(T) - e.amount \in Nat
               /\ e.outs = TransferOutputs(e.wallet, e.new, Total(T), e.amount)
    BY <1>6, <1>7, <1>9, <1>10, Zenon
  <2>2. e.op # "issue" /\ e.op # "deploy" /\ e.op # "change_owner" /\ e.op # "reclaim" /\ e.op # "burn"
        /\ e.op \in Operations /\ e.op \notin Movers
    BY <1>9 DEF Operations, Movers
  <2> QED
    BY <1>1, <1>8, <1>9, <2>1, <2>2, Zenon DEF EntryInv
<1> QED
  BY <1>3, <1>4, <1>8, <1>9, <1>11, CachedStep

LEMMA BuildBurnStep ==
    ASSUME SupplyInvariant, NEW w \in Wallets, NEW n \in Amounts, BuildBurn(w, n)
    PROVE  SupplyInvariant'
<1>1. n > 0 /\ n \in Nat
  BY Naturals DEF BuildBurn
<1>2. PICK S \in Selections(LiveLots(w), n) : \E rec \in S : Cached(BurnEntry(w, S, rec, n))
  BY DEF BuildBurn, BurnSources
<1>3. PICK rec \in S : Cached(BurnEntry(w, S, rec, n))
  BY <1>2
<1>4. PICK e : e = BurnEntry(w, S, rec, n)
  OBVIOUS
<1>5. Amounted(LiveLots(w))
  BY LiveLotsOK, LiveLots(w) \in SUBSET LiveLots(w) DEF SupplyInvariant
<1>6. S \subseteq LiveLots(w) /\ S # {} /\ Total(S) >= n /\ Total(S) \in Nat
  BY <1>1, <1>5, SelectionOK
<1>7. LotsOK(S) /\ rec \in store[OwnerOf[w]]
  BY <1>6, LiveLotsOK DEF SupplyInvariant
<1>8. RecordOK(rec) /\ MayCite(rec.controller)
  BY <1>7, StoredIsCited DEF SupplyInvariant
<1>9. /\ e.op = "burn" /\ e.wallet = w /\ e.new = w /\ e.spends = {x.holder : x \in S}
      /\ e.amount = n /\ e.outs = BurnOutputs(w, Total(S), n) /\ e.record = rec
      /\ e = Entry(e.op, e.wallet, e.new, e.spends, e.outs, e.record, e.amount, e.event, e.receipts)
  BY <1>4, Zenon DEF BurnEntry, Entry
<1>10. Total(S) - n \in Nat
  BY <1>1, <1>6
<1>11. EntryInv(e)
  <2>1. \E T : /\ LotsOK(T) /\ T # {} /\ e.spends = {x.holder : x \in T}
               /\ Total(T) - e.amount \in Nat
               /\ e.outs = BurnOutputs(e.wallet, Total(T), e.amount)
    BY <1>6, <1>7, <1>9, <1>10, Zenon
  <2>2. e.op # "issue" /\ e.op # "deploy" /\ e.op # "change_owner" /\ e.op # "reclaim"
        /\ e.op # "transfer" /\ e.op \in Operations /\ e.op \notin Movers
    BY <1>9 DEF Operations, Movers
  <2> QED
    BY <1>1, <1>8, <1>9, <2>1, <2>2, Zenon DEF EntryInv
<1> QED
  BY <1>3, <1>4, <1>8, <1>9, <1>11, CachedStep

\* All of them.
LEMMA BuildsStep ==
    ASSUME SupplyInvariant, Builds
    PROVE  SupplyInvariant'
  BY BuildDeployStep, BuildBurnStep, BuildChangeStep, BuildTransferStep, BuildIssueStep, Zenon
     DEF Builds

-----------------------------------------------------------------------------
(***************************************************************************)
(* Writing records.                                                        *)
(***************************************************************************)
\* The files are as they were.
LEMMA StoreSame ==
    ASSUME SupplyInvariant, UNCHANGED <<live, ntx, receipts, store>>
    PROVE  FilesOK' /\ \A u \in Users : \A rec \in store'[u] : MayCite(rec.controller)
<1>1. FilesOK'
  <2>1. Grows
    BY QuietGrows DEF SupplyInvariant
  <2>2. store' = [u \in Users |-> store'[u]] /\ \A u \in Users : FileOK(store'[u])
    BY DEF SupplyInvariant, Structure, FilesOK
  <2> QED
    BY <2>1, <2>2, FilesWritten
<1> QED
  BY <1>1 DEF MayCite, Cited

\* The snapshot says what is owed as long as the controller that it saw lives.
LEMMA BuildReclaimStep ==
    ASSUME SupplyInvariant, NEW r \in Reqs, BuildReclaim(r)
    PROVE  SupplyInvariant'
<1>1. PICK h : h = req[r]
  OBVIOUS
<1>2. h.pc = "reclaim_build" /\ SnapshotOK(h)
  <2>1. h.pc = "reclaim_build"
    BY <1>1 DEF BuildReclaim
  <2>2. HandlerInv(h)
    BY <1>1 DEF SupplyInvariant, Structure, HandlersOK
  <2>3. h # Idle /\ h.pc \notin Stages
    BY <2>1 DEF Idle, Stages
  <2> QED
    BY <2>1, <2>2, <2>3, Zenon DEF HandlerInv
<1> DEFINE w == h.wallet
           u == OwnerOf[w]
           n == Total(h.receipts)
<1>3. /\ UNCHANGED <<live, ntx, receipts, cutOff, store>> /\ req' = [req EXCEPT ![r] = Idle]
      /\ \E rec \in ReclaimSources(h.records, w, n) :
             cache' = cache \cup {ReclaimEntry(w, rec, n, {x.tx : x \in h.receipts})}
  BY <1>1, Zenon DEF BuildReclaim, Become
<1>4. PICK rec \in ReclaimSources(h.records, w, n) :
             cache' = cache \cup {ReclaimEntry(w, rec, n, {x.tx : x \in h.receipts})}
  BY <1>3
<1>5. PICK e : e = ReclaimEntry(w, rec, n, {x.tx : x \in h.receipts})
  OBVIOUS
<1>6. rec \in h.records /\ RecordIsLive(rec, w) /\ n <= rec.issued
  BY DEF ReclaimSources, ControllerRecords
<1>7. RecordOK(rec) /\ w \in Wallets /\ u \in Users
  BY <1>2, <1>6, TokenAssumption DEF SnapshotOK, FileOK
<1>8. Names(rec.controller, "controller", rec.issued)
  BY <1>6, LiveRecord DEF SupplyInvariant, Structure
<1>9. MayCite(rec.controller)
  BY <1>1, <1>2, <1>6, Zenon DEF MayCite, Cited, HandlerCites
<1>10. Amounted(h.receipts) /\ n \in Nat
  <2>1. Amounted(h.receipts)
    BY <1>2 DEF SnapshotOK, Amounted
  <2> QED
    BY <2>1, TotalSplit, {} \in SUBSET h.receipts
<1>11. /\ e.op = "reclaim" /\ e.wallet = w /\ e.new = w /\ e.spends = {rec.controller} /\ e.amount = n
       /\ e.outs = ReclaimOutputs(w, rec, n) /\ e.record = rec /\ e.receipts = Txs(h.receipts)
       /\ e = Entry(e.op, e.wallet, e.new, e.spends, e.outs, e.record, e.amount, e.event, e.receipts)
  <2> HIDE DEF n
  <2> QED
    BY <1>5 DEF ReclaimEntry, Entry, Txs
<1>12. Txs(h.receipts) \subseteq Txs(receipts[u])
  BY <1>2 DEF SnapshotOK
<1>13. ControllerLives(rec.controller) => Due(e)
  <2> SUFFICES ASSUME ControllerLives(rec.controller) PROVE Due(e)
    OBVIOUS
  <2>1. h.receipts \subseteq receipts[u] /\ \A x \in h.receipts : x.pending
    BY <1>2, <1>6 DEF SnapshotOK
  <2>2. \A x, y \in receipts[u] : x.tx = y.tx => x = y
    BY <1>7 DEF SupplyInvariant, Structure, ReceiptsOK
  <2>3. {x \in receipts[u] : x.tx \in Txs(h.receipts)} = h.receipts
    BY <2>1, <2>2 DEF Txs
  <2>4. User(e) = u
    BY <1>11 DEF User
  <2> QED
    BY <1>11, <2>1, <2>3, <2>4, Zenon DEF Due
<1>14. EntryInv(e)
  <2>1. e.op \in Operations /\ e.op \in Movers \ {"deploy"}
    BY <1>11 DEF Operations, Movers
  <2>2. e.op # "issue" /\ e.op # "deploy" /\ e.op # "change_owner" /\ e.op # "transfer" /\ e.op # "burn"
    BY <1>11
  <2>3. e.receipts \subseteq Txs(receipts[User(e)])
    BY <1>11, <1>12 DEF User
  <2> HIDE DEF n, w
  <2> QED
    BY <1>6, <1>7, <1>8, <1>10, <1>11, <1>13, <2>1, <2>2, <2>3, Zenon DEF EntryInv
<1>15. \A x \in cache' : EntryInv(x) /\ MayCite(x.record.controller)
  <2>1. cache' = cache \cup {e}
    BY <1>4, <1>5, Zenon
  <2>2. \A x \in cache : EntryInv(x) /\ MayCite(x.record.controller)
    BY Zenon DEF SupplyInvariant, Structure, MayCite, Cited
  <2> QED
    BY <1>9, <1>11, <1>14, <2>1, <2>2, Zenon
<1>16. Moved(req[r]) = 0
  BY <1>1, <1>2 DEF Moved
<1> QED
  BY <1>3, <1>15, <1>16, Idles, StoreSame, HandlerStep

\* A handler may cite its record, and what it made.
LEMMA MayCiteOwn ==
    ASSUME SupplyInvariant, NEW r \in Reqs, req[r].pc \in Stages
    PROVE  /\ MayCite(req[r].entry.record.controller)
           /\ req[r].pc \in {"issued", "verified"} => MayCite(<<req[r].tx, 0>>)
           /\ Moving(req[r]) /\ req'[r].pc # "accepted" => MayCite(<<req[r].tx, 0>>)
  BY Zenon DEF MayCite, Cited, HandlerCites

\* The node answers that the outputs of an issue are there, or does not.
LEMMA VerifyIssueStep ==
    ASSUME SupplyInvariant, NEW r \in Reqs, VerifyIssue(r)
    PROVE  SupplyInvariant'
<1>1. req[r].pc = "issued" /\ req[r].pc \in Stages
  BY DEF VerifyIssue, Stages
<1>2. PICK pc \in {"verified", "recorded"} : req' = [req EXCEPT ![r].pc = pc]
  BY DEF VerifyIssue
<1>3. PICK h : h = [req[r] EXCEPT !.pc = pc]
  OBVIOUS
<1>4. req' = [req EXCEPT ![r] = h] /\ UNCHANGED <<live, ntx, store, receipts, cache, cutOff>>
  BY <1>2, <1>3 DEF VerifyIssue
<1>5. h = [pc |-> pc, tx |-> req[r].tx, entry |-> req[r].entry]
  <2>1. req[r] = [pc |-> req[r].pc, tx |-> req[r].tx, entry |-> req[r].entry]
    BY <1>1, AtStage
  <2> QED
    BY <1>3, <2>1
<1>6. HandlerInv(h) /\ h.pc # "accepted"
  <2>1. /\ h.pc = pc /\ h.tx = req[r].tx /\ h.entry = req[r].entry
        /\ h = [pc |-> h.pc, tx |-> h.tx, entry |-> h.entry]
    BY <1>5
  <2> QED
    BY <1>1, <2>1, AtStage DEF HandlerInv, Stages, Moving
<1>7. ASSUME NEW at, HandlerCites(h, at) PROVE MayCite(at)
  <2>1. at = req[r].entry.record.controller \/ at = <<req[r].tx, 0>>
    BY <1>5, <1>7 DEF HandlerCites
  <2> QED
    BY <1>1, <2>1, MayCiteOwn
<1>8. Moved(req[r]) = 0
  BY <1>1, AtStage
<1> QED
  BY <1>4, <1>6, <1>7, <1>8, RestStep

\* The authorization is recorded as consumed: no outputs, no records.
LEMMA ConsumeEventStep ==
    ASSUME SupplyInvariant, NEW r \in Reqs, ConsumeEvent(r)
    PROVE  SupplyInvariant'
<1>1. /\ req' = [req EXCEPT ![r] = Idle] /\ UNCHANGED <<live, ntx, store, receipts, cache, cutOff>>
      /\ req[r].pc = "recorded"
  BY DEF ConsumeEvent, Become
<1>2. Moved(req[r]) = 0
  BY <1>1 DEF Moved
<1> QED
  BY <1>1, <1>2, Idles, RestStep

\* A deploy writes the first record of the token.
LEMMA RecordDeployStep ==
    ASSUME SupplyInvariant, NEW r \in Reqs, RecordDeploy(r)
    PROVE  SupplyInvariant'
<1>1. /\ req[r].pc = "accepted" /\ req[r].pc \in Stages /\ req[r].entry.op = "deploy"
      /\ req' = [req EXCEPT ![r] = Idle] /\ UNCHANGED <<live, ntx, receipts, cache, cutOff>>
  BY DEF RecordDeploy, Become, Stages
<1> DEFINE e == req[r].entry
           u == User(e)
           tx == req[r].tx
           found == {rec \in DeployCandidates(e, tx) : RecordIsLive(rec, e.wallet)}
<1>2. u \in Users /\ EntryInv(e) /\ tx \in Nat /\ tx <= ntx /\ tx # 0 /\ Outpoint(<<tx, 0>>)
  BY <1>1, AtStage
<1>3. store' = [store EXCEPT ![u] = IF found = {} THEN @
                                    ELSE Upserted(@, CHOOSE rec \in found : TRUE)]
  BY Zenon DEF RecordDeploy
<1>4. store = [v \in Users |-> store[v]] /\ \A v \in Users : FileOK(store[v])
  BY DEF SupplyInvariant, Structure, FilesOK
<1>5. \/ store' = store
      \/ \E rec \in found : store' = [store EXCEPT ![u] = {rec}]
  <2> HIDE DEF found
  <2>1. CASE found = {}
    BY <1>2, <1>3, <1>4, <2>1
  <2>2. CASE found # {}
    <3>1. (CHOOSE rec \in found : TRUE) \in found
      BY <2>2, Zenon
    <3>2. store' = [store EXCEPT ![u] = {CHOOSE rec \in found : TRUE}]
      BY <1>3, <2>2 DEF Upserted
    <3> QED
      BY <3>1, <3>2, Zenon
  <2> QED
    BY <2>1, <2>2
<1>6. ASSUME NEW rec \in found PROVE FileOK({rec}) /\ rec.controller = <<tx, 0>>
  <2>1. RecordOK(e.record) /\ e.record.amount = e.amount /\ e.amount \in Nat
    BY <1>1, <1>2 DEF EntryInv
  <2>2. rec = [e.record EXCEPT !.controller = <<tx, 0>>, !.status = "live_verified",
                           !.holder = IF e.amount = 0 THEN NoHolder ELSE <<tx, 1>>]
    BY DEF DeployCandidates
  <2>3. /\ rec = [wallet |-> rec.wallet, issuer |-> rec.issuer, issued |-> rec.issued,
                  controller |-> rec.controller, holder |-> rec.holder, amount |-> rec.amount,
                  status |-> rec.status]
        /\ rec.issued = e.record.issued /\ rec.amount = e.amount /\ rec.controller = <<tx, 0>>
        /\ rec.holder = IF e.amount = 0 THEN NoHolder ELSE <<tx, 1>>
    BY <2>1, <2>2 DEF RecordOK
  <2>4. Outpoint(rec.holder) /\ (rec.holder = NoHolder => rec.amount = 0)
    BY <1>2, <2>1, <2>3 DEF Outpoint, NoHolder, SupplyInvariant, Structure, ChainOK
  <2>5. RecordOK(rec)
    BY <1>2, <2>1, <2>3, <2>4 DEF RecordOK
  <2> QED
    BY <2>3, <2>4, <2>5, FileOne
<1>7. MayCite(<<tx, 0>>)
  <2>1. Moving(req[r]) /\ req'[r].pc # "accepted"
    <3>1. req'[r] = Idle
      BY <1>1 DEF SupplyInvariant, Structure, HandlersOK
    <3> QED
      BY <1>1, <3>1, Idles DEF Moving, Movers
  <2> QED
    BY <1>1, <2>1, MayCiteOwn
<1>8. /\ store' = [v \in Users |-> store'[v]]
      /\ \A v \in Users : store'[v] = store[v] \/ \E rec \in found : store'[v] = {rec}
  <2> HIDE DEF found
  <2> QED
    BY <1>2, <1>4, <1>5
<1>9. \A v \in Users : FileOK(store'[v])
  <2> HIDE DEF found
  <2> QED
    BY <1>4, <1>6, <1>8
<1>10. \A v \in Users : \A rec \in store'[v] : MayCite(rec.controller)
  <2>1. \A v \in Users : \A rec \in store[v] : MayCite(rec.controller)
    BY Zenon DEF MayCite, Cited
  <2> HIDE DEF found
  <2> QED
    BY <1>6, <1>7, <1>8, <2>1
<1>11. Moved(req[r]) = 0
  BY <1>1, AtStage
<1> QED
  BY <1>1, <1>8, <1>9, <1>10, <1>11, Idles, WriteStep

\* The records that an issue leaves behind.
LEMMA AfterIssueOK ==
    ASSUME NEW F, FileOK(F), NEW old, NEW at, Outpoint(at), NEW supply \in Nat, NEW new,
           RecordOK(new), new.holder # NoHolder, new.controller = at
    PROVE  /\ FileOK(ReplacedAfterIssue(F, old, at, supply, new))
           /\ \A rec \in ReplacedAfterIssue(F, old, at, supply, new) : rec.controller = at
<1> DEFINE kept == {rec \in F : /\ rec.holder # new.holder
                                /\ ~ (rec.holder = NoHolder /\ rec.controller = old)}
<1>1. FileOK(kept) /\ \A rec \in kept : rec.holder # new.holder
  BY FilePart, kept \in SUBSET F
<1>2. FileOK({new})
  BY FileOne
<1>3. ReplacedAfterIssue(F, old, at, supply, new) = WithController(kept, at, supply) \cup {new}
  BY DEF ReplacedAfterIssue
<1> HIDE DEF kept
<1>4. /\ FileOK(WithController(kept, at, supply))
      /\ \A rec \in WithController(kept, at, supply) :
            rec.controller = at /\ \E x \in kept : rec.holder = x.holder
  BY <1>1, Controlled
<1>5. \A x \in WithController(kept, at, supply), y \in {new} : x.holder # y.holder
  BY <1>1, <1>4
<1> QED
  BY <1>2, <1>3, <1>4, <1>5, FileUnion

\* Either write of an issue.
LEMMA WriteIssueStep ==
    ASSUME SupplyInvariant, NEW r \in Reqs, req[r].pc \in {"accepted", "verified"},
           req[r].entry.op = "issue", NEW status,
           WriteIssue(req[r].entry, req[r].tx,
                      [IssuedRecord(req[r].entry, req[r].tx) EXCEPT !.status = status]),
           NEW pc \in {"issued", "recorded"}, req' = [req EXCEPT ![r].pc = pc],
           UNCHANGED <<live, ntx, receipts, cache, cutOff>>
    PROVE  SupplyInvariant'
<1> DEFINE e == req[r].entry
           u == User(e)
           tx == req[r].tx
           new == [IssuedRecord(e, tx) EXCEPT !.status = status]
<1>1. /\ req[r].pc \in Stages /\ u \in Users /\ EntryInv(e) /\ tx \in Nat /\ tx <= ntx /\ tx # 0
      /\ Outpoint(<<tx, 0>>) /\ Moved(req[r]) = 0
      /\ req[r] = [pc |-> req[r].pc, tx |-> tx, entry |-> e]
  <2>1. req[r].pc \in Stages
    BY DEF Stages
  <2> QED
    BY <2>1, AtStage
<1>2. store = [v \in Users |-> store[v]] /\ \A v \in Users : FileOK(store[v])
  BY DEF SupplyInvariant, Structure, FilesOK
<1>3. RecordOK(e.record) /\ e.amount \in Nat /\ e.record.issued + e.amount \in Nat
  BY <1>1 DEF EntryInv, RecordOK
<1>4. RecordOK(new) /\ new.holder # NoHolder /\ new.controller = <<tx, 0>>
  <2>1. new = [wallet |-> e.new, issuer |-> e.wallet, issued |-> e.record.issued + e.amount,
               controller |-> <<tx, 0>>, holder |-> <<tx, 1>>, amount |-> e.amount,
               status |-> status]
    BY DEF IssuedRecord
  <2>2. Outpoint(<<tx, 1>>) /\ <<tx, 1>> # NoHolder
    BY <1>1 DEF Outpoint, NoHolder
  <2> QED
    BY <1>1, <1>3, <2>1, <2>2 DEF RecordOK
<1>5. store' = [store EXCEPT ![u] =
          ReplacedAfterIssue(store[u], e.record.controller, <<tx, 0>>, e.record.issued + e.amount, new)]
  BY <1>1, <1>2, Zenon DEF WriteIssue
<1>6. PICK file : file = ReplacedAfterIssue(store[u], e.record.controller, <<tx, 0>>,
                                            e.record.issued + e.amount, new)
  OBVIOUS
<1>7. FileOK(file) /\ \A rec \in file : rec.controller = <<tx, 0>>
  <2>1. FileOK(store[u]) /\ Outpoint(<<tx, 0>>) /\ e.record.issued + e.amount \in Nat
    BY <1>1, <1>2, <1>3
  <2> HIDE DEF e, u, tx, new
  <2>2. PICK F, at, supply : F = store[u] /\ at = <<tx, 0>> /\ supply = e.record.issued + e.amount
    OBVIOUS
  <2>3. /\ FileOK(ReplacedAfterIssue(F, e.record.controller, at, supply, new))
        /\ \A rec \in ReplacedAfterIssue(F, e.record.controller, at, supply, new) :
              rec.controller = at
    BY <1>4, <2>1, <2>2, AfterIssueOK
  <2> QED
    BY <1>6, <2>2, <2>3
<1>8. PICK h : h = [pc |-> pc, tx |-> tx, entry |-> e]
  OBVIOUS
<1>9. req' = [req EXCEPT ![r] = h]
  <2>1. [req[r] EXCEPT !.pc = pc] = h
    BY <1>1, <1>8
  <2> QED
    BY <2>1
<1>10. HandlerInv(h) /\ h.pc # "accepted"
  <2>1. /\ h.pc = pc /\ h.tx = tx /\ h.entry = e
        /\ h = [pc |-> h.pc, tx |-> h.tx, entry |-> h.entry]
    BY <1>8
  <2> QED
    BY <1>1, <2>1 DEF HandlerInv, Stages, Moving
<1>11. MayCite(<<tx, 0>>) /\ MayCite(e.record.controller)
  <2>1. req'[r].pc # "accepted"
    BY <1>9, <1>10 DEF SupplyInvariant, Structure, HandlersOK
  <2>2. req[r].pc = "accepted" => Moving(req[r])
    BY DEF Moving, Movers
  <2> QED
    BY <1>1, <2>1, <2>2, MayCiteOwn
<1>12. ASSUME NEW at, HandlerCites(h, at) PROVE MayCite(at)
  <2>1. at = e.record.controller \/ at = <<tx, 0>>
    BY <1>8, <1>12 DEF HandlerCites
  <2> QED
    BY <1>11, <2>1
<1>13. /\ store' = [v \in Users |-> store'[v]]
       /\ \A v \in Users : store'[v] = IF v = u THEN file ELSE store[v]
  <2> HIDE DEF u
  <2> QED
    BY <1>1, <1>2, <1>5, <1>6
<1>14. \A v \in Users : FileOK(store'[v])
  BY <1>2, <1>7, <1>13
<1>15. \A v \in Users : \A rec \in store'[v] : MayCite(rec.controller)
  <2>1. \A v \in Users : \A rec \in store[v] : MayCite(rec.controller)
    BY Zenon DEF MayCite, Cited
  <2> QED
    BY <1>7, <1>11, <1>13, <2>1
<1> HIDE DEF e, u, tx, new
<1> QED
  BY <1>1, <1>9, <1>10, <1>12, <1>13, <1>14, <1>15, WriteStep

\* The first write of an issue,
LEMMA RecordIssueStep ==
    ASSUME SupplyInvariant, NEW r \in Reqs, RecordIssue(r)
    PROVE  SupplyInvariant'
<1>1. IssuedRecord(req[r].entry, req[r].tx)
        = [IssuedRecord(req[r].entry, req[r].tx) EXCEPT !.status = "candidate"]
  BY DEF IssuedRecord
<1>2. WriteIssue(req[r].entry, req[r].tx,
                 [IssuedRecord(req[r].entry, req[r].tx) EXCEPT !.status = "candidate"])
  BY <1>1 DEF RecordIssue
<1>3. /\ req[r].pc \in {"accepted", "verified"} /\ req[r].entry.op = "issue"
      /\ req' = [req EXCEPT ![r].pc = "issued"] /\ UNCHANGED <<live, ntx, receipts, cache, cutOff>>
  BY DEF RecordIssue
<1> QED
  BY <1>2, <1>3, "issued" \in {"issued", "recorded"}, WriteIssueStep

\* and its second, after the node has answered.
LEMMA RecordVerifiedIssueStep ==
    ASSUME SupplyInvariant, NEW r \in Reqs, RecordVerifiedIssue(r)
    PROVE  SupplyInvariant'
<1>1. WriteIssue(req[r].entry, req[r].tx,
                 [IssuedRecord(req[r].entry, req[r].tx) EXCEPT !.status = "live_verified"])
  BY DEF RecordVerifiedIssue
<1>2. /\ req[r].pc \in {"accepted", "verified"} /\ req[r].pc = "verified"
      /\ req' = [req EXCEPT ![r].pc = "recorded"] /\ UNCHANGED <<live, ntx, receipts, cache, cutOff>>
  BY DEF RecordVerifiedIssue
<1>3. req[r].entry.op = "issue"
  BY <1>2, AtStage DEF Stages
<1> QED
  BY <1>1, <1>2, <1>3, "recorded" \in {"issued", "recorded"}, WriteIssueStep

\* A change of owner writes into the files of both owners.
LEMMA RecordChangeStep ==
    ASSUME SupplyInvariant, NEW r \in Reqs, RecordChange(r)
    PROVE  SupplyInvariant'
<1>1. /\ req[r].pc = "accepted" /\ req[r].pc \in Stages /\ req[r].entry.op = "change_owner"
      /\ req' = [req EXCEPT ![r] = Idle] /\ UNCHANGED <<live, ntx, receipts, cache, cutOff>>
  BY DEF RecordChange, Become, Stages
<1> DEFINE e == req[r].entry
           tx == req[r].tx
           at == <<tx, 0>>
           new == RecognitionRecord(e, tx)
           supply == e.record.issued
           own(v) == v = OwnerOf[e.new]
           kept(v) == {rec \in store[v] : ~ (own(v) /\ rec.holder = new.holder)}
           moved(v) == {[rec EXCEPT !.issuer = e.new] : rec \in WithController(kept(v), at, supply)}
           file(v) == moved(v) \cup (IF own(v) THEN {new} ELSE {})
<1>2. EntryInv(e) /\ tx \in Nat /\ tx <= ntx /\ tx # 0 /\ Outpoint(at) /\ Moved(req[r]) = 0
  BY <1>1, AtStage
<1>3. \A v \in Users : FileOK(store[v])
  BY DEF SupplyInvariant, Structure, FilesOK
<1>4. store' = [v \in Users |-> file(v)]
  BY Zenon DEF RecordChange, ReplacedAfterChange
<1>5. RecordOK(e.record) /\ supply \in Nat
  BY <1>2 DEF EntryInv, RecordOK
<1>6. RecordOK(new) /\ new.holder # NoHolder /\ new.controller = at
  <2>1. new = [wallet |-> e.new, issuer |-> e.new, issued |-> e.record.issued,
               controller |-> at, holder |-> <<tx, 1>>, amount |-> 0, status |-> "candidate"]
    BY DEF RecognitionRecord
  <2>2. Outpoint(<<tx, 1>>) /\ <<tx, 1>> # NoHolder
    BY <1>2 DEF Outpoint, NoHolder
  <2> QED
    BY <1>2, <1>5, <2>1, <2>2 DEF RecordOK
<1>7. ASSUME NEW v \in Users PROVE FileOK(file(v)) /\ \A rec \in file(v) : rec.controller = at
  <2>1. PICK K : K = kept(v)
    OBVIOUS
  <2>2. FileOK(K) /\ (own(v) => \A rec \in K : rec.holder # new.holder)
    <3> HIDE DEF new, own
    <3> QED
      BY <1>3, <2>1, FilePart, kept(v) \in SUBSET store[v]
  <2>3. PICK F : F = WithController(K, at, supply)
    OBVIOUS
  <2>4. FileOK(F) /\ \A rec \in F : rec.controller = at /\ \E old \in K : rec.holder = old.holder
    <3> HIDE DEF at, supply
    <3> QED
      BY <1>2, <1>5, <2>2, <2>3, Controlled
  <2>5. PICK f : f = [rec \in F |-> [rec EXCEPT !.issuer = e.new]]
    OBVIOUS
  <2>6. ASSUME NEW rec \in F
        PROVE  RecordOK(f[rec]) /\ f[rec].holder = rec.holder /\ f[rec].amount = rec.amount
               /\ f[rec].controller = at
    <3>1. RecordOK(rec) /\ rec.controller = at
      BY <2>4 DEF FileOK
    <3>2. f[rec] = [wallet |-> rec.wallet, issuer |-> e.new, issued |-> rec.issued,
                    controller |-> rec.controller, holder |-> rec.holder, amount |-> rec.amount,
                    status |-> rec.status]
      BY <2>5, <3>1 DEF RecordOK
    <3> QED
      BY <3>1, <3>2 DEF RecordOK
  <2>7. PICK M : M = moved(v)
    OBVIOUS
  <2>8. \A g \in M : \E rec \in F : g = f[rec]
    BY <2>1, <2>3, <2>5, <2>7
  <2>9. FileOK(M)
    BY <2>4, <2>6, <2>8, FileMapped
  <2>10. (\A rec \in M : rec.controller = at) /\ (own(v) => \A rec \in M : rec.holder # new.holder)
    <3> HIDE DEF own, new
    <3> QED
      BY <2>2, <2>4, <2>6, <2>8
  <2>11. FileOK({new})
    BY <1>6, FileOne
  <2>12. CASE own(v)
    <3>1. file(v) = M \cup {new}
      BY <2>7, <2>12
    <3> HIDE DEF own, new
    <3>2. \A x \in M, y \in {new} : x.holder # y.holder
      BY <2>10, <2>12
    <3> HIDE DEF file
    <3> QED
      BY <1>6, <2>9, <2>10, <2>11, <3>1, <3>2, FileUnion
  <2>13. CASE ~ own(v)
    <3>1. file(v) = M
      BY <2>7, <2>13
    <3> HIDE DEF file
    <3> QED
      BY <2>9, <2>10, <3>1
  <2> QED
    BY <2>12, <2>13
<1>8. MayCite(at)
  <2>1. Moving(req[r]) /\ req'[r].pc # "accepted"
    <3>1. req'[r] = Idle
      BY <1>1 DEF SupplyInvariant, Structure, HandlersOK
    <3> QED
      BY <1>1, <3>1, Idles DEF Moving, Movers
  <2> QED
    BY <1>1, <2>1, MayCiteOwn
<1>9. /\ store' = [v \in Users |-> store'[v]]
      /\ \A v \in Users : FileOK(store'[v]) /\ \A rec \in store'[v] : MayCite(rec.controller)
  <2> HIDE DEF file, at
  <2> QED
    BY <1>4, <1>7, <1>8
<1> HIDE DEF e, tx, at, new
<1> QED
  BY <1>1, <1>2, <1>9, Idles, WriteStep

\* At most two outputs.
OutsOK(outs) == DOMAIN outs \subseteq 1..2 /\ \A i \in DOMAIN outs : outs[i].amount \in Nat

\* Sequences of at most two outputs.
LEMMA Joined ==
    ASSUME NEW x, NEW y
    PROVE  <<x>> \o <<>> = <<x>> /\ <<x>> \o <<y>> = <<x, y>>
<1>1. <<x>> \in Seq({x, y}) /\ <<y>> \in Seq({x, y}) /\ <<x, y>> \in Seq({x, y})
  OBVIOUS
<1>2. PICK s : s = <<x>> \o <<y>>
  OBVIOUS
<1>3. s \in Seq({x, y}) /\ Len(s) = 2 /\ s[1] = x /\ s[2] = y
  BY <1>1, <1>2, ConcatProperties
<1>4. s = <<x, y>>
  BY <1>1, <1>3, SeqEqual
<1> QED
  BY <1>1, <1>2, <1>4, ConcatEmptySeq

\* A transfer or a burn has at most two outputs.
LEMMA HolderOutsOK ==
    ASSUME NEW e, EntryInv(e), e.op \in {"transfer", "burn"}
    PROVE  OutsOK(e.outs)
<1>1. ASSUME NEW w, NEW n \in Nat
      PROVE  \/ n = 0 /\ ChangeOutput(w, n) = <<>>
             \/ n # 0 /\ ChangeOutput(w, n) = <<Out("holder", w, n)>>
  BY DEF ChangeOutput
<1>2. e.amount \in Nat
  BY DEF EntryInv
<1>3. CASE e.op = "transfer"
  <2>1. PICK S : /\ Total(S) - e.amount \in Nat
                 /\ e.outs = TransferOutputs(e.wallet, e.new, Total(S), e.amount)
    BY <1>3, Zenon DEF EntryInv
  <2>2. PICK m : m = Total(S) - e.amount
    OBVIOUS
  <2>3. e.outs = <<Out("holder", e.new, e.amount)>> \o ChangeOutput(e.wallet, m)
    BY <2>1, <2>2, Zenon DEF TransferOutputs
  <2>4. CASE m = 0
    <3>1. e.outs = <<Out("holder", e.new, e.amount)>>
      <4>1. ChangeOutput(e.wallet, m) = <<>>
        BY <1>1, <2>4
      <4> QED
        BY <2>3, <4>1, Joined
    <3> QED
      BY <1>2, <3>1 DEF OutsOK, Out
  <2>5. CASE m # 0
    <3>1. e.outs = <<Out("holder", e.new, e.amount), Out("holder", e.wallet, m)>>
      <4>1. ChangeOutput(e.wallet, m) = <<Out("holder", e.wallet, m)>>
        BY <1>1, <2>1, <2>2, <2>5
      <4> QED
        BY <2>3, <4>1, Joined
    <3>2. m \in Nat
      BY <2>1, <2>2
    <3> QED
      BY <1>2, <3>1, <3>2 DEF OutsOK, Out
  <2> QED
    BY <2>4, <2>5
<1>4. CASE e.op = "burn"
  <2>1. PICK S : /\ Total(S) - e.amount \in Nat
                 /\ e.outs = BurnOutputs(e.wallet, Total(S), e.amount)
    BY <1>4, Zenon DEF EntryInv
  <2>2. PICK m : m = Total(S) - e.amount
    OBVIOUS
  <2>3. m \in Nat /\ e.outs = ChangeOutput(e.wallet, m)
    BY <2>1, <2>2, Zenon DEF BurnOutputs
  <2>4. \/ e.outs = <<>>
        \/ e.outs = <<Out("holder", e.wallet, m)>>
    BY <1>1, <2>3
  <2> QED
    BY <2>3, <2>4 DEF OutsOK, Out
<1> QED
  BY <1>3, <1>4

\* The record of a new holder output has the controller of its source.
LEMMA CandidateCites ==
    ASSUME NEW e, RecordOK(e.record), NEW tx, NEW i
    PROVE  HolderCandidate(e, tx, i).controller = e.record.controller
<1>1. PICK d : d = e.record
  OBVIOUS
<1>2. d = [wallet |-> d.wallet, issuer |-> d.issuer, issued |-> d.issued,
           controller |-> d.controller, holder |-> d.holder, amount |-> d.amount,
           status |-> d.status]
  BY <1>1 DEF RecordOK
<1>3. HolderCandidate(e, tx, i) =
        [d EXCEPT !.wallet = e.outs[i].wallet, !.holder = <<tx, i - 1>>,
                  !.amount = e.outs[i].amount, !.status = "candidate"]
  BY <1>1 DEF HolderCandidate
<1> QED
  BY <1>1, <1>2, <1>3

\* The records of new holder outputs make a sound file.
LEMMA CandidatesOK ==
    ASSUME NEW e, RecordOK(e.record), OutsOK(e.outs), NEW tx \in Nat, tx # 0, tx <= ntx,
           NEW I \in SUBSET DOMAIN e.outs, NEW new,
           \A x \in new : \E i \in I : x = HolderCandidate(e, tx, i)
    PROVE  FileOK(new)
<1>1. PICK f : f = [i \in 1..2 |-> HolderCandidate(e, tx, i)]
  OBVIOUS
<1>2. I \subseteq 1..2 /\ \A i \in I : e.outs[i].amount \in Nat
  BY DEF OutsOK
<1>3. IsFiniteSet(1..2)
  BY FS_Interval, 1 \in Int, 2 \in Int
<1>4. \A x \in new : \E i \in 1..2 : x = f[i]
  BY <1>1, <1>2
<1>5. IsFiniteSet(new)
  BY <1>3, <1>4, FiniteImage
<1>6. ASSUME NEW i \in I
      PROVE  /\ HolderCandidate(e, tx, i) =
                  [wallet |-> e.outs[i].wallet, issuer |-> e.record.issuer, issued |-> e.record.issued,
                   controller |-> e.record.controller, holder |-> <<tx, i - 1>>,
                   amount |-> e.outs[i].amount, status |-> "candidate"]
             /\ RecordOK(HolderCandidate(e, tx, i))
             /\ HolderCandidate(e, tx, i).holder = <<tx, i - 1>>
             /\ HolderCandidate(e, tx, i).controller = e.record.controller
  <2>1. HolderCandidate(e, tx, i) =
                  [wallet |-> e.outs[i].wallet, issuer |-> e.record.issuer, issued |-> e.record.issued,
                   controller |-> e.record.controller, holder |-> <<tx, i - 1>>,
                   amount |-> e.outs[i].amount, status |-> "candidate"]
    <3>1. PICK d : d = e.record
      OBVIOUS
    <3>2. d = [wallet |-> d.wallet, issuer |-> d.issuer, issued |-> d.issued,
               controller |-> d.controller, holder |-> d.holder, amount |-> d.amount,
               status |-> d.status]
      BY <3>1 DEF RecordOK
    <3>3. HolderCandidate(e, tx, i) =
            [d EXCEPT !.wallet = e.outs[i].wallet, !.holder = <<tx, i - 1>>,
                      !.amount = e.outs[i].amount, !.status = "candidate"]
      BY <3>1 DEF HolderCandidate
    <3> QED
      BY <3>1, <3>2, <3>3
  <2>2. Outpoint(<<tx, i - 1>>)
    BY <1>2 DEF Outpoint
  <2> QED
    BY <1>2, <2>1, <2>2 DEF RecordOK
<1>7. ASSUME NEW x \in new
      PROVE  RecordOK(x) /\ x.controller = e.record.controller /\ x.holder[1] = tx /\ x.holder # NoHolder
  <2>1. PICK i \in I : x = HolderCandidate(e, tx, i)
    OBVIOUS
  <2>2. x.holder = <<tx, i - 1>> /\ RecordOK(x) /\ x.controller = e.record.controller
    BY <1>6, <2>1
  <2> QED
    BY <2>2 DEF NoHolder
<1>8. ASSUME NEW x \in new, NEW y \in new, x.holder = y.holder PROVE x = y
  <2>1. PICK i \in I : x = HolderCandidate(e, tx, i)
    OBVIOUS
  <2>2. PICK j \in I : y = HolderCandidate(e, tx, j)
    OBVIOUS
  <2>3. <<tx, i - 1>> = <<tx, j - 1>>
    BY <1>6, <1>8, <2>1, <2>2
  <2>4. i = j
    BY <1>2, <2>3
  <2> QED
    BY <2>1, <2>2, <2>4
<1> QED
  BY <1>5, <1>7, <1>8 DEF FileOK

\* They replace the records of what was spent.
LEMMA ReplacedOK ==
    ASSUME NEW F, FileOK(F), NEW spent, NEW new, FileOK(new)
    PROVE  /\ FileOK(ReplacedHolders(F, spent, new))
           /\ \A rec \in ReplacedHolders(F, spent, new) : rec \in F \/ rec \in new
<1> DEFINE kept == {rec \in F : rec.holder \notin spent /\ \A n \in new : n.holder # rec.holder}
<1>1. FileOK(kept) /\ \A x \in kept, y \in new : x.holder # y.holder
  BY FilePart, kept \in SUBSET F
<1>2. ReplacedHolders(F, spent, new) = kept \cup new /\ kept \subseteq F
  BY DEF ReplacedHolders
<1> HIDE DEF kept
<1> QED
  BY <1>1, <1>2, FileUnion

\* The files after a transfer or a burn.
LEMMA HoldersWritten ==
    ASSUME SupplyInvariant, NEW r \in Reqs, req[r].pc = "accepted",
           req[r].entry.op \in {"transfer", "burn"}, NEW I \in SUBSET DOMAIN req[r].entry.outs,
           NEW new, new = {HolderCandidate(req[r].entry, req[r].tx, i) : i \in I},
           store' = [store EXCEPT ![User(req[r].entry)] =
                        ReplacedHolders(@, req[r].entry.spends, new)]
    PROVE  /\ store' = [u \in Users |-> store'[u]]
           /\ \A u \in Users : FileOK(store'[u])
           /\ \A u \in Users : \A rec \in store'[u] : MayCite(rec.controller)
<1> DEFINE e == req[r].entry
           u == User(e)
           tx == req[r].tx
<1>1. /\ req[r].pc \in Stages /\ u \in Users /\ EntryInv(e) /\ tx \in Nat /\ tx <= ntx /\ tx # 0
  <2>1. req[r].pc \in Stages
    BY DEF Stages
  <2> QED
    BY <2>1, AtStage
<1>2. store = [v \in Users |-> store[v]] /\ \A v \in Users : FileOK(store[v])
  BY DEF SupplyInvariant, Structure, FilesOK
<1>3. RecordOK(e.record)
  BY <1>1 DEF EntryInv
<1>4. OutsOK(e.outs)
  BY <1>1, HolderOutsOK
<1>5. FileOK(new) /\ \A rec \in new : rec.controller = e.record.controller
  <2>1. PICK d, t : d = e /\ t = tx
    OBVIOUS
  <2>2. /\ I \in SUBSET DOMAIN d.outs
        /\ \A x \in new : \E i \in I : x = HolderCandidate(d, t, i)
        /\ RecordOK(d.record) /\ OutsOK(d.outs) /\ t \in Nat /\ t # 0 /\ t <= ntx
    BY <1>1, <1>3, <1>4, <2>1
  <2> HIDE DEF e, tx
  <2> QED
    <3>1. FileOK(new)
      BY <2>2, CandidatesOK
    <3>2. ASSUME NEW rec \in new PROVE rec.controller = d.record.controller
      <4>1. PICK i \in I : rec = HolderCandidate(d, t, i)
        BY <2>2
      <4> QED
        BY <2>2, <4>1, CandidateCites
    <3> QED
      BY <2>1, <3>1, <3>2
<1>6. PICK file : file = ReplacedHolders(store[u], e.spends, new)
  OBVIOUS
<1>7. FileOK(file) /\ \A rec \in file : rec \in store[u] \/ rec \in new
  <2> HIDE DEF u, e
  <2> QED
    BY <1>1, <1>2, <1>5, <1>6, ReplacedOK
<1>8. /\ store' = [v \in Users |-> store'[v]]
      /\ \A v \in Users : store'[v] = IF v = u THEN file ELSE store[v]
  <2>1. store' = [store EXCEPT ![u] = file]
    BY <1>6
  <2> HIDE DEF u
  <2> QED
    BY <1>1, <1>2, <2>1
<1>9. MayCite(e.record.controller)
  BY <1>1, MayCiteOwn
<1>10. \A v \in Users : \A rec \in store[v] : MayCite(rec.controller)
  BY Zenon DEF MayCite, Cited
<1> HIDE DEF e, u, tx
<1> QED
  BY <1>1, <1>2, <1>5, <1>7, <1>8, <1>9, <1>10

\* A transfer writes the records of its outputs.
LEMMA RecordTransferStep ==
    ASSUME SupplyInvariant, NEW r \in Reqs, RecordTransfer(r)
    PROVE  SupplyInvariant'
<1>1. /\ req[r].pc = "accepted" /\ req[r].pc \in Stages /\ req[r].entry.op = "transfer"
      /\ req' = [req EXCEPT ![r] = Idle] /\ UNCHANGED <<live, ntx, receipts, cache, cutOff>>
  BY DEF RecordTransfer, Become, Stages
<1>2. PICK I : I = {j \in DOMAIN req[r].entry.outs :
                      OwnerOf[req[r].entry.outs[j].wallet] = User(req[r].entry)}
  OBVIOUS
<1>3. PICK new : new = {HolderCandidate(req[r].entry, req[r].tx, i) : i \in I}
  OBVIOUS
<1>4. store' = [store EXCEPT ![User(req[r].entry)] =
                   ReplacedHolders(@, req[r].entry.spends, new)]
  BY <1>2, <1>3, Zenon DEF RecordTransfer
<1>5. I \in SUBSET DOMAIN req[r].entry.outs
  BY <1>2
<1>6. Moved(req[r]) = 0
  BY <1>1, AtStage
<1>7. /\ store' = [u \in Users |-> store'[u]]
      /\ \A u \in Users : FileOK(store'[u])
      /\ \A u \in Users : \A rec \in store'[u] : MayCite(rec.controller)
  BY <1>1, <1>3, <1>4, <1>5, HoldersWritten
<1> QED
  BY <1>1, <1>6, <1>7, Idles, WriteStep

-----------------------------------------------------------------------------
(***************************************************************************)
(* Writing receipts.                                                       *)
(***************************************************************************)
\* A handler writes its records and one user's receipts, and ends.
LEMMA ReceiptsStep ==
    ASSUME SupplyInvariant, UNCHANGED <<live, ntx, cache, cutOff>>,
           store' = [v \in Users |-> store'[v]], \A v \in Users : FileOK(store'[v]),
           \A v \in Users : \A rec \in store'[v] : MayCite(rec.controller),
           NEW r \in Reqs, req' = [req EXCEPT ![r] = Idle],
           NEW u \in Users, \A v \in Users \ {u} : receipts'[v] = receipts[v],
           ReceiptsOK', TxsGrow,
           \A e : EntryInv(e) /\ e.op = "reclaim" /\ Cited(e.record.controller)
                     /\ ControllerLives(e.record.controller) => Due(e)',
           \A q \in Reqs \ {r} : req[q].pc = "reclaim_build" => \A rec \in req[q].records :
              ControllerLives(rec.controller) => req[q].receipts \subseteq receipts'[OwnerOf[req[q].wallet]],
           \A q \in Reqs \ {r} : req[q].pc = "accepted" /\ req[q].entry.op = "burn"
              => \A v \in Users : req[q].tx \notin Txs(receipts'[v]),
           \A q \in Reqs \ {r} : req[q].pc = "accepted" /\ req[q].entry.op = "reclaim"
              => Due(req[q].entry)',
           Total(Owed(u)') = Total(Owed(u)) + Moved(req[r])
    PROVE  SupplyInvariant'
<1>1. Grows
  BY DEF Grows, SupplyInvariant, Structure, ChainOK
<1>2. ChainOK' /\ FilesOK'
  <2>1. ChainOK'
    BY DEF SupplyInvariant, Structure, ChainOK, Controllers
  <2> QED
    BY <1>1, <2>1, FilesWritten
<1>3. /\ \A q \in Reqs : req'[q] = IF q = r THEN Idle ELSE req[q]
      /\ req' = [q \in Reqs |-> req'[q]]
  BY DEF SupplyInvariant, Structure, HandlersOK
<1>4. \A at : ControllerLives(at)' <=> ControllerLives(at)
  BY DEF ControllerLives
<1>5. ASSUME NEW at, Cited(at)' PROVE MayCite(at)
  <2>1. CASE \E v \in Users : \E rec \in store'[v] : rec.controller = at
    BY <2>1
  <2>2. CASE \E e \in cache' : e.record.controller = at
    BY <2>2, Zenon DEF MayCite, Cited
  <2>3. CASE \E q \in Reqs : HandlerCites(req'[q], at)
    <3>1. PICK q \in Reqs : HandlerCites(req'[q], at)
      BY <2>3
    <3>2. q # r
      BY <1>3, <3>1, Idles
    <3>3. HandlerCites(req[q], at)
      BY <1>3, <3>1, <3>2
    <3> QED
      BY <3>3, Zenon DEF Cited, MayCite
  <2>4. (\E q \in Reqs : HandlerCites(req[q], at)') <=> \E q \in Reqs : HandlerCites(req'[q], at)
    BY Zenon DEF HandlerCites
  <2> QED
    BY <1>5, <2>1, <2>2, <2>3, <2>4, Zenon DEF Cited
<1>6. ASSUME NEW e \in cache' PROVE EntryInv(e)'
  <2>1. EntryInv(e) /\ Cited(e.record.controller)
    BY Zenon DEF SupplyInvariant, Structure, Cited
  <2>2. e.op = "reclaim" /\ ControllerLives(e.record.controller)' => Due(e)'
    BY <1>4, <2>1, Zenon
  <2> QED
    BY <1>1, <2>1, <2>2, EntryLater
<1>7. ASSUME NEW q \in Reqs PROVE HandlerInv(req[q])'
  <2>1. PICK h : h = req'[q]
    OBVIOUS
  <2>2. CASE q = r
    <3>1. h = Idle
      BY <1>3, <2>1, <2>2
    <3>2. HandlerInv(h)'
      BY <3>1 DEF HandlerInv
    <3> QED
      BY <2>1, <3>2
  <2>3. CASE q # r
    <3>1. h = req[q] /\ HandlerInv(h)
      BY <1>3, <2>1, <2>3 DEF SupplyInvariant, Structure, HandlersOK
    <3>2. h.pc \in Stages => EntryInv(h.entry) /\ Cited(h.entry.record.controller)
      <4>1. h.pc \in Stages => EntryInv(h.entry)
        BY <3>1, AtStage
      <4> QED
        BY <3>1, <4>1, Zenon DEF Cited, HandlerCites
    <3>3. h.pc \in Stages /\ h.entry.op = "reclaim" /\ ControllerLives(h.entry.record.controller)'
              => Due(h.entry)'
      BY <1>4, <3>2, Zenon
    <3>4. h.pc = "reclaim_build" => \A rec \in h.records :
              ControllerLives(rec.controller)' => h.receipts \subseteq receipts'[OwnerOf[h.wallet]]
      BY <1>4, <2>3, <3>1
    <3>5. Moving(h) => /\ \E o \in live' : o.at = <<h.tx, 0>> /\ o.role = "controller"
                       /\ ~ Cited(<<h.tx, 0>>)'
      <4> SUFFICES ASSUME Moving(h) PROVE /\ \E o \in live' : o.at = <<h.tx, 0>> /\ o.role = "controller"
                                          /\ ~ Cited(<<h.tx, 0>>)'
        OBVIOUS
      <4>0. h.pc = "accepted" /\ h.pc \in Stages /\ h # Idle
        BY DEF Moving, Stages, Idle
      <4>1. (\E o \in live : o.at = <<h.tx, 0>> /\ o.role = "controller") /\ ~ Cited(<<h.tx, 0>>)
        BY <3>1, <4>0 DEF HandlerInv
      <4>2. ASSUME NEW s \in Reqs, Moving(req[s]), <<h.tx, 0>> = <<req[s].tx, 0>>, req'[s].pc # "accepted"
            PROVE FALSE
        <5>1. req[s].pc = "accepted" /\ req[s].tx = h.tx /\ s # q
          BY <2>1, <4>0, <4>2 DEF Moving
        <5> QED
          BY <3>1, <4>0, <5>1 DEF SupplyInvariant, Structure, HandlersOK
      <4>3. <<h.tx, 0>> # NoHolder
        BY <3>1, <4>0 DEF HandlerInv, NoHolder
      <4>4. ~ MayCite(<<h.tx, 0>>)
        BY <4>1, <4>2, <4>3, Zenon DEF MayCite
      <4> QED
        BY <1>5, <4>1, <4>4
    <3>6. h.pc = "accepted" /\ h.entry.op = "burn" => \A v \in Users : h.tx \notin Txs(receipts'[v])
      BY <2>3, <3>1
    <3>7. h.pc = "accepted" /\ h.entry.op = "reclaim" => Due(h.entry)'
      <4>1. q \in Reqs \ {r}
        BY <2>3
      <4>2. req[q].pc = "accepted" /\ req[q].entry.op = "reclaim" => Due(req[q].entry)'
        BY <4>1
      <4> QED
        BY <2>1, <3>1, <4>2
    <3>8. HandlerInv(h)'
      BY <1>1, <3>1, <3>3, <3>4, <3>5, <3>6, <3>7, HandlerLater
    <3> QED
      BY <2>1, <3>8
  <2> QED
    BY <2>2, <2>3
<1>8. Structure'
  <2>1. \A s, q \in Reqs : s # q /\ req'[s].pc = "accepted" /\ req'[q].pc = "accepted"
                              => req'[s].tx # req'[q].tx
    <3>1. \A s, q \in Reqs : s # q /\ req[s].pc = "accepted" /\ req[q].pc = "accepted"
                                => req[s].tx # req[q].tx
      BY DEF SupplyInvariant, Structure, HandlersOK
    <3> QED
      BY <1>3, <3>1, Idles
  <2>2. HandlersOK'
    BY <1>3, <1>7, <2>1, Zenon DEF HandlersOK
  <2> QED
    BY <1>2, <1>6, <2>2, Zenon DEF Structure
<1>9. Pending' = Pending /\ Pending \in Int
  <2>1. \A q \in Reqs \ {r} : Moved(req'[q]) = Moved(req[q])
    BY <1>3
  <2>2. Structure
    BY DEF SupplyInvariant
  <2>3. /\ Pending' = Pending - Total(Owed(u)) + Total(Owed(u)') - Moved(req[r]) + Moved(req'[r])
        /\ Pending \in Int /\ Total(Owed(u)) \in Nat /\ Total(Owed(u)') \in Nat
        /\ Moved(req[r]) \in Int /\ Moved(req'[r]) \in Int
    BY <1>8, <2>1, <2>2, PendingStep
  <2>4. Moved(req'[r]) = 0
    BY <1>3, Idles
  <2> QED
    BY <2>3, <2>4
<1>10. Holders' = Holders /\ Controllers' = Controllers
  BY DEF Holders, Controllers
<1>11. Total(Holders)' = Total(Holders)
  BY <1>10
<1>12. ASSUME NEW c \in Controllers'
       PROVE  /\ c.amount >= Total(Holders)'
              /\ cutOff' = 0 => c.amount = Total(Holders)' + Pending'
              /\ Reachable(c.at)' => c.amount >= Total(Holders)' + Pending'
  <2>1. c \in Controllers
    BY <1>10, <1>12
  <2>2. c.at # NoHolder
    BY <2>1 DEF SupplyInvariant, Structure, ChainOK, Controllers, NoHolder
  <2>3. Reachable(c.at)' => Reachable(c.at)
    <3>1. \A q \in Reqs : Moving(req'[q]) => req'[q] = req[q]
      BY <1>3, Idles DEF Moving
    <3>2. Cited(c.at)' => MayCite(c.at)
      BY <1>5
    <3> QED
      BY <2>2, <3>1, <3>2, ReachableBefore DEF SupplyInvariant, Structure
  <2>4. /\ c.amount >= Total(Holders)
        /\ cutOff = 0 => c.amount = Total(Holders) + Pending
        /\ Reachable(c.at) => c.amount >= Total(Holders) + Pending
    BY <2>1, Zenon DEF SupplyInvariant, Balance
  <2> QED
    BY <1>9, <1>11, <2>3, <2>4
<1>13. Balance'
  BY <1>12 DEF Balance
<1> QED
  BY <1>8, <1>13 DEF SupplyInvariant

\* A supply update stays due if its receipts are untouched.
LEMMA DueKept ==
    ASSUME NEW e, Due(e),
           \A x : x \in receipts'[User(e)] /\ x.tx \in e.receipts
                    <=> x \in receipts[User(e)] /\ x.tx \in e.receipts
    PROVE  Due(e)'
<1>1. {x \in receipts'[User(e)] : x.tx \in e.receipts} = {x \in receipts[User(e)] : x.tx \in e.receipts}
  OBVIOUS
<1>2. Due(e)' <=> LET due == {x \in receipts'[User(e)] : x.tx \in e.receipts}
                  IN  (\A x \in due : x.pending) /\ Total(due) = e.amount
  BY Zenon DEF Due, User
<1> QED
  BY <1>1, <1>2, Zenon DEF Due

\* What is known of a handler that has not written yet.
LEMMA AtAccepted ==
    ASSUME SupplyInvariant, NEW r \in Reqs, req[r].pc = "accepted"
    PROVE  /\ EntryInv(req[r].entry)
           /\ req[r].entry.op = "burn" => \A v \in Users : req[r].tx \notin Txs(receipts[v])
           /\ req[r].entry.op = "reclaim" => Due(req[r].entry)
           /\ req[r].entry.op \in Movers =>
                 /\ \E o \in live : o.at = <<req[r].tx, 0>> /\ o.role = "controller"
                 /\ ~ Cited(<<req[r].tx, 0>>)
           /\ \A q \in Reqs \ {r} : req[q].pc = "accepted" => req[q].tx # req[r].tx
<1>1. HandlerInv(req[r]) /\ req[r] # Idle /\ req[r].pc # "reclaim_build"
  BY DEF SupplyInvariant, Structure, HandlersOK, Idle
<1>2. \A q \in Reqs \ {r} : req[q].pc = "accepted" => req[q].tx # req[r].tx
  BY DEF SupplyInvariant, Structure, HandlersOK
<1> QED
  BY <1>1, <1>2, Zenon DEF HandlerInv, Moving

\* What is known of a supply update that is waiting for the node.
LEMMA AtSnapshot ==
    ASSUME SupplyInvariant, NEW r \in Reqs, req[r].pc = "reclaim_build"
    PROVE  SnapshotOK(req[r]) /\ OwnerOf[req[r].wallet] \in Users
<1>1. HandlerInv(req[r]) /\ req[r] # Idle /\ req[r].pc \notin Stages
  BY DEF SupplyInvariant, Structure, HandlersOK, Idle, Stages
<1>2. SnapshotOK(req[r])
  BY <1>1, Zenon DEF HandlerInv
<1> QED
  BY <1>2, TokenAssumption DEF SnapshotOK

\* A burn writes its records and its receipt.
LEMMA RecordBurnStep ==
    ASSUME SupplyInvariant, NEW r \in Reqs, RecordBurn(r)
    PROVE  SupplyInvariant'
<1>1. /\ req[r].pc = "accepted" /\ req[r].pc \in Stages /\ req[r].entry.op = "burn"
      /\ req' = [req EXCEPT ![r] = Idle] /\ UNCHANGED <<live, ntx, cache, cutOff>>
  BY DEF RecordBurn, Become, Stages
<1>2. PICK e, u, tx : e = req[r].entry /\ u = User(e) /\ tx = req[r].tx
  OBVIOUS
<1>3. /\ EntryInv(e) /\ tx \in Nat /\ tx <= ntx /\ tx # 0 /\ u \in Users
      /\ \A v \in Users : tx \notin Txs(receipts[v])
  <2>1. \A v \in Users : tx \notin Txs(receipts[v])
    BY <1>1, <1>2, AtAccepted
  <2> QED
    BY <1>1, <1>2, <2>1, AtStage
<1>4. ntx \in Nat /\ e.amount \in Nat
  BY <1>3 DEF SupplyInvariant, Structure, ChainOK, EntryInv
<1>5. /\ store' = [v \in Users |-> store'[v]]
      /\ \A v \in Users : FileOK(store'[v])
      /\ \A v \in Users : \A rec \in store'[v] : MayCite(rec.controller)
  <2>1. PICK I : I = DOMAIN req[r].entry.outs
    OBVIOUS
  <2>2. PICK new : new = {HolderCandidate(req[r].entry, req[r].tx, i) : i \in I}
    OBVIOUS
  <2>3. store' = [store EXCEPT ![User(req[r].entry)] =
                     ReplacedHolders(@, req[r].entry.spends, new)]
    BY <2>1, <2>2, Zenon DEF RecordBurn, BurnCandidates
  <2>4. I \in SUBSET DOMAIN req[r].entry.outs
    BY <2>1
  <2> QED
    BY <1>1, <2>2, <2>3, <2>4, HoldersWritten
<1>6. PICK n : n = [tx |-> tx, wallet |-> e.wallet, amount |-> e.amount, pending |-> TRUE]
  OBVIOUS
<1>7. /\ receipts = [v \in Users |-> receipts[v]]
      /\ \A v \in Users :
            /\ IsFiniteSet(receipts[v])
            /\ \A x \in receipts[v] :
                  /\ x = [tx |-> x.tx, wallet |-> x.wallet, amount |-> x.amount, pending |-> x.pending]
                  /\ x.tx \in 1..ntx /\ x.amount \in Nat /\ x.pending \in BOOLEAN
            /\ \A x, y \in receipts[v] : x.tx = y.tx => x = y
  BY DEF SupplyInvariant, Structure, ReceiptsOK
<1>8. \A v \in Users : \A x \in receipts[v] : x.tx # tx
  BY <1>3 DEF Txs
<1>9. \A v \in Users : receipts'[v] = IF v = u THEN receipts[u] \cup {n} ELSE receipts[v]
  <2>1. receipts' = [receipts EXCEPT ![u] = WithReceipt(receipts[u], tx, e.wallet, e.amount)]
    BY <1>2, <1>3, <1>7 DEF RecordBurn
  <2>2. WithReceipt(receipts[u], tx, e.wallet, e.amount) = receipts[u] \cup {n}
    BY <1>3, <1>6, <1>8 DEF WithReceipt
  <2> QED
    BY <1>3, <1>7, <2>1, <2>2
<1>10. receipts' = [v \in Users |-> receipts'[v]]
  BY <1>7 DEF RecordBurn
<1>11. \A v \in Users : IsFiniteSet(receipts'[v])
  <2>1. IsFiniteSet(receipts[u] \cup {n})
    BY <1>3, <1>7, FS_Singleton, FS_Union
  <2> QED
    BY <1>7, <1>9, <2>1
<1>12. ReceiptsOK'
  <2>1. /\ n = [tx |-> n.tx, wallet |-> n.wallet, amount |-> n.amount, pending |-> n.pending]
        /\ n.tx \in 1..ntx' /\ n.amount \in Nat /\ n.pending \in BOOLEAN /\ n.tx = tx
    BY <1>1, <1>3, <1>4, <1>6
  <2>2. ASSUME NEW v \in Users
        PROVE  /\ \A x \in receipts'[v] :
                  /\ x = [tx |-> x.tx, wallet |-> x.wallet, amount |-> x.amount, pending |-> x.pending]
                  /\ x.tx \in 1..ntx' /\ x.amount \in Nat /\ x.pending \in BOOLEAN
               /\ \A x, y \in receipts'[v] : x.tx = y.tx => x = y
    <3>1. \A x \in receipts'[v] : x \in receipts[v] \/ x = n
      BY <1>9
    <3> QED
      BY <1>1, <1>7, <1>8, <2>1, <3>1
  <2> QED
    BY <1>10, <1>11, <2>2 DEF ReceiptsOK
<1>13. /\ TxsGrow /\ \A v \in Users \ {u} : receipts'[v] = receipts[v]
       /\ \A v \in Users : receipts[v] \subseteq receipts'[v]
       /\ \A v \in Users : \A x : x.tx # tx => (x \in receipts'[v] <=> x \in receipts[v])
  BY <1>6, <1>9 DEF TxsGrow, Txs
<1>14. ASSUME NEW d, EntryInv(d), d.op = "reclaim", Due(d)
       PROVE  Due(d)'
  <2>1. User(d) \in Users /\ d.receipts \subseteq Txs(receipts[User(d)])
    BY <1>14, TokenAssumption DEF EntryInv, User
  <2>2. tx \notin d.receipts
    BY <1>3, <2>1
  <2>3. \A x : x \in receipts'[User(d)] /\ x.tx \in d.receipts
                    <=> x \in receipts[User(d)] /\ x.tx \in d.receipts
    BY <1>13, <2>1, <2>2
  <2> QED
    BY <1>14, <2>3, DueKept
<1>15. ASSUME NEW d, EntryInv(d), d.op = "reclaim", ControllerLives(d.record.controller)
       PROVE  Due(d)'
  <2>1. Due(d)
    BY <1>15 DEF EntryInv
  <2> QED
    BY <1>14, <1>15, <2>1
<1>16. ASSUME NEW q \in Reqs \ {r}, req[q].pc = "reclaim_build", NEW rec \in req[q].records,
              ControllerLives(rec.controller)
       PROVE  req[q].receipts \subseteq receipts'[OwnerOf[req[q].wallet]]
  <2>1. SnapshotOK(req[q])
    BY <1>16, AtSnapshot
  <2>2. req[q].receipts \subseteq receipts[OwnerOf[req[q].wallet]] /\ OwnerOf[req[q].wallet] \in Users
    BY <1>16, <2>1, TokenAssumption DEF SnapshotOK
  <2> QED
    BY <1>13, <2>2
<1>17. ASSUME NEW q \in Reqs \ {r}, req[q].pc = "accepted", req[q].entry.op = "burn", NEW v \in Users
       PROVE  req[q].tx \notin Txs(receipts'[v])
  <2>1. req[q].tx \notin Txs(receipts[v]) /\ req[q].tx # tx
    BY <1>1, <1>2, <1>17, AtAccepted
  <2> QED
    BY <1>6, <1>9, <2>1 DEF Txs
<1>18. ASSUME NEW q \in Reqs \ {r}, req[q].pc = "accepted", req[q].entry.op = "reclaim"
       PROVE  Due(req[q].entry)'
  <2>1. PICK d : d = req[q].entry
    OBVIOUS
  <2>2. Due(d) /\ EntryInv(d)
    BY <1>18, <2>1, AtAccepted
  <2>3. Due(d)'
    BY <1>14, <1>18, <2>1, <2>2
  <2>4. req'[q].entry = d
    BY <1>1, <1>18, <2>1 DEF SupplyInvariant, Structure, HandlersOK
  <2> QED
    BY <2>3, <2>4
<1>19. Total(Owed(u)') = Total(Owed(u)) + Moved(req[r])
  <2>1. PICK S, T : S = Owed(u) /\ T = Owed(u)'
    OBVIOUS
  <2>2. T = S \cup {n} /\ S \cap {n} = {}
    BY <1>3, <1>6, <1>8, <1>9, <2>1 DEF Owed
  <2>3. Amounted(S)
    <3>1. S \subseteq receipts[u] /\ IsFiniteSet(receipts[u])
      BY <1>3, <1>7, <2>1 DEF Owed
    <3>2. IsFiniteSet(S) /\ \A x \in S : x.amount \in Nat
      BY <1>3, <1>7, <3>1, FS_Subset
    <3> QED
      BY <3>2 DEF Amounted
  <2>4. Total({n}) = e.amount /\ Amounted({n})
    <3>1. n.amount = e.amount /\ n.amount \in Nat
      BY <1>4, <1>6
    <3>2. Total({n}) = n.amount /\ Amounted({n})
      BY <3>1, TotalOne
    <3> QED
      BY <3>1, <3>2
  <2>5. Total(T) = Total(S) + e.amount
    BY <2>2, <2>3, <2>4, TotalUnion
  <2>6. Moved(req[r]) = e.amount
    BY <1>1, <1>2 DEF Moved
  <2> QED
    BY <2>1, <2>5, <2>6
<1> QED
  BY <1>1, <1>3, <1>5, <1>12, <1>13, <1>15, <1>16, <1>17, <1>18, <1>19, ReceiptsStep, Zenon

\* The controller lives where the reclaim moved it to, which nobody else knows of.
LEMMA OnlyTheMoved ==
    ASSUME SupplyInvariant, NEW r \in Reqs, req[r].pc = "accepted", req[r].entry.op \in Movers
    PROVE  /\ \A at : ControllerLives(at) => at = <<req[r].tx, 0>>
           /\ \A at : Cited(at) => ~ ControllerLives(at)
           /\ \A q \in Reqs \ {r} : req[q].pc = "accepted" => req[q].entry.op \notin Movers
<1>1. /\ \E o \in live : o.at = <<req[r].tx, 0>> /\ o.role = "controller"
      /\ ~ Cited(<<req[r].tx, 0>>)
  BY AtAccepted
<1>2. \A c, d \in Controllers : c = d
  BY DEF SupplyInvariant, Structure, ChainOK
<1>3. \A at : ControllerLives(at) => at = <<req[r].tx, 0>>
  BY <1>1, <1>2 DEF ControllerLives, Controllers
<1>4. ASSUME NEW q \in Reqs \ {r}, req[q].pc = "accepted", req[q].entry.op \in Movers PROVE FALSE
  <2>1. ControllerLives(<<req[q].tx, 0>>)
    BY <1>4, AtAccepted DEF ControllerLives
  <2>2. <<req[q].tx, 0>> = <<req[r].tx, 0>>
    BY <1>3, <2>1
  <2>3. req[q].tx = req[r].tx
    BY <2>2
  <2> QED
    BY <1>4, <2>3, AtAccepted
<1> QED
  BY <1>1, <1>3, <1>4, Zenon

\* A supply update writes its records, and closes the receipts it was made for.
LEMMA RecordReclaimStep ==
    ASSUME SupplyInvariant, NEW r \in Reqs, RecordReclaim(r)
    PROVE  SupplyInvariant'
<1>1. /\ req[r].pc = "accepted" /\ req[r].pc \in Stages /\ req[r].entry.op = "reclaim"
      /\ req[r].entry.op \in Movers
      /\ req' = [req EXCEPT ![r] = Idle] /\ UNCHANGED <<live, ntx, cache, cutOff>>
  BY DEF RecordReclaim, Become, Stages, Movers
<1>2. PICK e, u, tx : e = req[r].entry /\ u = User(e) /\ tx = req[r].tx
  OBVIOUS
<1>3. /\ EntryInv(e) /\ tx \in Nat /\ tx <= ntx /\ tx # 0 /\ u \in Users
      /\ Due(e) /\ Outpoint(<<tx, 0>>)
  BY <1>1, <1>2, AtAccepted, AtStage
<1>4. e.amount \in Nat /\ e.record.issued - e.amount \in Nat
  BY <1>1, <1>2, <1>3 DEF EntryInv, RecordOK
<1>5. store = [v \in Users |-> store[v]] /\ \A v \in Users : FileOK(store[v])
  BY DEF SupplyInvariant, Structure, FilesOK
<1>6. /\ store' = [v \in Users |-> store'[v]]
      /\ \A v \in Users : FileOK(store'[v])
      /\ \A v \in Users : \A rec \in store'[v] : MayCite(rec.controller)
  <2>1. PICK file, supply, at : /\ supply = e.record.issued - e.amount /\ at = <<tx, 0>>
                                /\ file = WithController(store[u], at, supply)
    OBVIOUS
  <2>2. store' = [store EXCEPT ![u] = file]
    BY <1>2, <1>3, <1>5, <2>1, Zenon DEF RecordReclaim, ReplacedAfterReclaim
  <2>3. FileOK(file) /\ \A rec \in file : rec.controller = <<tx, 0>>
    BY <1>3, <1>4, <1>5, <2>1, Controlled
  <2>4. MayCite(<<tx, 0>>)
    <3>1. req'[r].pc # "accepted"
      BY <1>1, Idles DEF SupplyInvariant, Structure, HandlersOK
    <3>2. Moving(req[r])
      BY <1>1 DEF Moving
    <3> QED
      BY <1>1, <1>2, <3>1, <3>2, MayCiteOwn
  <2>5. \A v \in Users : \A rec \in store[v] : MayCite(rec.controller)
    BY Zenon DEF MayCite, Cited
  <2>6. /\ store' = [v \in Users |-> store'[v]]
        /\ \A v \in Users : store'[v] = IF v = u THEN file ELSE store[v]
    BY <1>3, <1>5, <2>2
  <2> QED
    BY <1>5, <2>3, <2>4, <2>5, <2>6
<1>7. /\ receipts = [v \in Users |-> receipts[v]]
      /\ \A v \in Users :
            /\ IsFiniteSet(receipts[v])
            /\ \A x \in receipts[v] :
                  /\ x = [tx |-> x.tx, wallet |-> x.wallet, amount |-> x.amount, pending |-> x.pending]
                  /\ x.tx \in 1..ntx /\ x.amount \in Nat /\ x.pending \in BOOLEAN
            /\ \A x, y \in receipts[v] : x.tx = y.tx => x = y
  BY DEF SupplyInvariant, Structure, ReceiptsOK
<1>8. PICK f : f = [x \in receipts[u] |-> IF x.tx \in e.receipts THEN [x EXCEPT !.pending = FALSE]
                                          ELSE x]
  OBVIOUS
<1>9. /\ receipts' = [v \in Users |-> receipts'[v]]
      /\ \A v \in Users : receipts'[v] = IF v = u THEN {f[x] : x \in receipts[u]} ELSE receipts[v]
  <2>1. receipts' = [receipts EXCEPT ![u] = ReceiptsMarked(receipts[u], e.receipts)]
    BY <1>2, <1>3, <1>7 DEF RecordReclaim
  <2>2. ASSUME NEW x \in receipts[u]
        PROVE  [x EXCEPT !.pending = @ /\ x.tx \notin e.receipts] = f[x]
    <3>1. /\ x = [tx |-> x.tx, wallet |-> x.wallet, amount |-> x.amount, pending |-> x.pending]
          /\ x.pending \in BOOLEAN
      BY <1>3, <1>7
    <3>2. PICK b : b = (x.pending /\ x.tx \notin e.receipts)
      OBVIOUS
    <3>3. [x EXCEPT !.pending = @ /\ x.tx \notin e.receipts] = [x EXCEPT !.pending = b]
      BY <3>2
    <3>4. CASE x.tx \in e.receipts
      <4>1. b = FALSE
        BY <3>2, <3>4, Zenon
      <4> QED
        BY <1>8, <3>3, <3>4, <4>1
    <3>5. CASE x.tx \notin e.receipts
      <4>1. b = x.pending
        BY <3>1, <3>2, <3>5
      <4>2. [x EXCEPT !.pending = b] = x
        BY <3>1, <4>1
      <4> QED
        BY <1>8, <3>3, <3>5, <4>2
    <3> QED
      BY <3>4, <3>5
  <2>3. ReceiptsMarked(receipts[u], e.receipts) = {f[x] : x \in receipts[u]}
    <3>1. ReceiptsMarked(receipts[u], e.receipts)
            = {[x EXCEPT !.pending = @ /\ x.tx \notin e.receipts] : x \in receipts[u]}
      BY Zenon DEF ReceiptsMarked
    <3>2. {[x EXCEPT !.pending = @ /\ x.tx \notin e.receipts] : x \in receipts[u]}
            = {f[x] : x \in receipts[u]}
      <4> DEFINE g(x) == [x EXCEPT !.pending = @ /\ x.tx \notin e.receipts]
      <4>1. \A x \in receipts[u] : g(x) = f[x]
        BY <2>2
      <4> HIDE DEF g
      <4>2. {g(x) : x \in receipts[u]} = {f[x] : x \in receipts[u]}
        BY <4>1
      <4> QED
        BY <4>2 DEF g
    <3> QED
      BY <3>1, <3>2
  <2> QED
    BY <1>3, <1>7, <2>1, <2>3
<1>10. \A x \in receipts[u] :
          /\ f[x] = [tx |-> f[x].tx, wallet |-> f[x].wallet, amount |-> f[x].amount,
                     pending |-> f[x].pending]
          /\ f[x].tx = x.tx /\ f[x].amount = x.amount
          /\ x.tx \notin e.receipts => f[x] = x
          /\ x.tx \in e.receipts => f[x].pending = FALSE
          /\ f[x].pending \in BOOLEAN
  <2> SUFFICES ASSUME NEW x \in receipts[u]
               PROVE  /\ f[x] = [tx |-> f[x].tx, wallet |-> f[x].wallet, amount |-> f[x].amount,
                                 pending |-> f[x].pending]
                      /\ f[x].tx = x.tx /\ f[x].amount = x.amount
                      /\ x.tx \notin e.receipts => f[x] = x
                      /\ x.tx \in e.receipts => f[x].pending = FALSE
                      /\ f[x].pending \in BOOLEAN
    OBVIOUS
  <2>1. /\ x = [tx |-> x.tx, wallet |-> x.wallet, amount |-> x.amount, pending |-> x.pending]
        /\ x.pending \in BOOLEAN
    BY <1>3, <1>7
  <2>2. CASE x.tx \in e.receipts
    <3>1. f[x] = [tx |-> x.tx, wallet |-> x.wallet, amount |-> x.amount, pending |-> FALSE]
      BY <1>8, <2>1, <2>2
    <3> QED
      BY <2>2, <3>1
  <2>3. CASE x.tx \notin e.receipts
    BY <1>8, <2>1, <2>3
  <2> QED
    BY <2>2, <2>3
<1>11. \A y \in receipts'[u] : \E x \in receipts[u] : y = f[x]
  BY <1>3, <1>9
<1>12. ReceiptsOK'
  <2>1. ASSUME NEW v \in Users
        PROVE  /\ IsFiniteSet(receipts'[v])
               /\ \A x \in receipts'[v] :
                  /\ x = [tx |-> x.tx, wallet |-> x.wallet, amount |-> x.amount, pending |-> x.pending]
                  /\ x.tx \in 1..ntx' /\ x.amount \in Nat /\ x.pending \in BOOLEAN
               /\ \A x, y \in receipts'[v] : x.tx = y.tx => x = y
    <3>1. CASE v # u
      BY <1>1, <1>7, <1>9, <3>1
    <3>2. CASE v = u
      <4>1. IsFiniteSet(receipts'[v])
        <5>1. IsFiniteSet(receipts[u])
          BY <1>3, <1>7
        <5> QED
          BY <1>11, <3>2, <5>1, FiniteImage
      <4>2. \A x \in receipts[u] : x.tx \in 1..ntx' /\ x.amount \in Nat
        BY <1>1, <1>3, <1>7
      <4>3. ASSUME NEW y \in receipts'[v]
            PROVE  /\ y = [tx |-> y.tx, wallet |-> y.wallet, amount |-> y.amount, pending |-> y.pending]
                   /\ y.tx \in 1..ntx' /\ y.amount \in Nat /\ y.pending \in BOOLEAN
        <5>1. PICK x \in receipts[u] : y = f[x]
          BY <1>11, <3>2
        <5> QED
          BY <1>10, <4>2, <5>1
      <4>4. ASSUME NEW y \in receipts'[v], NEW z \in receipts'[v], y.tx = z.tx PROVE y = z
        <5>1. PICK a \in receipts[u] : y = f[a]
          BY <1>11, <3>2
        <5>2. PICK b \in receipts[u] : z = f[b]
          BY <1>11, <3>2
        <5>3. a.tx = b.tx
          BY <1>10, <4>4, <5>1, <5>2
        <5>4. a = b
          BY <1>3, <1>7, <5>3
        <5> QED
          BY <5>1, <5>2, <5>4
      <4> QED
        BY <4>1, <4>3, <4>4
    <3> QED
      BY <3>1, <3>2
  <2> QED
    BY <1>9, <2>1 DEF ReceiptsOK
<1>13. /\ TxsGrow /\ \A v \in Users \ {u} : receipts'[v] = receipts[v]
       /\ \A v \in Users : Txs(receipts'[v]) \subseteq Txs(receipts[v])
  <2>1. \A y \in receipts'[u] : \E x \in receipts[u] : y.tx = x.tx
    <3> SUFFICES ASSUME NEW y \in receipts'[u] PROVE \E x \in receipts[u] : y.tx = x.tx
      OBVIOUS
    <3>1. PICK x \in receipts[u] : y = f[x]
      BY <1>11
    <3> QED
      BY <1>10, <3>1
  <2>2. \A x \in receipts[u] : f[x] \in receipts'[u] /\ f[x].tx = x.tx
    BY <1>3, <1>9, <1>10
  <2> QED
    BY <1>9, <2>1, <2>2 DEF TxsGrow, Txs
<1>14. /\ \A at : Cited(at) => ~ ControllerLives(at)
       /\ \A q \in Reqs \ {r} : req[q].pc = "accepted" => req[q].entry.op # "reclaim"
  BY <1>1, OnlyTheMoved DEF Movers
<1>15. \A q \in Reqs \ {r} : req[q].pc = "reclaim_build" => \A rec \in req[q].records :
              ControllerLives(rec.controller) => req[q].receipts \subseteq receipts'[OwnerOf[req[q].wallet]]
  BY <1>14, Zenon DEF Cited, HandlerCites
<1>16. ASSUME NEW q \in Reqs \ {r}, req[q].pc = "accepted", req[q].entry.op = "burn", NEW v \in Users
       PROVE  req[q].tx \notin Txs(receipts'[v])
  BY <1>13, <1>16, AtAccepted
<1>17. Total(Owed(u)') = Total(Owed(u)) + Moved(req[r])
  <2>1. PICK S, T, D : /\ S = Owed(u) /\ T = Owed(u)'
                       /\ D = {x \in receipts[u] : x.tx \in e.receipts}
    OBVIOUS
  <2>2. Amounted(S)
    <3>1. S \subseteq receipts[u] /\ IsFiniteSet(receipts[u])
      BY <1>3, <1>7, <2>1 DEF Owed
    <3>2. IsFiniteSet(S) /\ \A x \in S : x.amount \in Nat
      BY <1>3, <1>7, <3>1, FS_Subset
    <3> QED
      BY <3>2 DEF Amounted
  <2>3. D \subseteq S /\ Total(D) = e.amount
    <3>1. (\A x \in D : x.pending) /\ Total(D) = e.amount
      BY <1>2, <1>3, <2>1, Zenon DEF Due
    <3> QED
      BY <2>1, <3>1 DEF Owed
  <2>4. T = S \ D
    <3>1. T = {y \in receipts'[u] : y.pending}
      BY <2>1 DEF Owed
    <3>2. ASSUME NEW y \in T PROVE y \in S \ D
      <4>1. PICK x \in receipts[u] : y = f[x]
        BY <1>11, <3>1
      <4>2. x.tx \notin e.receipts /\ y = x
        BY <1>10, <3>1, <4>1
      <4> QED
        BY <2>1, <3>1, <4>2 DEF Owed
    <3>3. ASSUME NEW x \in S \ D PROVE x \in T
      <4>1. x \in receipts[u] /\ x.tx \notin e.receipts /\ x.pending
        BY <2>1 DEF Owed
      <4>2. f[x] = x
        BY <1>10, <4>1
      <4>3. x \in receipts'[u]
        BY <1>3, <1>9, <4>1, <4>2
      <4> QED
        BY <3>1, <4>1, <4>3
    <3> QED
      BY <3>2, <3>3
  <2>5. Total(S) = Total(T) + e.amount /\ Total(S) \in Nat /\ Total(T) \in Nat
    BY <2>2, <2>3, <2>4, TotalSplit
  <2>6. Moved(req[r]) = 0 - e.amount
    BY <1>1, <1>2 DEF Moved
  <2> QED
    BY <1>4, <2>1, <2>5, <2>6
<1>18. \A d : EntryInv(d) /\ d.op = "reclaim" /\ Cited(d.record.controller)
                 /\ ControllerLives(d.record.controller) => Due(d)'
  BY <1>14
<1>19. \A q \in Reqs \ {r} : req[q].pc = "accepted" /\ req[q].entry.op = "reclaim"
              => Due(req[q].entry)'
  BY <1>14
<1> QED
  BY <1>1, <1>3, <1>6, <1>12, <1>13, <1>15, <1>16, <1>17, <1>18, <1>19, ReceiptsStep, Zenon

-----------------------------------------------------------------------------
(***************************************************************************)
(* The chain takes a transaction.                                          *)
(***************************************************************************)
\* An output that a transaction makes, at its place.
Put(a, at) == [at |-> at, role |-> a.role, wallet |-> a.wallet, amount |-> a.amount]

\* The outputs of transaction t.
Placed(N, t) ==
    /\ IsFiniteSet(N)
    /\ \A o \in N : /\ o.at = <<t, 0>> \/ o.at = <<t, 1>>
                    /\ o.role \in Roles /\ o.amount \in Nat
                    /\ o = [at |-> o.at, role |-> o.role, wallet |-> o.wallet, amount |-> o.amount]
    /\ \A o, p \in N : o.at = p.at => o = p
HoldersOf(N) == {o \in N : o.role = "holder"}

\* No outputs,
LEMMA PlacedNone ==
    ASSUME NEW t
    PROVE  OutputsAt(<<>>, t) = {} /\ Placed({}, t) /\ HoldersOf({}) = {}
  BY FS_EmptySet DEF OutputsAt, Placed, HoldersOf

\* one,
LEMMA PlacedOne ==
    ASSUME NEW t \in Nat, NEW a, a.role \in Roles, a.amount \in Nat
    PROVE  OutputsAt(<<a>>, t) = {Put(a, <<t, 0>>)} /\ Placed({Put(a, <<t, 0>>)}, t)
<1>1. OutputsAt(<<a>>, t) = {Put(a, <<t, 0>>)}
  BY DEF OutputsAt, Put
<1>2. IsFiniteSet({Put(a, <<t, 0>>)})
  BY FS_Singleton
<1> QED
  BY <1>1, <1>2 DEF Placed, Put

\* or two.
LEMMA PlacedTwo ==
    ASSUME NEW t \in Nat, NEW a, a.role \in Roles, a.amount \in Nat,
           NEW b, b.role \in Roles, b.amount \in Nat
    PROVE  /\ OutputsAt(<<a, b>>, t) = {Put(a, <<t, 0>>), Put(b, <<t, 1>>)}
           /\ Placed({Put(a, <<t, 0>>), Put(b, <<t, 1>>)}, t)
           /\ Put(a, <<t, 0>>) # Put(b, <<t, 1>>)
<1>1. OutputsAt(<<a, b>>, t) = {Put(a, <<t, 0>>), Put(b, <<t, 1>>)}
  <2>1. DOMAIN <<a, b>> = {1, 2}
    OBVIOUS
  <2>2. OutputsAt(<<a, b>>, t) =
          {[at |-> <<t, i - 1>>, role |-> <<a, b>>[i].role, wallet |-> <<a, b>>[i].wallet,
            amount |-> <<a, b>>[i].amount] : i \in {1, 2}}
    BY <2>1, Zenon DEF OutputsAt
  <2> QED
    BY <2>2 DEF Put
<1>2. IsFiniteSet({Put(a, <<t, 0>>), Put(b, <<t, 1>>)})
  BY FS_Singleton, FS_AddElement, IsFiniteSet({Put(a, <<t, 0>>)}),
     {Put(a, <<t, 0>>), Put(b, <<t, 1>>)} = {Put(a, <<t, 0>>)} \cup {Put(b, <<t, 1>>)}
<1>3. <<t, 0>> # <<t, 1>> /\ Put(a, <<t, 0>>).at = <<t, 0>> /\ Put(b, <<t, 1>>).at = <<t, 1>>
  BY DEF Put
<1> QED
  BY <1>1, <1>2, <1>3 DEF Placed, Put

\* The supply that a transaction of the controller leaves, and what it gives to
\* a holder.
Supplied(e) ==
    CASE e.op = "deploy" -> e.amount
      [] e.op = "issue" -> e.record.issued + e.amount
      [] e.op = "change_owner" -> e.record.issued
      [] e.op = "reclaim" -> e.record.issued - e.amount
Given(e) == IF e.op \in {"deploy", "issue"} THEN e.amount ELSE 0

\* What a transaction that moves the controller makes.
LEMMA MoverOutputs ==
    ASSUME NEW e, EntryInv(e), e.op \in Movers, NEW t \in Nat
    PROVE  /\ Placed(OutputsAt(e.outs, t), t)
           /\ \E c \in OutputsAt(e.outs, t) :
                 /\ c.at = <<t, 0>> /\ c.role = "controller" /\ c.amount = Supplied(e)
                 /\ \A o \in OutputsAt(e.outs, t) : o.role = "controller" => o = c
           /\ Total(HoldersOf(OutputsAt(e.outs, t))) = Given(e)
<1>1. e.amount \in Nat /\ e.record.issued \in Nat
  BY DEF EntryInv, RecordOK
<1>2. ASSUME NEW w, NEW n \in Nat, n = Supplied(e), Given(e) = 0, e.outs = <<Out("controller", w, n)>>
      PROVE  /\ Placed(OutputsAt(e.outs, t), t)
             /\ \E c \in OutputsAt(e.outs, t) :
                 /\ c.at = <<t, 0>> /\ c.role = "controller" /\ c.amount = Supplied(e)
                 /\ \A o \in OutputsAt(e.outs, t) : o.role = "controller" => o = c
             /\ Total(HoldersOf(OutputsAt(e.outs, t))) = Given(e)
  <2>1. PICK a : a = Out("controller", w, n)
    OBVIOUS
  <2>2. a.role = "controller" /\ a.role \in Roles /\ a.amount = n
    BY <2>1 DEF Out, Roles
  <2>3. PICK c : c = Put(a, <<t, 0>>)
    OBVIOUS
  <2>4. c.at = <<t, 0>> /\ c.role = "controller" /\ c.amount = n
    BY <2>2, <2>3 DEF Put
  <2>5. OutputsAt(e.outs, t) = {c} /\ Placed({c}, t)
    BY <1>2, <2>1, <2>2, <2>3, PlacedOne
  <2>6. HoldersOf({c}) = {}
    BY <2>4 DEF HoldersOf
  <2> QED
    BY <1>2, <2>4, <2>5, <2>6, TotalEmpty
<1>3. ASSUME NEW w, NEW n \in Nat, NEW w2, NEW m \in Nat, n = Supplied(e), m = Given(e),
             e.outs = <<Out("controller", w, n), Out("holder", w2, m)>>
      PROVE  /\ Placed(OutputsAt(e.outs, t), t)
             /\ \E c \in OutputsAt(e.outs, t) :
                 /\ c.at = <<t, 0>> /\ c.role = "controller" /\ c.amount = Supplied(e)
                 /\ \A o \in OutputsAt(e.outs, t) : o.role = "controller" => o = c
             /\ Total(HoldersOf(OutputsAt(e.outs, t))) = Given(e)
  <2>1. PICK a, b : a = Out("controller", w, n) /\ b = Out("holder", w2, m)
    OBVIOUS
  <2>2. /\ a.role = "controller" /\ a.role \in Roles /\ a.amount = n
        /\ b.role = "holder" /\ b.role \in Roles /\ b.amount = m
    BY <2>1 DEF Out, Roles
  <2>3. PICK c, h : c = Put(a, <<t, 0>>) /\ h = Put(b, <<t, 1>>)
    OBVIOUS
  <2>4. /\ c.at = <<t, 0>> /\ c.role = "controller" /\ c.amount = n
        /\ h.role = "holder" /\ h.amount = m
    BY <2>2, <2>3 DEF Put
  <2>5. OutputsAt(e.outs, t) = {c, h} /\ Placed({c, h}, t)
    BY <1>3, <2>1, <2>2, <2>3, PlacedTwo
  <2>6. HoldersOf({c, h}) = {h}
    BY <2>4 DEF HoldersOf
  <2>7. Total({h}) = m
    BY <2>4, TotalOne
  <2> QED
    BY <1>3, <2>4, <2>5, <2>6, <2>7
<1>4. CASE e.op = "deploy"
  <2>1. e.outs = DeployOutputs(e.wallet, e.amount) /\ Supplied(e) = e.amount /\ Given(e) = e.amount
    BY <1>4 DEF EntryInv, Supplied, Given
  <2>2. CASE e.amount = 0
    <3>1. e.outs = <<Out("controller", e.wallet, e.amount)>>
      BY <2>1, <2>2, Joined DEF DeployOutputs
    <3> QED
      BY <1>1, <1>2, <2>1, <2>2, <3>1
  <2>3. CASE e.amount # 0
    <3>1. e.outs = <<Out("controller", e.wallet, e.amount), Out("holder", e.wallet, e.amount)>>
      BY <2>1, <2>3, Joined DEF DeployOutputs
    <3> QED
      BY <1>1, <1>3, <2>1, <3>1
  <2> QED
    BY <2>2, <2>3
<1>5. CASE e.op = "issue"
  <2>1. e.outs = <<Out("controller", e.wallet, e.record.issued + e.amount), Out("holder", e.new, e.amount)>>
    BY <1>5 DEF EntryInv, IssueOutputs
  <2>2. e.record.issued + e.amount = Supplied(e) /\ e.amount = Given(e)
        /\ e.record.issued + e.amount \in Nat
    BY <1>1, <1>5 DEF Supplied, Given
  <2> QED
    BY <1>1, <1>3, <2>1, <2>2
<1>6. CASE e.op = "change_owner"
  <2>1. e.outs = <<Out("controller", e.new, e.record.issued), Out("holder", e.new, 0)>>
    BY <1>6 DEF EntryInv, ChangeOutputs
  <2>2. e.record.issued = Supplied(e) /\ 0 = Given(e)
    BY <1>6 DEF Supplied, Given
  <2> QED
    BY <1>1, <1>3, <2>1, <2>2
<1>7. CASE e.op = "reclaim"
  <2>1. e.outs = <<Out("controller", e.wallet, e.record.issued - e.amount)>> /\ e.amount <= e.record.issued
    BY <1>7 DEF EntryInv, ReclaimOutputs
  <2>2. e.record.issued - e.amount = Supplied(e) /\ 0 = Given(e) /\ e.record.issued - e.amount \in Nat
    BY <1>1, <1>7, <2>1 DEF Supplied, Given
  <2> QED
    BY <1>2, <2>1, <2>2
<1> QED
  BY <1>4, <1>5, <1>6, <1>7 DEF Movers

\* What a transfer or a burn makes.
LEMMA HolderOutputs ==
    ASSUME NEW e, EntryInv(e), e.op \in {"transfer", "burn"}, NEW t \in Nat
    PROVE  \E S : /\ LotsOK(S) /\ e.spends = {x.holder : x \in S} /\ Total(S) \in Nat
                  /\ Placed(OutputsAt(e.outs, t), t)
                  /\ \A o \in OutputsAt(e.outs, t) : o.role = "holder"
                  /\ Total(OutputsAt(e.outs, t))
                       = IF e.op = "transfer" THEN Total(S) ELSE Total(S) - e.amount
                  /\ Total(S) - e.amount \in Nat
<1>1. e.amount \in Nat
  BY DEF EntryInv
<1>2. PICK S : /\ LotsOK(S) /\ e.spends = {x.holder : x \in S}
               /\ Total(S) - e.amount \in Nat
               /\ e.op = "transfer" => e.outs = TransferOutputs(e.wallet, e.new, Total(S), e.amount)
               /\ e.op = "burn" => e.outs = BurnOutputs(e.wallet, Total(S), e.amount)
  <2>1. CASE e.op = "transfer"
    <3>1. e.op # "burn"
      BY <2>1
    <3> QED
      BY <2>1, <3>1, Zenon DEF EntryInv
  <2>2. CASE e.op = "burn"
    <3>1. e.op # "transfer"
      BY <2>2
    <3> QED
      BY <2>2, <3>1, Zenon DEF EntryInv
  <2> QED
    BY <2>1, <2>2
<1>3. PICK m : m = Total(S) - e.amount
  OBVIOUS
<1>4. Total(S) \in Nat
  <2>1. Amounted(S)
    BY <1>2 DEF LotsOK, Amounted
  <2> QED
    BY <2>1, TotalSplit, {} \in SUBSET S
<1>5. m \in Nat /\ Total(S) = m + e.amount
  BY <1>1, <1>2, <1>3, <1>4
<1>6. PICK a, b : a = Out("holder", e.new, e.amount) /\ b = Out("holder", e.wallet, m)
  OBVIOUS
<1>7. /\ a.role = "holder" /\ a.role \in Roles /\ a.amount = e.amount
      /\ b.role = "holder" /\ b.role \in Roles /\ b.amount = m
  BY <1>6 DEF Out, Roles
<1>8. /\ m = 0 => ChangeOutput(e.wallet, m) = <<>>
      /\ m # 0 => ChangeOutput(e.wallet, m) = <<b>>
  BY <1>6 DEF ChangeOutput
<1>9. PICK N : N = OutputsAt(e.outs, t)
  OBVIOUS
<1>10. /\ Placed(N, t) /\ (\A o \in N : o.role = "holder")
       /\ Total(N) = IF e.op = "transfer" THEN Total(S) ELSE Total(S) - e.amount
  <2>1. CASE e.op = "transfer" /\ m = 0
    <3>1. e.outs = <<a>>
      BY <1>2, <1>3, <1>6, <1>8, <2>1, Joined DEF TransferOutputs
    <3>2. PICK h : h = Put(a, <<t, 0>>)
      OBVIOUS
    <3>3. h.role = "holder" /\ h.amount = e.amount
      BY <1>7, <3>2 DEF Put
    <3>4. N = {h} /\ Placed({h}, t)
      BY <1>1, <1>7, <1>9, <3>1, <3>2, PlacedOne
    <3>5. Total({h}) = e.amount
      BY <1>1, <3>3, TotalOne
    <3> QED
      BY <1>1, <1>4, <1>5, <2>1, <3>3, <3>4, <3>5
  <2>2. CASE e.op = "transfer" /\ m # 0
    <3>1. e.outs = <<a, b>>
      BY <1>2, <1>3, <1>6, <1>8, <2>2, Joined DEF TransferOutputs
    <3>2. PICK h, k : h = Put(a, <<t, 0>>) /\ k = Put(b, <<t, 1>>)
      OBVIOUS
    <3>3. h.role = "holder" /\ h.amount = e.amount /\ k.role = "holder" /\ k.amount = m
      BY <1>7, <3>2 DEF Put
    <3>4. N = {h, k} /\ Placed({h, k}, t) /\ h # k
      BY <1>1, <1>5, <1>7, <1>9, <3>1, <3>2, PlacedTwo
    <3>5. Total({h}) = e.amount /\ Amounted({h}) /\ Total({k}) = m /\ Amounted({k})
      BY <1>1, <1>5, <3>3, TotalOne
    <3>6. {h, k} = {h} \cup {k} /\ {h} \cap {k} = {}
      BY <3>4
    <3>7. Total({h, k}) = e.amount + m
      BY <3>5, <3>6, TotalUnion
    <3> QED
      BY <1>1, <1>4, <1>5, <2>2, <3>3, <3>4, <3>7
  <2>3. CASE e.op = "burn" /\ m = 0
    <3>1. e.outs = <<>>
      BY <1>2, <1>3, <1>8, <2>3 DEF BurnOutputs
    <3>2. N = {} /\ Placed({}, t)
      BY <1>9, <3>1, PlacedNone
    <3> QED
      BY <1>1, <1>4, <1>5, <2>3, <3>2, TotalEmpty
  <2>4. CASE e.op = "burn" /\ m # 0
    <3>1. e.outs = <<b>>
      BY <1>2, <1>3, <1>8, <2>4 DEF BurnOutputs
    <3>2. PICK h : h = Put(b, <<t, 0>>)
      OBVIOUS
    <3>3. h.role = "holder" /\ h.amount = m
      BY <1>7, <3>2 DEF Put
    <3>4. N = {h} /\ Placed({h}, t)
      BY <1>5, <1>7, <1>9, <3>1, <3>2, PlacedOne
    <3>5. Total({h}) = m
      BY <1>5, <3>3, TotalOne
    <3> QED
      BY <1>1, <1>4, <1>5, <2>4, <3>3, <3>4, <3>5
  <2> QED
    BY <2>1, <2>2, <2>3, <2>4
<1> QED
  BY <1>2, <1>4, <1>9, <1>10, Zenon

\* A place that is cited is one of the chain.
LEMMA CitedBefore ==
    ASSUME SupplyInvariant, NEW at, Cited(at)
    PROVE  Outpoint(at)
<1>1. CASE \E u \in Users : \E rec \in store[u] : rec.controller = at
  BY <1>1 DEF SupplyInvariant, Structure, FilesOK, FileOK, RecordOK
<1>2. CASE \E e \in cache : e.record.controller = at
  BY <1>2 DEF SupplyInvariant, Structure, EntryInv, RecordOK
<1>3. CASE \E q \in Reqs : HandlerCites(req[q], at)
  <2>1. PICK q \in Reqs : HandlerCites(req[q], at)
    BY <1>3
  <2>2. CASE req[q].pc \in Stages /\ req[q].entry.record.controller = at
    BY <2>2, AtStage DEF EntryInv, RecordOK
  <2>3. CASE req[q].pc \in {"issued", "verified"} /\ at = <<req[q].tx, 0>>
    BY <2>3, AtStage DEF Stages
  <2>4. CASE req[q].pc = "reclaim_build" /\ \E rec \in req[q].records : rec.controller = at
    <3>1. FileOK(req[q].records)
      BY <2>4, AtSnapshot DEF SnapshotOK
    <3> QED
      BY <2>4, <3>1 DEF FileOK, RecordOK
  <2> QED
    BY <2>1, <2>2, <2>3, <2>4 DEF HandlerCites
<1> QED
  BY <1>1, <1>2, <1>3 DEF Cited

\* Outputs that stand for others, one for one.
LEMMA TotalOfImage ==
    ASSUME NEW S, NEW T, NEW f \in [S -> T], Amounted(S),
           \A x \in S : f[x].amount = x.amount,
           \A x, y \in S : f[x] = f[y] => x = y,
           \A t \in T : \E x \in S : t = f[x]
    PROVE  Amounted(T) /\ Total(T) = Total(S)
<1>1. \A x \in S : f[x] \in T /\ f[x].amount = x.amount
  OBVIOUS
<1> QED
  BY <1>1, TotalMatched

\* The outputs that a transfer or a burn spends, all unspent, are what it was built on.
LEMMA SpentHolders ==
    ASSUME SupplyInvariant, NEW S, LotsOK(S), NEW spends, spends = {x.holder : x \in S},
           AllUnspent(spends), NEW X, X = {o \in live : o.at \in spends}
    PROVE  /\ X \subseteq Holders /\ Total(X) = Total(S)
           /\ \A c \in Controllers : c \notin X
<1>1. PICK f : f = [x \in S |-> CHOOSE o \in live : o.at = x.holder]
  OBVIOUS
<1>2. /\ \A o, p \in live : o.at = p.at => o = p
      /\ \A o \in live : o.role \in Roles
  BY DEF SupplyInvariant, Structure, ChainOK
<1>3. ASSUME NEW x \in S
      PROVE  f[x] \in X /\ f[x].at = x.holder /\ f[x].role = "holder" /\ f[x].amount = x.amount
  <2>1. x.holder \in spends
    OBVIOUS
  <2>2. \E o \in live : o.at = x.holder
    BY <2>1 DEF AllUnspent
  <2>3. f[x] \in live /\ f[x].at = x.holder
    BY <1>1, <2>2
  <2>4. Names(x.holder, "holder", x.amount)
    BY DEF LotsOK
  <2> QED
    BY <2>1, <2>3, <2>4 DEF Names
<1>4. \A x, y \in S : f[x] = f[y] => x = y
  <2> SUFFICES ASSUME NEW x \in S, NEW y \in S, f[x] = f[y] PROVE x = y
    OBVIOUS
  <2>1. x.holder = y.holder
    BY <1>3
  <2> QED
    BY <2>1 DEF LotsOK
<1>5. ASSUME NEW o \in X PROVE \E x \in S : o = f[x]
  <2>1. PICK x \in S : o.at = x.holder
    OBVIOUS
  <2>2. f[x].at = o.at /\ f[x] \in live /\ o \in live
    BY <1>3, <2>1
  <2> QED
    BY <1>2, <2>2
<1>6. Amounted(S)
  BY DEF LotsOK, Amounted
<1>7. Total(X) = Total(S)
  <2>1. \A x \in S : f[x] \in X /\ f[x].amount = x.amount
    BY <1>3
  <2> QED
    <3>1. \A o \in X : \E x \in S : o = f[x]
      BY <1>5
    <3>2. \A x, y \in S : f[x] = f[y] => x = y
      BY <1>4
    <3>3. f \in [S -> X] /\ Amounted(S) /\ \A x \in S : f[x].amount = x.amount
      BY <1>1, <1>6, <2>1
    <3> QED
      BY <3>1, <3>2, <3>3, TotalOfImage
<1>8. \A o \in X : o.role = "holder"
  BY <1>3, <1>5
<1> QED
  BY <1>7, <1>8 DEF Holders, Controllers

\* The controller that a build spends, unspent, is the one controller.
LEMMA SpentController ==
    ASSUME SupplyInvariant, NEW e, EntryInv(e), e.op \in Movers \ {"deploy"},
           AllUnspent(e.spends), NEW X, X = {o \in live : o.at \in e.spends}
    PROVE  /\ ControllerLives(e.record.controller)
           /\ \E c \in Controllers : /\ X = {c} /\ Controllers = {c}
                                     /\ c.at = e.record.controller /\ c.amount = e.record.issued
<1>1. /\ \A o, p \in live : o.at = p.at => o = p
      /\ \A c, d \in Controllers : c = d
  BY DEF SupplyInvariant, Structure, ChainOK
<1>2. e.spends = {e.record.controller} /\ Names(e.record.controller, "controller", e.record.issued)
  BY DEF EntryInv
<1>3. PICK o \in live : o.at = e.record.controller
  BY <1>2 DEF AllUnspent
<1>4. o.role = "controller" /\ o.amount = e.record.issued /\ o \in Controllers
  BY <1>2, <1>3 DEF Names, Controllers
<1>5. X = {o} /\ Controllers = {o}
  BY <1>1, <1>2, <1>3, <1>4
<1> QED
  BY <1>3, <1>4, <1>5 DEF ControllerLives

\* How the chain takes the transaction of handler r.
AcceptedAs(r, e, t, N, X, h) ==
    /\ e = req[r].entry /\ t = ntx + 1 /\ N = OutputsAt(e.outs, t)
    /\ X = {o \in live : o.at \in e.spends} /\ h = [pc |-> "accepted", tx |-> t, entry |-> e]
    /\ req[r].pc = "checked" /\ EntryInv(e) /\ Cited(e.record.controller) /\ AllUnspent(e.spends)
    /\ e.op = "deploy" => ntx = 0
    /\ live' = (live \ X) \cup N /\ ntx' = t /\ ntx \in Nat /\ t \in Nat
    /\ store' = store /\ receipts' = receipts /\ cutOff' = cutOff /\ cache' \subseteq cache
    /\ req' = [req EXCEPT ![r] = h]
    /\ Moved(req[r]) = 0 /\ e.amount \in Nat /\ User(e) \in Users /\ cutOff \in Nat

\* The structure after the chain took a transaction, but for what is asked here.
LEMMA AcceptStructure ==
    ASSUME SupplyInvariant, NEW r \in Reqs, NEW e, NEW t, NEW N, NEW X, NEW h,
           AcceptedAs(r, e, t, N, X, h), Placed(N, t),
           \A c, d \in Controllers' : c = d,
           \A q \in Reqs \ {r} : Moving(req[q]) =>
              \E o \in live \ X : o.at = <<req[q].tx, 0>> /\ o.role = "controller",
           e.op \in Movers => \E o \in N : o.at = <<t, 0>> /\ o.role = "controller",
           e.op = "reclaim" => Due(e)
    PROVE  /\ Structure'
           /\ \A at : Cited(at)' => Cited(at)
           /\ \A q \in Reqs : req'[q] = IF q = r THEN h ELSE req[q]
<1>0. /\ e = req[r].entry /\ t = ntx + 1 /\ h = [pc |-> "accepted", tx |-> t, entry |-> e]
      /\ req[r].pc = "checked" /\ EntryInv(e) /\ Cited(e.record.controller)
      /\ live' = (live \ X) \cup N /\ ntx' = t /\ store' = store /\ receipts' = receipts
      /\ cache' \subseteq cache /\ req' = [req EXCEPT ![r] = h]
  BY Zenon DEF AcceptedAs
<1>1. /\ ntx \in Nat /\ IsFiniteSet(live)
      /\ \A o \in live : /\ o.at \in Nat \X Nat /\ o.at[1] \in 1..ntx
                         /\ o.role \in Roles /\ o.amount \in Nat
                         /\ o = [at |-> o.at, role |-> o.role, wallet |-> o.wallet, amount |-> o.amount]
      /\ \A o, p \in live : o.at = p.at => o = p
  BY DEF SupplyInvariant, Structure, ChainOK
<1>2. EntryInv(e) /\ Cited(e.record.controller)
  BY <1>0
<1>3. t \in Nat /\ t > ntx /\ t # 0 /\ ntx <= t
  BY <1>0, <1>1
<1>4. ChainOK'
  <2>1. IsFiniteSet(live')
    BY <1>0, <1>1, FS_Difference, FS_Union DEF Placed
  <2>2. \A o \in live' : /\ o.at \in Nat \X Nat /\ o.at[1] \in 1..ntx'
                         /\ o.role \in Roles /\ o.amount \in Nat
                         /\ o = [at |-> o.at, role |-> o.role, wallet |-> o.wallet, amount |-> o.amount]
    <3>1. ASSUME NEW o \in N PROVE o.at \in Nat \X Nat /\ o.at[1] \in 1..ntx'
      <4>1. o.at = <<t, 0>> \/ o.at = <<t, 1>>
        BY <1>0 DEF Placed
      <4>2. t \in 1..ntx'
        BY <1>0, <1>3
      <4>3. <<t, 0>> \in Nat \X Nat /\ <<t, 1>> \in Nat \X Nat /\ <<t, 0>>[1] = t /\ <<t, 1>>[1] = t
        BY <1>0, <1>3
      <4> QED
        BY <1>0, <4>1, <4>2, <4>3, Zenon
    <3>2. ASSUME NEW o \in live PROVE o.at \in Nat \X Nat /\ o.at[1] \in 1..ntx'
      BY <1>0, <1>1, <1>3
    <3> QED
      BY <1>0, <1>1, <3>1, <3>2 DEF Placed
  <2>3. \A o, p \in live' : o.at = p.at => o = p
    <3>1. \A o \in live, p \in N : o.at # p.at
      BY <1>0, <1>1, <1>3 DEF Placed
    <3> QED
      BY <1>0, <1>1, <3>1 DEF Placed
  <2> QED
    BY <1>0, <1>3, <2>1, <2>2, <2>3 DEF ChainOK
<1>5. Grows /\ TxsGrow
  <2>1. \A o \in N : o.at[1] > ntx
    BY <1>0, <1>3 DEF Placed
  <2> QED
    BY <1>0, <1>1, <1>3, <2>1 DEF Grows, TxsGrow
<1>6. /\ \A q \in Reqs : req'[q] = IF q = r THEN h ELSE req[q]
      /\ req' = [q \in Reqs |-> req'[q]]
  BY <1>0 DEF SupplyInvariant, Structure, HandlersOK
<1>7. FilesOK' /\ ReceiptsOK'
  <2>1. store' = [u \in Users |-> store'[u]] /\ \A u \in Users : FileOK(store'[u])
    BY <1>0 DEF SupplyInvariant, Structure, FilesOK
  <2>2. FilesOK'
    BY <1>0, <1>5, <2>1, FilesWritten
  <2>3. ReceiptsOK'
    <3>1. 1..ntx \subseteq 1..ntx'
      BY <1>0, <1>1, <1>3
    <3> QED
      BY <1>0, <3>1 DEF SupplyInvariant, Structure, ReceiptsOK
  <2> QED
    BY <1>0, <2>2, <2>3
<1>8. ASSUME NEW at, Cited(at)' PROVE Cited(at)
  <2>1. (\E q \in Reqs : HandlerCites(req[q], at)') <=> \E q \in Reqs : HandlerCites(req'[q], at)
    BY <1>0, Zenon DEF HandlerCites
  <2>2. CASE \E q \in Reqs : HandlerCites(req'[q], at)
    <3>1. PICK q \in Reqs : HandlerCites(req'[q], at)
      BY <1>0, <2>2
    <3>2. CASE q = r
      <4>1. HandlerCites(h, at)
        BY <1>0, <1>6, <3>1, <3>2
      <4>2. at = e.record.controller
        BY <1>0, <4>1 DEF HandlerCites
      <4> QED
        BY <1>0, <1>2, <4>2
    <3>3. CASE q # r
      <4>1. HandlerCites(req[q], at)
        BY <1>0, <1>6, <3>1, <3>3
      <4> QED
        BY <1>0, <4>1, Zenon DEF Cited
    <3> QED
      BY <1>0, <3>2, <3>3
  <2> QED
    BY <1>0, <1>8, <2>1, <2>2, Zenon DEF Cited
<1>9. \A d : EntryInv(d) => EntryInv(d)'
  <2> SUFFICES ASSUME NEW d, EntryInv(d) PROVE EntryInv(d)'
    BY <1>0
  <2>1. d.op = "reclaim" /\ ControllerLives(d.record.controller)' => Due(d)'
    <3>1. ControllerLives(d.record.controller)' => ControllerLives(d.record.controller)
      BY <1>5, OutpointLater DEF EntryInv, RecordOK
    <3>2. Due(d)' <=> Due(d)
      BY <1>0, DueSame
    <3> QED
      BY <1>0, <3>1, <3>2, Zenon DEF EntryInv
  <2> QED
    BY <1>5, <2>1, EntryLater
<1>10. ASSUME NEW q \in Reqs PROVE HandlerInv(req[q])'
  <2>1. PICK k : k = req'[q]
    BY <1>0
  <2>2. CASE q # r
    <3>1. k = req[q] /\ HandlerInv(k)
      BY <1>0, <1>6, <2>1, <2>2 DEF SupplyInvariant, Structure, HandlersOK
    <3>2. k.pc \in Stages => EntryInv(k.entry)
      BY <1>0, <3>1, AtStage
    <3>3. k.pc \in Stages /\ k.entry.op = "reclaim" /\ ControllerLives(k.entry.record.controller)'
              => Due(k.entry)'
      BY <1>0, <1>9, <3>2, Zenon DEF EntryInv
    <3>4. k.pc = "reclaim_build" => \A rec \in k.records :
              ControllerLives(rec.controller)' => k.receipts \subseteq receipts'[OwnerOf[k.wallet]]
      <4> SUFFICES ASSUME k.pc = "reclaim_build", NEW rec \in k.records, ControllerLives(rec.controller)'
                   PROVE  k.receipts \subseteq receipts'[OwnerOf[k.wallet]]
        BY <1>0
      <4>1. SnapshotOK(k)
        BY <1>0, <3>1, AtSnapshot
      <4>2. Outpoint(rec.controller)
        BY <1>0, <4>1 DEF SnapshotOK, FileOK, RecordOK
      <4>3. ControllerLives(rec.controller)
        BY <1>5, <4>2, OutpointLater
      <4> QED
        BY <1>0, <4>1, <4>3 DEF SnapshotOK
    <3>5. Moving(k) => /\ \E o \in live' : o.at = <<k.tx, 0>> /\ o.role = "controller"
                       /\ ~ Cited(<<k.tx, 0>>)'
      <4>1. Moving(k) => ~ Cited(<<k.tx, 0>>)
        BY <1>0, <3>1, AtAccepted DEF Moving
      <4> QED
        BY <1>0, <1>8, <2>2, <3>1, <4>1
    <3>6. k.pc = "accepted" /\ k.entry.op = "burn" => \A v \in Users : k.tx \notin Txs(receipts'[v])
      BY <1>0, <3>1, AtAccepted
    <3>7. k.pc = "accepted" /\ k.entry.op = "reclaim" => Due(k.entry)'
      <4>1. k.pc = "accepted" /\ k.entry.op = "reclaim" => Due(k.entry)
        BY <1>0, <3>1, AtAccepted
      <4>2. Due(k.entry)' <=> Due(k.entry)
        BY <1>0, DueSame
      <4> QED
        BY <1>0, <4>1, <4>2
    <3>8. HandlerInv(k)'
      BY <1>5, <3>1, <3>3, <3>4, <3>5, <3>6, <3>7, HandlerLater
    <3> QED
      BY <1>0, <2>1, <3>8
  <2>3. CASE q = r
    <3>1. k = h
      BY <1>0, <1>6, <2>1, <2>3
    <3>2. EntryInv(e)'
      BY <1>0, <1>2, <1>9
    <3>3. Moving(h) => /\ \E o \in live' : o.at = <<h.tx, 0>> /\ o.role = "controller"
                       /\ ~ Cited(<<h.tx, 0>>)'
      <4> SUFFICES ASSUME Moving(h)
                   PROVE  /\ \E o \in live' : o.at = <<t, 0>> /\ o.role = "controller"
                          /\ ~ Cited(<<t, 0>>)'
        BY <1>0
      <4>1. ~ Outpoint(<<t, 0>>)
        BY <1>0, <1>1, <1>3 DEF Outpoint
      <4>2. ~ Cited(<<t, 0>>)
        BY <1>0, <4>1, CitedBefore
      <4> QED
        BY <1>0, <1>8, <4>2 DEF Moving
    <3>4. \A u \in Users : t \notin Txs(receipts'[u])
      BY <1>0, <1>1, <1>3 DEF SupplyInvariant, Structure, ReceiptsOK, Txs
    <3>5. e.op = "reclaim" => Due(e)'
      BY <1>0, DueSame
    <3>6. HandlerInv(h)'
      <4>1. h.pc = "accepted" /\ h.tx = t /\ h.entry = e /\ h.pc \in Stages
        BY <1>0 DEF Stages
      <4> QED
        BY <1>0, <1>3, <3>2, <3>3, <3>4, <3>5, <4>1 DEF HandlerInv, Moving
    <3> QED
      BY <1>0, <2>1, <3>1, <3>6
  <2> QED
    BY <1>0, <2>2, <2>3
<1>11. HandlersOK'
  <2>1. ASSUME NEW s \in Reqs, NEW q \in Reqs, s # q, req'[s].pc = "accepted", req'[q].pc = "accepted"
        PROVE  req'[s].tx # req'[q].tx
    <3>1. \A p \in Reqs : p # r /\ req'[p].pc = "accepted" =>
             req[p].pc = "accepted" /\ req[p].tx \in Nat /\ req[p].tx <= ntx /\ req'[p] = req[p]
      BY <1>0, <1>6, AtStage DEF Stages
    <3>2. \A a, b \in Reqs :
             a # b /\ req[a].pc = "accepted" /\ req[b].pc = "accepted" => req[a].tx # req[b].tx
      BY <1>0 DEF SupplyInvariant, Structure, HandlersOK
    <3>3. req'[r].tx = t
      BY <1>0, <1>6
    <3> QED
      BY <1>0, <1>1, <1>3, <2>1, <3>1, <3>2, <3>3
  <2> QED
    BY <1>0, <1>6, <1>10, <2>1, Zenon DEF HandlersOK
<1>12. \A d \in cache' : EntryInv(d)'
  BY <1>0, <1>9 DEF SupplyInvariant, Structure
<1> QED
  BY <1>0, <1>4, <1>6, <1>7, <1>8, <1>11, <1>12, Zenon DEF Structure

\* Nothing but zeros.
LEMMA SumZero ==
    ASSUME NEW v, NEW S, IsFiniteSet(S), \A x \in S : v[x] = 0
    PROVE  Sum(v, S) = 0
<1> DEFINE G == {R \in SUBSET S : Sum(v, R) = 0}
<1>1. ASSUME NEW R \in SUBSET S, \A x \in R : R \ {x} \in G PROVE R \in G
  <2>1. CASE R = {}
    BY <2>1, SumEmpty
  <2>2. CASE R # {}
    <3>1. PICK x \in R : TRUE
      BY <2>2
    <3>2. Numbers(v, R)
      BY FS_Subset DEF Numbers
    <3>3. Sum(v, R) = Sum(v, R \ {x}) + v[x] /\ Sum(v, R \ {x}) \in Int
      BY <3>2, SumRemove
    <3>4. Sum(v, R \ {x}) = 0
      BY <1>1
    <3> QED
      BY <3>3, <3>4
  <2> QED
    BY <2>1, <2>2
<1>2. \A R \in SUBSET S : R \in G
  <2> HIDE DEF G
  <2> QED
    BY <1>1, SubsetInduction
<1> QED
  BY <1>2

\* What is pending, when nobody is taking any of it off the supply.
LEMMA PendingCovers ==
    ASSUME Structure, \A q \in Reqs : Moved(req[q]) >= 0, NEW u \in Users
    PROVE  Pending \in Int /\ Pending >= Total(Owed(u)) /\ Total(Owed(u)) \in Nat
<1>1. PendingAddsUp
  BY PendingIs DEF Structure
<1>2. PICK v, x : v = Owings /\ x = Moves
  OBVIOUS
<1>3. /\ Numbers(v, Users) /\ Numbers(x, Reqs) /\ Pending = Sum(v, Users) + Sum(x, Reqs)
      /\ \A t \in Users : v[t] = Total(Owed(t)) /\ Total(Owed(t)) \in Nat
      /\ \A q \in Reqs : x[q] = Moved(req[q])
  BY <1>1, <1>2 DEF PendingAddsUp, Owings, Moves
<1>4. Sum(x, Reqs) \in Nat
  BY <1>3, SumBounds
<1>5. /\ Sum(v, Users) = Sum(v, Users \ {u}) + v[u]
      /\ Sum(v, Users) \in Int /\ Sum(v, Users \ {u}) \in Int /\ v[u] \in Int
  BY <1>3, SumRemove
<1>6. Sum(v, Users \ {u}) \in Nat
  BY <1>3, SumBounds
<1> QED
  BY <1>3, <1>4, <1>5, <1>6

\* Nothing is pending where there are no receipts.
LEMMA PendingNone ==
    ASSUME Structure, \A q \in Reqs : Moved(req[q]) = 0, \A u \in Users : receipts[u] = {}
    PROVE  Pending = 0
<1>1. PendingAddsUp
  BY PendingIs DEF Structure
<1>2. PICK v, x : v = Owings /\ x = Moves
  OBVIOUS
<1>3. /\ Numbers(v, Users) /\ Numbers(x, Reqs) /\ Pending = Sum(v, Users) + Sum(x, Reqs)
      /\ \A t \in Users : v[t] = Total(Owed(t))
      /\ \A q \in Reqs : x[q] = Moved(req[q])
  BY <1>1, <1>2 DEF PendingAddsUp, Owings, Moves
<1>4. \A t \in Users : v[t] = 0
  <2>1. \A t \in Users : Owed(t) = {}
    BY DEF Owed
  <2> QED
    BY <1>3, <2>1, TotalEmpty
<1>5. Sum(v, Users) = 0 /\ Sum(x, Reqs) = 0
  BY <1>3, <1>4, SumZero DEF Numbers
<1> QED
  BY <1>3, <1>5

\* The handlers are gone.
LEMMA PendingDrops ==
    ASSUME Structure, Structure', receipts' = receipts, \A q \in Reqs : Moved(req'[q]) = 0
    PROVE  /\ Pending \in Int /\ Pending' \in Int
           /\ (\A q \in Reqs : Moved(req[q]) >= 0) => Pending' <= Pending
           /\ (\A q \in Reqs : Moved(req[q]) = 0) => Pending' = Pending
<1>1. PendingAddsUp /\ PendingAddsUp'
  BY PendingBoth
<1>2. PICK v, x, y : v = Owings /\ x = Moves /\ y = Moves'
  OBVIOUS
<1>3. Owings' = Owings
  BY Zenon DEF Owings, Owed
<1>4. /\ Numbers(v, Users) /\ Numbers(x, Reqs) /\ Numbers(y, Reqs)
      /\ Pending = Sum(v, Users) + Sum(x, Reqs)
      /\ Pending' = Sum(v, Users) + Sum(y, Reqs)
      /\ Sum(v, Users) \in Nat /\ Sum(x, Reqs) \in Int
  BY <1>1, <1>2, <1>3, Zenon DEF PendingAddsUp
<1>5. \A q \in Reqs : x[q] = Moved(req[q]) /\ y[q] = Moved(req'[q])
  BY <1>2 DEF Moves
<1>6. Sum(y, Reqs) = 0
  BY <1>4, <1>5, SumZero DEF Numbers
<1>7. (\A q \in Reqs : Moved(req[q]) >= 0) => Sum(x, Reqs) \in Nat
  BY <1>4, <1>5, SumBounds
<1>8. (\A q \in Reqs : Moved(req[q]) = 0) => Sum(x, Reqs) = 0
  BY <1>4, <1>5, SumZero DEF Numbers
<1> QED
  BY <1>4, <1>6, <1>7, <1>8

\* The chain takes a transaction: one handler more has burned, or taken off.
LEMMA PendingAccepted ==
    ASSUME Structure, Structure', receipts' = receipts, NEW r \in Reqs, NEW u \in Users,
           \A q \in Reqs \ {r} : Moved(req'[q]) = Moved(req[q])
    PROVE  /\ Pending' = Pending - Moved(req[r]) + Moved(req'[r])
           /\ Pending \in Int /\ Moved(req[r]) \in Int /\ Moved(req'[r]) \in Int
<1>1. /\ Pending' = Pending - Total(Owed(u)) + Total(Owed(u)') - Moved(req[r]) + Moved(req'[r])
      /\ Pending \in Int /\ Total(Owed(u)) \in Nat /\ Total(Owed(u)') \in Nat
      /\ Moved(req[r]) \in Int /\ Moved(req'[r]) \in Int
  BY PendingStep
<1>2. Total(Owed(u)') = Total(Owed(u))
  BY DEF Owed
<1> QED
  BY <1>1, <1>2

\* The chain takes transactions in this way only.
LEMMA AcceptFrame ==
    ASSUME SupplyInvariant, NEW r \in Reqs, Accept(r)
    PROVE  \E e, t, N, X, h : AcceptedAs(r, e, t, N, X, h)
<1>1. PICK e, t : e = req[r].entry /\ t = ntx + 1
  OBVIOUS
<1>2. PICK N, X, h : /\ N = OutputsAt(e.outs, t) /\ X = {o \in live : o.at \in e.spends}
                     /\ h = [pc |-> "accepted", tx |-> t, entry |-> e]
  OBVIOUS
<1>3. /\ req[r].pc = "checked" /\ AllUnspent(e.spends) /\ (e.op = "deploy" => ntx = 0) /\ ntx' = t
      /\ store' = store /\ receipts' = receipts /\ cutOff' = cutOff /\ cache' \subseteq cache
      /\ req' = [req EXCEPT ![r] = h]
  BY <1>1, <1>2 DEF Accept, Become
<1>4. req[r].pc \in Stages
  BY <1>3 DEF Stages
<1>5. EntryInv(e) /\ User(e) \in Users
  BY <1>1, <1>4, AtStage
<1>6. Cited(e.record.controller)
  BY <1>1, <1>4, Zenon DEF Cited, HandlerCites
<1>7. live' = (live \ X) \cup N
  <2>1. live' = {o \in live : o.at \notin e.spends} \cup N
    BY <1>1, <1>2, Zenon DEF Accept
  <2> QED
    BY <1>2, <2>1
<1>8. ntx \in Nat /\ t \in Nat
  BY <1>1 DEF SupplyInvariant, Structure, ChainOK
<1>9. Moved(req[r]) = 0 /\ e.amount \in Nat
  BY <1>3, <1>5 DEF Moved, EntryInv
<1>10. AcceptedAs(r, e, t, N, X, h)
  BY <1>1, <1>2, <1>3, <1>5, <1>6, <1>7, <1>8, <1>9, Zenon DEF AcceptedAs, SupplyInvariant
<1> QED
  BY <1>10, Zenon

\* Only a supply update takes anything off what is pending.
LEMMA MovedIsNat ==
    ASSUME SupplyInvariant, NEW q \in Reqs,
           req[q].pc = "accepted" => req[q].entry.op # "reclaim"
    PROVE  Moved(req[q]) >= 0
<1>1. CASE req[q].pc \notin {"accepted", "issued", "verified"}
  BY <1>1 DEF Moved
<1>2. CASE req[q].pc \in {"issued", "verified"}
  <2>1. req[q].entry.op = "issue"
    BY <1>2, AtStage DEF Stages
  <2> QED
    BY <1>2, <2>1 DEF Moved
<1>3. CASE req[q].pc = "accepted"
  <2>1. req[q].entry.amount \in Nat
    BY <1>3, AtAccepted DEF EntryInv
  <2> QED
    BY <1>3, <2>1 DEF Moved
<1> QED
  BY <1>1, <1>2, <1>3

\* Holders of the chain after the transaction.
LEMMA HoldersAfter ==
    ASSUME SupplyInvariant, NEW t, t = ntx + 1, NEW N, Placed(N, t), NEW X \in SUBSET live,
           live' = (live \ X) \cup N
    PROVE  /\ Total(Holders') = Total(Holders) - Total(HoldersOf(X)) + Total(HoldersOf(N))
           /\ Total(Holders) \in Nat /\ Total(HoldersOf(X)) \in Nat /\ Total(HoldersOf(N)) \in Nat
           /\ Total(HoldersOf(X)) <= Total(Holders)
<1>1. ntx \in Nat /\ IsFiniteSet(live) /\ \A o \in live : o.at[1] \in 1..ntx /\ o.amount \in Nat
  BY DEF SupplyInvariant, Structure, ChainOK
<1>2. IsFiniteSet(N) /\ \A o \in N : o.at[1] = t /\ o.amount \in Nat
  BY DEF Placed
<1>3. PICK S, T, M : S = Holders /\ T = HoldersOf(X) /\ M = HoldersOf(N)
  OBVIOUS
<1>4. S \subseteq live /\ T \subseteq S /\ M \subseteq N
  BY <1>3 DEF Holders, HoldersOf
<1>5. Amounted(S) /\ Amounted(M)
  BY <1>1, <1>2, <1>4, FS_Subset DEF Amounted
<1>6. /\ Amounted(S \ T) /\ Total(S) = Total(S \ T) + Total(T)
      /\ Total(S) \in Nat /\ Total(T) \in Nat /\ Total(S \ T) \in Nat
  BY <1>4, <1>5, TotalSplit
<1>7. (S \ T) \cap M = {}
  <2>1. \A o \in live, p \in N : o # p
    BY <1>1, <1>2
  <2> QED
    BY <1>4, <2>1
<1>8. Total((S \ T) \cup M) = Total(S \ T) + Total(M) /\ Total(M) \in Nat
  BY <1>5, <1>6, <1>7, TotalUnion
<1>9. Holders' = (S \ T) \cup M
  BY <1>3 DEF Holders, HoldersOf
<1> QED
  BY <1>3, <1>6, <1>8, <1>9

\* An issue, a change of owner or a reclaim.
LEMMA AcceptMoverStep ==
    ASSUME SupplyInvariant, NEW r \in Reqs, Accept(r), req[r].entry.op \in Movers \ {"deploy"}
    PROVE  SupplyInvariant'
<1>1. PICK e, t, N, X, h : AcceptedAs(r, e, t, N, X, h)
  BY AcceptFrame
<1>2. /\ e = req[r].entry /\ t = ntx + 1
      /\ N = OutputsAt(e.outs, t) /\ X = {o \in live : o.at \in e.spends}
      /\ h = [pc |-> "accepted", tx |-> t, entry |-> e]
  BY <1>1, Zenon DEF AcceptedAs
<1>3. /\ req[r].pc = "checked" /\ EntryInv(e) /\ Cited(e.record.controller) /\ AllUnspent(e.spends)
      /\ live' = (live \ X) \cup N /\ ntx' = t /\ ntx \in Nat /\ t \in Nat
      /\ store' = store /\ receipts' = receipts /\ cutOff' = cutOff
      /\ Moved(req[r]) = 0 /\ e.amount \in Nat /\ User(e) \in Users /\ cutOff \in Nat
  BY <1>1, Zenon DEF AcceptedAs
<1>4. e.op \in Movers \ {"deploy"} /\ e.op \in Movers
  BY <1>2
<1>5. ControllerLives(e.record.controller)
  BY <1>2, <1>3, <1>4, SpentController
<1>6. PICK o \in Controllers : /\ X = {o} /\ Controllers = {o}
                               /\ o.at = e.record.controller /\ o.amount = e.record.issued
  BY <1>2, <1>3, <1>4, SpentController
<1>7. Placed(N, t) /\ Total(HoldersOf(N)) = Given(e)
  BY <1>2, <1>3, <1>4, MoverOutputs
<1>8. PICK c \in N : /\ c.at = <<t, 0>> /\ c.role = "controller" /\ c.amount = Supplied(e)
                     /\ \A p \in N : p.role = "controller" => p = c
  <2>1. \E c \in OutputsAt(e.outs, t) :
           /\ c.at = <<t, 0>> /\ c.role = "controller" /\ c.amount = Supplied(e)
           /\ \A p \in OutputsAt(e.outs, t) : p.role = "controller" => p = c
    BY <1>3, <1>4, MoverOutputs, Zenon
  <2> QED
    BY <1>2, <2>1, Zenon
<1>9. \A q \in Reqs : req[q].pc = "accepted" => req[q].entry.op \notin Movers
  BY <1>3, <1>5, OnlyTheMoved
<1>10. Controllers' = {c} /\ HoldersOf(X) = {}
  <2>1. \A p \in live \ X : p.role # "controller"
    BY <1>6 DEF Controllers
  <2> QED
    BY <1>3, <1>6, <1>8, <2>1 DEF Controllers, HoldersOf
<1>11. e.op = "reclaim" => Due(e)
  BY <1>3, <1>5 DEF EntryInv
<1>12. /\ Structure' /\ \A at : Cited(at)' => Cited(at)
       /\ \A q \in Reqs : req'[q] = IF q = r THEN h ELSE req[q]
  <2>1. \A a, b \in Controllers' : a = b
    BY <1>10
  <2>2. \A q \in Reqs \ {r} : Moving(req[q]) =>
              \E p \in live \ X : p.at = <<req[q].tx, 0>> /\ p.role = "controller"
    BY <1>9 DEF Moving
  <2>3. \E p \in N : p.at = <<t, 0>> /\ p.role = "controller"
    BY <1>8
  <2> QED
    BY <1>1, <1>7, <1>11, <2>1, <2>2, <2>3, AcceptStructure
<1>13. /\ Pending' = Pending + Moved(h) /\ Pending \in Int /\ Moved(h) \in Int
       /\ e.op = "reclaim" => Moved(h) = 0 - e.amount
       /\ e.op # "reclaim" => Moved(h) = 0
  <2>1. Structure /\ Structure' /\ \A q \in Reqs \ {r} : Moved(req'[q]) = Moved(req[q])
    BY <1>12 DEF SupplyInvariant
  <2>2. /\ Pending' = Pending - Moved(req[r]) + Moved(req'[r])
        /\ Pending \in Int /\ Moved(req[r]) \in Int /\ Moved(req'[r]) \in Int
    BY <1>3, <2>1, PendingAccepted
  <2>3. req'[r] = h
    BY <1>12
  <2>4. /\ e.op = "reclaim" => Moved(h) = 0 - e.amount
        /\ e.op # "reclaim" => Moved(h) = 0
    BY <1>2, <1>4 DEF Moved, Movers
  <2> QED
    BY <1>3, <2>2, <2>3, <2>4
<1>14. e.op = "reclaim" => Pending >= e.amount
  <2> SUFFICES ASSUME e.op = "reclaim" PROVE Pending >= e.amount
    OBVIOUS
  <2>1. PICK u : u = User(e)
    OBVIOUS
  <2>2. \A q \in Reqs : Moved(req[q]) >= 0
    BY <1>9, MovedIsNat DEF Movers
  <2>3. Pending \in Int /\ Pending >= Total(Owed(u)) /\ Total(Owed(u)) \in Nat
    BY <1>3, <2>1, <2>2, PendingCovers DEF SupplyInvariant
  <2>4. PICK D : D = {x \in receipts[u] : x.tx \in e.receipts}
    OBVIOUS
  <2>5. (\A x \in D : x.pending) /\ Total(D) = e.amount
    BY <1>11, <2>1, <2>4, Zenon DEF Due
  <2>6. D \subseteq Owed(u)
    BY <2>4, <2>5 DEF Owed
  <2>7. Amounted(Owed(u))
    <3>1. PendingAddsUp
      BY PendingIs DEF SupplyInvariant, Structure
    <3> QED
      BY <1>3, <2>1, <3>1 DEF PendingAddsUp
  <2>8. Total(D) <= Total(Owed(u))
    <3>1. PICK O : O = Owed(u)
      OBVIOUS
    <3>2. /\ Total(O) \in Nat /\ Total(D) \in Nat /\ Total(O \ D) \in Nat
          /\ Total(O) = Total(O \ D) + Total(D)
      BY <2>6, <2>7, <3>1, TotalSplit
    <3> QED
      BY <3>1, <3>2
  <2> QED
    BY <1>3, <2>3, <2>5, <2>8
<1>15. /\ Total(Holders') = Total(Holders) + Given(e)
       /\ Total(Holders) \in Nat /\ Given(e) \in Nat
  <2>0. X \in SUBSET live
    BY <1>2
  <2>1. /\ Total(Holders') = Total(Holders) - Total(HoldersOf(X)) + Total(HoldersOf(N))
        /\ Total(Holders) \in Nat /\ Total(HoldersOf(N)) \in Nat
    BY <1>2, <1>3, <1>7, <2>0, HoldersAfter, Zenon
  <2>2. Total(HoldersOf(X)) = 0
    BY <1>10, TotalEmpty
  <2> QED
    BY <1>7, <2>1, <2>2
<1>16. /\ o.amount \in Nat /\ o.amount >= Total(Holders) + Pending /\ o.amount >= Total(Holders)
       /\ cutOff = 0 => o.amount = Total(Holders) + Pending
  <2>1. Reachable(o.at)
    BY <1>3, <1>6 DEF Reachable
  <2>2. o.amount \in Nat
    BY <1>6 DEF SupplyInvariant, Structure, ChainOK, Controllers
  <2> QED
    BY <2>1, <2>2, Zenon DEF SupplyInvariant, Balance
<1>17. /\ c.amount >= Total(Holders') /\ c.amount >= Total(Holders') + Pending'
       /\ cutOff = 0 => c.amount = Total(Holders') + Pending'
  <2>1. CASE e.op = "issue"
    <3>1. c.amount = o.amount + e.amount /\ Given(e) = e.amount
      BY <1>6, <1>8, <2>1 DEF Supplied, Given
    <3> QED
      BY <1>3, <1>13, <1>15, <1>16, <2>1, <3>1
  <2>2. CASE e.op = "change_owner"
    <3>1. c.amount = o.amount /\ Given(e) = 0
      BY <1>6, <1>8, <2>2 DEF Supplied, Given
    <3> QED
      BY <1>3, <1>13, <1>15, <1>16, <2>2, <3>1
  <2>3. CASE e.op = "reclaim"
    <3>1. c.amount = o.amount - e.amount /\ Given(e) = 0
      BY <1>6, <1>8, <2>3 DEF Supplied, Given
    <3> QED
      BY <1>3, <1>13, <1>14, <1>15, <1>16, <2>3, <3>1
  <2> QED
    BY <1>4, <2>1, <2>2, <2>3 DEF Movers
<1>18. Total(Holders)' = Total(Holders')
  OBVIOUS
<1>19. Balance'
  BY <1>3, <1>10, <1>17, <1>18 DEF Balance
<1> QED
  BY <1>3, <1>12, <1>19 DEF SupplyInvariant

\* The first transaction: there were no outputs, and nothing was owed.
LEMMA AcceptDeployStep ==
    ASSUME SupplyInvariant, NEW r \in Reqs, Accept(r), req[r].entry.op = "deploy"
    PROVE  SupplyInvariant'
<1>1. PICK e, t, N, X, h : AcceptedAs(r, e, t, N, X, h)
  BY AcceptFrame
<1>2. /\ e = req[r].entry /\ t = ntx + 1
      /\ N = OutputsAt(e.outs, t) /\ X = {o \in live : o.at \in e.spends}
      /\ h = [pc |-> "accepted", tx |-> t, entry |-> e]
  BY <1>1, Zenon DEF AcceptedAs
<1>3. /\ req[r].pc = "checked" /\ EntryInv(e) /\ ntx = 0
      /\ live' = (live \ X) \cup N /\ ntx' = t /\ ntx \in Nat /\ t \in Nat
      /\ store' = store /\ receipts' = receipts /\ cutOff' = cutOff
      /\ Moved(req[r]) = 0 /\ e.amount \in Nat /\ User(e) \in Users /\ cutOff \in Nat
  BY <1>1, Zenon DEF AcceptedAs
<1>4. live = {} /\ \A u \in Users : receipts[u] = {}
  <2>1. \A o \in live : o.at[1] \in 1..ntx
    BY DEF SupplyInvariant, Structure, ChainOK
  <2>2. \A u \in Users : \A x \in receipts[u] : x.tx \in 1..ntx
    BY DEF SupplyInvariant, Structure, ReceiptsOK
  <2> QED
    BY <1>3, <2>1, <2>2
<1>5. \A q \in Reqs : req[q].pc \notin {"accepted", "issued", "verified"}
  <2> SUFFICES ASSUME NEW q \in Reqs, req[q].pc \in {"accepted", "issued", "verified"} PROVE FALSE
    OBVIOUS
  <2>1. req[q].pc \in Stages /\ req[q].pc # "checked"
    BY DEF Stages
  <2>2. req[q].tx \in Nat /\ req[q].tx <= ntx /\ req[q].tx # 0
    BY <2>1, AtStage
  <2> QED
    BY <1>3, <2>2
<1>6. e.op = "deploy" /\ e.op \in Movers
  BY <1>2 DEF Movers
<1>7. Placed(N, t) /\ Total(HoldersOf(N)) = Given(e) /\ Given(e) = e.amount
  BY <1>2, <1>3, <1>6, MoverOutputs DEF Given
<1>8. PICK c \in N : /\ c.at = <<t, 0>> /\ c.role = "controller" /\ c.amount = Supplied(e)
                     /\ \A p \in N : p.role = "controller" => p = c
  <2>1. \E c \in OutputsAt(e.outs, t) :
           /\ c.at = <<t, 0>> /\ c.role = "controller" /\ c.amount = Supplied(e)
           /\ \A p \in OutputsAt(e.outs, t) : p.role = "controller" => p = c
    BY <1>3, <1>6, MoverOutputs, Zenon
  <2> QED
    BY <1>2, <2>1, Zenon
<1>9. Controllers' = {c} /\ Holders' = HoldersOf(N) /\ c.amount = e.amount
  BY <1>3, <1>4, <1>6, <1>8 DEF Controllers, Holders, HoldersOf, Supplied
<1>10. /\ Structure'
       /\ \A q \in Reqs : req'[q] = IF q = r THEN h ELSE req[q]
  <2>1. \A a, b \in Controllers' : a = b
    BY <1>9
  <2>2. \A q \in Reqs \ {r} : Moving(req[q]) =>
              \E p \in live \ X : p.at = <<req[q].tx, 0>> /\ p.role = "controller"
    BY <1>5 DEF Moving
  <2>3. \E p \in N : p.at = <<t, 0>> /\ p.role = "controller"
    BY <1>8
  <2>4. e.op # "reclaim"
    BY <1>6
  <2> QED
    BY <1>1, <1>7, <2>1, <2>2, <2>3, <2>4, AcceptStructure
<1>11. Pending' = 0
  <2>1. \A q \in Reqs : Moved(req[q]) = 0
    BY <1>5 DEF Moved
  <2>2. Pending = 0
    BY <1>4, <2>1, PendingNone DEF SupplyInvariant
  <2>3. /\ Pending' = Pending - Moved(req[r]) + Moved(req'[r])
        /\ Pending \in Int /\ Moved(req[r]) \in Int /\ Moved(req'[r]) \in Int
    <3>1. \A q \in Reqs \ {r} : Moved(req'[q]) = Moved(req[q])
      BY <1>10
    <3> QED
      BY <1>3, <1>10, <3>1, PendingAccepted DEF SupplyInvariant
  <2>4. Moved(req'[r]) = 0
    BY <1>2, <1>6, <1>10 DEF Moved
  <2> QED
    BY <1>3, <2>2, <2>3, <2>4
<1>12. Total(Holders)' = e.amount
  BY <1>7, <1>9
<1>13. Balance'
  BY <1>3, <1>9, <1>11, <1>12 DEF Balance
<1> QED
  BY <1>3, <1>10, <1>13 DEF SupplyInvariant

\* A transfer or a burn.
LEMMA AcceptHolderStep ==
    ASSUME SupplyInvariant, NEW r \in Reqs, Accept(r), req[r].entry.op \in {"transfer", "burn"}
    PROVE  SupplyInvariant'
<1>1. PICK e, t, N, X, h : AcceptedAs(r, e, t, N, X, h)
  BY AcceptFrame
<1>2. /\ e = req[r].entry /\ t = ntx + 1
      /\ N = OutputsAt(e.outs, t) /\ X = {o \in live : o.at \in e.spends}
      /\ h = [pc |-> "accepted", tx |-> t, entry |-> e]
  BY <1>1, Zenon DEF AcceptedAs
<1>3. /\ req[r].pc = "checked" /\ EntryInv(e) /\ AllUnspent(e.spends)
      /\ live' = (live \ X) \cup N /\ ntx' = t /\ ntx \in Nat /\ t \in Nat
      /\ store' = store /\ receipts' = receipts /\ cutOff' = cutOff
      /\ Moved(req[r]) = 0 /\ e.amount \in Nat /\ User(e) \in Users /\ cutOff \in Nat
  BY <1>1, Zenon DEF AcceptedAs
<1>4. e.op \in {"transfer", "burn"} /\ e.op \notin Movers
  BY <1>2 DEF Movers
<1>5. PICK S : /\ LotsOK(S) /\ e.spends = {x.holder : x \in S} /\ Total(S) \in Nat
               /\ Placed(OutputsAt(e.outs, t), t)
               /\ \A o \in OutputsAt(e.outs, t) : o.role = "holder"
               /\ Total(OutputsAt(e.outs, t))
                    = IF e.op = "transfer" THEN Total(S) ELSE Total(S) - e.amount
               /\ Total(S) - e.amount \in Nat
  BY <1>3, <1>4, HolderOutputs
<1>6. /\ Placed(N, t) /\ (\A o \in N : o.role = "holder") /\ HoldersOf(N) = N
      /\ Total(N) = IF e.op = "transfer" THEN Total(S) ELSE Total(S) - e.amount
  <2>1. Placed(N, t) /\ (\A o \in N : o.role = "holder")
        /\ Total(N) = IF e.op = "transfer" THEN Total(S) ELSE Total(S) - e.amount
    BY <1>2, <1>5, Zenon
  <2> QED
    BY <2>1 DEF HoldersOf
<1>7. X \subseteq Holders /\ Total(X) = Total(S) /\ \A c \in Controllers : c \notin X
  BY <1>2, <1>3, <1>5, SpentHolders
<1>8. HoldersOf(X) = X /\ X \in SUBSET live
  BY <1>7 DEF HoldersOf, Holders
<1>9. Controllers' = Controllers
  BY <1>3, <1>6, <1>7 DEF Controllers
<1>10. /\ Structure' /\ \A at : Cited(at)' => Cited(at)
       /\ \A q \in Reqs : req'[q] = IF q = r THEN h ELSE req[q]
  <2>1. \A a, b \in Controllers' : a = b
    BY <1>9 DEF SupplyInvariant, Structure, ChainOK
  <2>2. ASSUME NEW q \in Reqs \ {r}, Moving(req[q])
        PROVE  \E p \in live \ X : p.at = <<req[q].tx, 0>> /\ p.role = "controller"
    <3>1. PICK p \in live : p.at = <<req[q].tx, 0>> /\ p.role = "controller"
      BY <2>2, AtAccepted DEF Moving
    <3> QED
      BY <1>7, <3>1 DEF Controllers
  <2>3. e.op # "reclaim"
    BY <1>4
  <2> QED
    BY <1>1, <1>4, <1>6, <2>1, <2>2, <2>3, AcceptStructure
<1>11. /\ Pending \in Int
       /\ Pending' = IF e.op = "transfer" THEN Pending ELSE Pending + e.amount
  <2>1. /\ Pending' = Pending - Moved(req[r]) + Moved(req'[r])
        /\ Pending \in Int /\ Moved(req[r]) \in Int /\ Moved(req'[r]) \in Int
    <3>1. \A q \in Reqs \ {r} : Moved(req'[q]) = Moved(req[q])
      BY <1>10
    <3> QED
      BY <1>3, <1>10, <3>1, PendingAccepted DEF SupplyInvariant
  <2>2. Moved(req'[r]) = IF e.op = "transfer" THEN 0 ELSE e.amount
    BY <1>2, <1>4, <1>10 DEF Moved
  <2> QED
    BY <1>3, <2>1, <2>2
<1>12. /\ Total(Holders') = IF e.op = "transfer" THEN Total(Holders) ELSE Total(Holders) - e.amount
       /\ Total(Holders) \in Nat
  <2>1. /\ Total(Holders') = Total(Holders) - Total(HoldersOf(X)) + Total(HoldersOf(N))
        /\ Total(Holders) \in Nat /\ Total(HoldersOf(X)) \in Nat /\ Total(HoldersOf(N)) \in Nat
    BY <1>2, <1>3, <1>6, <1>8, HoldersAfter, Zenon
  <2> QED
    BY <1>3, <1>5, <1>6, <1>7, <1>8, <2>1
<1>13. ASSUME NEW c \in Controllers, Reachable(c.at)'
       PROVE  Reachable(c.at)
  <2>1. (\E q \in Reqs : Moving(req[q]) /\ c.at = <<req[q].tx, 0>>)'
          <=> \E q \in Reqs : Moving(req'[q]) /\ c.at = <<req'[q].tx, 0>>
    BY Zenon DEF Moving
  <2>2. ~ Moving(h)
    BY <1>2, <1>4 DEF Moving
  <2>3. (\E q \in Reqs : Moving(req'[q]) /\ c.at = <<req'[q].tx, 0>>) => Reachable(c.at)
    BY <1>10, <2>2 DEF Reachable
  <2>4. Cited(c.at)' => Reachable(c.at)
    BY <1>10, Zenon DEF Reachable
  <2> QED
    BY <1>13, <2>1, <2>3, <2>4, Zenon DEF Reachable
<1>14. ASSUME NEW c \in Controllers'
       PROVE  /\ c.amount >= Total(Holders)'
              /\ cutOff' = 0 => c.amount = Total(Holders)' + Pending'
              /\ Reachable(c.at)' => c.amount >= Total(Holders)' + Pending'
  <2>1. c \in Controllers
    BY <1>9, <1>14
  <2>2. /\ c.amount >= Total(Holders)
        /\ cutOff = 0 => c.amount = Total(Holders) + Pending
        /\ Reachable(c.at) => c.amount >= Total(Holders) + Pending
    BY <2>1, Zenon DEF SupplyInvariant, Balance
  <2>3. c.amount \in Nat
    BY <2>1 DEF SupplyInvariant, Structure, ChainOK, Controllers
  <2>4. Total(Holders)' = Total(Holders')
    OBVIOUS
  <2>5. Reachable(c.at)' => Reachable(c.at)
    BY <1>13, <2>1
  <2> QED
    BY <1>3, <1>4, <1>11, <1>12, <2>2, <2>3, <2>4, <2>5
<1>15. Balance'
  BY <1>14 DEF Balance
<1> QED
  BY <1>3, <1>10, <1>15 DEF SupplyInvariant

\* All of them.
LEMMA AcceptStep ==
    ASSUME SupplyInvariant, NEW r \in Reqs, Accept(r)
    PROVE  SupplyInvariant'
<1>1. req[r].entry.op \in Operations
  BY AtStage DEF Accept, Stages
<1> QED
  BY <1>1, AcceptMoverStep, AcceptDeployStep, AcceptHolderStep DEF Operations, Movers

-----------------------------------------------------------------------------
(***************************************************************************)
(* Lost replies, restarts, and the theorems.                               *)
(***************************************************************************)
\* A handler dies after its transaction.  Nobody has learnt of a controller it made.
LEMMA ReplyLostStep ==
    ASSUME SupplyInvariant, NEW r \in Reqs, ReplyLost(r)
    PROVE  SupplyInvariant'
<1>1. /\ req[r].pc = "accepted" /\ req' = [req EXCEPT ![r] = Idle] /\ cutOff' = cutOff + 1
      /\ UNCHANGED <<live, ntx, store, receipts, cache>>
  BY DEF ReplyLost, Become
<1>2. /\ \A q \in Reqs : req'[q] = IF q = r THEN Idle ELSE req[q]
      /\ req' = [q \in Reqs |-> req'[q]]
  BY <1>1 DEF SupplyInvariant, Structure, HandlersOK
<1>3. \A at : Cited(at)' => Cited(at)
  <2> SUFFICES ASSUME NEW at, Cited(at)' PROVE Cited(at)
    OBVIOUS
  <2>1. (\E q \in Reqs : HandlerCites(req[q], at)') => \E q \in Reqs : HandlerCites(req'[q], at)
    BY Zenon DEF HandlerCites
  <2>2. (\E q \in Reqs : HandlerCites(req'[q], at)) => \E q \in Reqs : HandlerCites(req[q], at)
    BY <1>2, Idles
  <2> QED
    BY <1>1, <2>1, <2>2, Zenon DEF Cited
<1>4. Structure'
  <2>1. Structure /\ FilesOK'
    BY <1>1, StoreSame DEF SupplyInvariant
  <2>2. \A e \in cache' : EntryInv(e)
    BY <1>1 DEF SupplyInvariant, Structure
  <2>3. ASSUME NEW q \in Reqs
        PROVE  req'[q] = req[q] \/ (HandlerInv(req'[q]) /\ req'[q].pc # "accepted")
    <3>1. req'[q] = Idle \/ req'[q] = req[q]
      BY <1>2
    <3> QED
      BY <3>1, Idles
  <2>4. \A at : Cited(at)' => MayCite(at)
    BY <1>3, Zenon DEF MayCite
  <2> QED
    BY <1>1, <1>2, <2>1, <2>2, <2>3, <2>4, QuietStructure
<1>5. /\ Pending' = Pending - Moved(req[r]) /\ Pending \in Int /\ Moved(req[r]) \in Int
  <2>1. \A q \in Reqs \ {r} : Moved(req'[q]) = Moved(req[q])
    BY <1>2
  <2>2. User(req[r].entry) \in Users
    BY <1>1, AtStage DEF Stages
  <2>3. /\ Pending' = Pending - Moved(req[r]) + Moved(req'[r])
        /\ Pending \in Int /\ Moved(req[r]) \in Int /\ Moved(req'[r]) \in Int
    BY <1>1, <1>4, <2>1, <2>2, PendingAccepted DEF SupplyInvariant
  <2>4. Moved(req'[r]) = 0
    BY <1>2, Idles
  <2> QED
    BY <2>3, <2>4
<1>6. \A at : Reachable(at)' => Cited(at) \/ \E q \in Reqs \ {r} : Moving(req[q]) /\ at = <<req[q].tx, 0>>
  <2> SUFFICES ASSUME NEW at, Reachable(at)'
               PROVE  Cited(at) \/ \E q \in Reqs \ {r} : Moving(req[q]) /\ at = <<req[q].tx, 0>>
    OBVIOUS
  <2>1. (\E q \in Reqs : Moving(req[q]) /\ at = <<req[q].tx, 0>>)'
          <=> \E q \in Reqs : Moving(req'[q]) /\ at = <<req'[q].tx, 0>>
    BY Zenon DEF Moving
  <2>2. ~ Moving(Idle)
    BY DEF Moving, Idle
  <2>3. (\E q \in Reqs : Moving(req'[q]) /\ at = <<req'[q].tx, 0>>)
          => \E q \in Reqs \ {r} : Moving(req[q]) /\ at = <<req[q].tx, 0>>
    BY <1>2, <2>2
  <2> QED
    BY <1>3, <2>1, <2>3, Zenon DEF Reachable
<1>7. ASSUME NEW c \in Controllers'
      PROVE  /\ c.amount >= Total(Holders)'
             /\ cutOff' = 0 => c.amount = Total(Holders)' + Pending'
             /\ Reachable(c.at)' => c.amount >= Total(Holders)' + Pending'
  <2>1. c \in Controllers /\ ControllerLives(c.at)
    BY <1>1, <1>7 DEF Controllers, ControllerLives
  <2>2. /\ c.amount >= Total(Holders)
        /\ Reachable(c.at) => c.amount >= Total(Holders) + Pending
    BY <2>1, Zenon DEF SupplyInvariant, Balance
  <2>3. Total(Holders)' = Total(Holders) /\ Total(Holders) \in Nat /\ c.amount \in Nat
    <3>1. Holders' = Holders
      BY <1>1 DEF Holders
    <3>2. Amounted(Holders)
      BY FS_Subset, Holders \subseteq live DEF SupplyInvariant, Structure, ChainOK, Holders, Amounted
    <3>3. Total(Holders) \in Nat
      BY <3>2, TotalSplit, {} \in SUBSET Holders
    <3> QED
      BY <2>1, <3>1, <3>3 DEF SupplyInvariant, Structure, ChainOK, Controllers
  <2>4. cutOff' # 0
    BY <1>1 DEF SupplyInvariant
  <2>5. CASE req[r].entry.op = "reclaim"
    <3>1. req[r].entry.op \in Movers
      BY <2>5 DEF Movers
    <3>2. /\ ~ Cited(c.at)
          /\ \A q \in Reqs \ {r} : ~ Moving(req[q])
      BY <1>1, <2>1, <3>1, OnlyTheMoved DEF Moving
    <3>3. ~ Reachable(c.at)'
      BY <1>6, <3>2
    <3> QED
      BY <2>2, <2>3, <2>4, <3>3
  <2>6. CASE req[r].entry.op # "reclaim"
    <3>1. Moved(req[r]) >= 0
      BY <2>6, MovedIsNat
    <3>2. Reachable(c.at)' => Reachable(c.at)
      BY <1>6, Zenon DEF Reachable
    <3> QED
      BY <1>5, <2>2, <2>3, <2>4, <3>1, <3>2
  <2> QED
    BY <2>5, <2>6
<1>8. Balance'
  BY <1>7 DEF Balance
<1> QED
  BY <1>1, <1>4, <1>8 DEF SupplyInvariant

\* All handlers die, with the cache; what they made is out of reach.
LEMMA RestartStep ==
    ASSUME SupplyInvariant, Restart
    PROVE  SupplyInvariant'
<1>1. PICK K : K = {r \in Reqs : Unrecorded(r) \/ req[r].pc = "recorded"}
  OBVIOUS
<1>2. /\ cutOff' = cutOff + Cardinality(K) /\ cache' = {} /\ req' = [r \in Reqs |-> Idle]
      /\ UNCHANGED <<live, ntx, store, receipts>>
  BY <1>1 DEF Restart
<1>3. cutOff \in Nat /\ Cardinality(K) \in Nat /\ (Cardinality(K) = 0 => K = {})
  <2>1. IsFiniteSet(K)
    BY <1>1, IssuerAssumption, FS_Subset
  <2> QED
    BY <2>1, FS_CardinalityType, FS_EmptySet DEF SupplyInvariant
<1>4. \A q \in Reqs : req'[q] = Idle
  BY <1>2
<1>5. \A at : Cited(at)' => \E u \in Users : \E rec \in store[u] : rec.controller = at
  <2> SUFFICES ASSUME NEW at, Cited(at)'
               PROVE  \E u \in Users : \E rec \in store[u] : rec.controller = at
    OBVIOUS
  <2>1. (\E q \in Reqs : HandlerCites(req[q], at)') => \E q \in Reqs : HandlerCites(req'[q], at)
    BY Zenon DEF HandlerCites
  <2>2. ~ \E q \in Reqs : HandlerCites(req'[q], at)
    BY <1>4, Idles
  <2> QED
    BY <1>2, <2>1, <2>2, Zenon DEF Cited
<1>6. Structure'
  <2>1. Structure /\ FilesOK'
    BY <1>2, StoreSame DEF SupplyInvariant
  <2>2. \A e \in cache' : EntryInv(e)
    BY <1>2
  <2>3. \A q \in Reqs : req'[q] = req[q] \/ (HandlerInv(req'[q]) /\ req'[q].pc # "accepted")
    BY <1>4, Idles
  <2>4. \A at : Cited(at)' => MayCite(at)
    BY <1>5, Zenon DEF MayCite, Cited
  <2>5. req' = [q \in Reqs |-> req'[q]]
    BY <1>2
  <2> QED
    BY <1>2, <2>1, <2>2, <2>3, <2>4, <2>5, QuietStructure
<1>7. /\ Pending \in Int /\ Pending' \in Int
      /\ (\A q \in Reqs : Moved(req[q]) >= 0) => Pending' <= Pending
      /\ (\A q \in Reqs : Moved(req[q]) = 0) => Pending' = Pending
  <2>1. \A q \in Reqs : Moved(req'[q]) = 0
    BY <1>4, Idles
  <2> QED
    BY <1>2, <1>6, <2>1, PendingDrops DEF SupplyInvariant
<1>8. ASSUME NEW c \in Controllers'
      PROVE  /\ c.amount >= Total(Holders)'
             /\ cutOff' = 0 => c.amount = Total(Holders)' + Pending'
             /\ Reachable(c.at)' => c.amount >= Total(Holders)' + Pending'
  <2>1. c \in Controllers /\ ControllerLives(c.at)
    BY <1>2, <1>8 DEF Controllers, ControllerLives
  <2>2. /\ c.amount >= Total(Holders)
        /\ cutOff = 0 => c.amount = Total(Holders) + Pending
        /\ Reachable(c.at) => c.amount >= Total(Holders) + Pending
    BY <2>1, Zenon DEF SupplyInvariant, Balance
  <2>3. Total(Holders)' = Total(Holders) /\ Total(Holders) \in Nat /\ c.amount \in Nat
    <3>1. Holders' = Holders
      BY <1>2 DEF Holders
    <3>2. Amounted(Holders)
      BY FS_Subset, Holders \subseteq live DEF SupplyInvariant, Structure, ChainOK, Holders, Amounted
    <3>3. Total(Holders) \in Nat
      BY <3>2, TotalSplit, {} \in SUBSET Holders
    <3> QED
      BY <2>1, <3>1, <3>3 DEF SupplyInvariant, Structure, ChainOK, Controllers
  <2>4. cutOff' = 0 => c.amount = Total(Holders)' + Pending'
    <3> SUFFICES ASSUME cutOff' = 0 PROVE c.amount = Total(Holders)' + Pending'
      OBVIOUS
    <3>1. cutOff = 0 /\ K = {}
      BY <1>2, <1>3
    <3>2. \A q \in Reqs : Moved(req[q]) = 0
      BY <1>1, <3>1 DEF Moved, Unrecorded
    <3> QED
      BY <1>7, <2>2, <2>3, <3>1, <3>2
  <2>5. Reachable(c.at)' => c.amount >= Total(Holders)' + Pending'
    <3> SUFFICES ASSUME Reachable(c.at)' PROVE c.amount >= Total(Holders)' + Pending'
      OBVIOUS
    <3>1. (\E q \in Reqs : Moving(req[q]) /\ c.at = <<req[q].tx, 0>>)'
            => \E q \in Reqs : Moving(req'[q])
      BY Zenon DEF Moving
    <3>2. ~ Moving(Idle)
      BY DEF Moving, Idle
    <3>3. Cited(c.at)'
      BY <1>4, <3>1, <3>2, Zenon DEF Reachable
    <3>4. Cited(c.at) /\ Reachable(c.at)
      BY <1>5, <3>3, Zenon DEF Cited, Reachable
    <3>5. \A q \in Reqs : req[q].pc = "accepted" => req[q].entry.op # "reclaim"
      BY <2>1, <3>4, OnlyTheMoved DEF Movers
    <3>6. Pending' <= Pending
      BY <1>7, <3>5, MovedIsNat
    <3> QED
      BY <1>7, <2>2, <2>3, <3>4, <3>6
  <2> QED
    BY <2>2, <2>3, <2>4, <2>5
<1>9. Balance'
  BY <1>8 DEF Balance
<1> QED
  BY <1>2, <1>3, <1>6, <1>9 DEF SupplyInvariant

\* It holds at the start,
LEMMA SupplyInit == ASSUME Init PROVE SupplyInvariant
<1>1. ChainOK
  BY FS_EmptySet DEF Init, ChainOK, Controllers
<1>2. FilesOK
  BY FS_EmptySet DEF Init, FilesOK, FileOK
<1>3. ReceiptsOK
  BY FS_EmptySet DEF Init, ReceiptsOK
<1>4. HandlersOK
  BY Idles DEF Init, HandlersOK
<1>5. Balance
  BY DEF Init, Balance, Controllers
<1> QED
  BY <1>1, <1>2, <1>3, <1>4, <1>5 DEF Init, SupplyInvariant, Structure

\* and every step keeps it.
LEMMA SupplyStep ==
    ASSUME SupplyInvariant, [Next]_vars
    PROVE  SupplyInvariant'
<1>1. CASE Builds
  BY <1>1, BuildsStep
<1>2. ASSUME NEW r \in Reqs, Submits(r) PROVE SupplyInvariant'
  BY <1>2, SubmitsStep
<1>3. ASSUME NEW r \in Reqs, Handler(r) PROVE SupplyInvariant'
  BY <1>3, BuildReclaimStep, AcceptStep, RecordDeployStep, RecordIssueStep, VerifyIssueStep,
     RecordVerifiedIssueStep, ConsumeEventStep, RecordChangeStep, RecordTransferStep,
     RecordBurnStep, RecordReclaimStep DEF Handler
<1>4. ASSUME NEW r \in Reqs, Refused(r) PROVE SupplyInvariant'
  BY <1>4, RefusedStep
<1>5. ASSUME NEW r \in Reqs, ReplyLost(r) PROVE SupplyInvariant'
  BY <1>5, ReplyLostStep
<1>6. ASSUME NEW e \in cache, Expire(e) PROVE SupplyInvariant'
  BY <1>6, ExpireStep
<1>7. CASE Restart
  BY <1>7, RestartStep
<1>8. CASE UNCHANGED vars
  <2>1. UNCHANGED <<live, ntx, receipts, cutOff, store, req, cache>>
    BY <1>8 DEF vars
  <2>2. \A e \in cache' : EntryInv(e) /\ MayCite(e.record.controller)
    BY <2>1, Zenon DEF SupplyInvariant, Structure, MayCite, Cited
  <2> QED
    BY <2>1, <2>2, CacheStep
<1> QED
  BY <1>1, <1>2, <1>3, <1>4, <1>5, <1>6, <1>7, <1>8 DEF Next

\* It holds throughout.
THEOREM SupplyInvariance == Spec => []SupplyInvariant
<1>1. Init => SupplyInvariant
  BY SupplyInit
<1>2. SupplyInvariant /\ [Next]_vars => SupplyInvariant'
  BY SupplyStep
<1> QED
  BY <1>1, <1>2, PTL DEF Spec

\* The supply that the controller output commits to always covers what the holders
\* have; and as long as no handler was cut off after its transaction, the two differ
\* by the pending burns: no operation loses or counts twice what was issued, burned
\* or taken off the supply (the submit handlers of the issuer tokens).
THEOREM SupplyIsConserved == Spec => []SupplyConserved
<1>1. SupplyInvariant => SupplyConserved
  BY Zenon DEF SupplyInvariant, Balance, SupplyConserved
<1> QED
  BY <1>1, SupplyInvariance, PTL

\* Zeros add up to zero.
LEMMA TotalZero ==
    ASSUME NEW S, IsFiniteSet(S), \A x \in S : x.amount = 0
    PROVE  Total(S) = 0 /\ Amounted(S)
<1>1. Amounted(S)
  BY DEF Amounted
<1>2. PICK v : v = Amount(S)
  OBVIOUS
<1>3. Total(S) = Sum(v, S) /\ \A x \in S : v[x] = 0
  BY <1>1, <1>2, TotalIs DEF Amount
<1> QED
  BY <1>1, <1>3, SumZero

\* The amounts that a wallet is shown are those of outputs it holds.
LEMMA ShownAreHeld ==
    ASSUME SupplyInvariant, NEW w \in Wallets
    PROVE  Total(Shown(OwnerOf[w], w)) <= Total({o \in Holders : o.wallet = w})
<1>1. PICK u, S, H : /\ u = OwnerOf[w] /\ S = Shown(u, w) /\ H = {o \in Holders : o.wallet = w}
  OBVIOUS
<1>2. u \in Users /\ FileOK(store[u]) /\ S \subseteq store[u]
  BY <1>1, TokenAssumption DEF SupplyInvariant, Structure, FilesOK, Shown
<1>3. Amounted(S)
  BY <1>2, FS_Subset DEF FileOK, RecordOK, Amounted
<1>4. PICK T : T = {rec \in S : rec.holder # NoHolder}
  OBVIOUS
<1>5. /\ Amounted(T) /\ Total(S) \in Nat /\ Total(T) \in Nat /\ Total(S \ T) \in Nat
      /\ Total(S) = Total(S \ T) + Total(T)
  BY <1>3, <1>4, TotalSplit, T \in SUBSET S
<1>6. Total(S \ T) = 0
  <2>1. IsFiniteSet(S \ T)
    BY <1>3, FS_Difference DEF Amounted
  <2>2. \A rec \in S \ T : rec.amount = 0
    BY <1>2, <1>4 DEF FileOK
  <2> QED
    BY <2>1, <2>2, TotalZero
<1>7. PICK f : f = [rec \in T |-> [at |-> rec.holder, role |-> "holder", wallet |-> w,
                                   amount |-> rec.amount]]
  OBVIOUS
<1>8. \A rec \in T : f[rec] \in H
  <2> SUFFICES ASSUME NEW rec \in T PROVE f[rec] \in H
    OBVIOUS
  <2>1. RecordIsLive(rec, w) /\ rec.holder # NoHolder
    BY <1>1, <1>4 DEF Shown
  <2>2. [at |-> rec.holder, role |-> "holder", wallet |-> w, amount |-> rec.amount] \in live
    BY <2>1 DEF RecordIsLive, ExpectedOutputs
  <2> QED
    BY <1>1, <1>7, <2>2 DEF Holders
<1>9. PICK I : I = {f[rec] : rec \in T}
  OBVIOUS
<1>10. Total(I) = Total(T)
  <2>1. f \in [T -> I] /\ \A rec \in T : f[rec].amount = rec.amount
    BY <1>7, <1>9
  <2>2. \A x, y \in T : f[x] = f[y] => x = y
    <3> SUFFICES ASSUME NEW x \in T, NEW y \in T, f[x] = f[y] PROVE x = y
      OBVIOUS
    <3>1. x.holder = y.holder /\ x.holder # NoHolder
      BY <1>4, <1>7
    <3> QED
      BY <1>2, <1>4, <3>1 DEF FileOK
  <2>3. \A t \in I : \E x \in T : t = f[x]
    BY <1>9
  <2> QED
    BY <1>5, <2>1, <2>2, <2>3, TotalOfImage
<1>11. Amounted(H)
  <2>1. H \subseteq live /\ IsFiniteSet(live) /\ \A o \in live : o.amount \in Nat
    BY <1>1 DEF SupplyInvariant, Structure, ChainOK, Holders
  <2> QED
    BY <2>1, FS_Subset DEF Amounted
<1>12. /\ Total(H) \in Nat /\ Total(I) \in Nat /\ Total(H \ I) \in Nat
       /\ Total(H) = Total(H \ I) + Total(I)
  BY <1>8, <1>9, <1>11, TotalSplit, I \in SUBSET H
<1> QED
  BY <1>1, <1>5, <1>6, <1>10, <1>12

\* A wallet is never shown more of the token than it holds on the chain
\* (verifiedOmaL1TokensFromTrackedRecords).
THEOREM ShownAreOwned == Spec => []ShownIsOwned
<1>1. SupplyInvariant => ShownIsOwned
  BY ShownAreHeld DEF ShownIsOwned
<1> QED
  BY <1>1, SupplyInvariance, PTL

-----------------------------------------------------------------------------
(***************************************************************************)
(* Authorizations.                                                         *)
(*                                                                         *)
(* An issue tests its authorization when it is submitted and records it    *)
(* when its outputs showed.  Between the two it holds it.  As long as no   *)
(* two issues hold an authorization at one time and none is cut off, an    *)
(* issue that is about to be sent holds one that no issue has used, since  *)
(* a used one is on record or held by the issue that used it.              *)
(***************************************************************************)
Authorizations == Events \ {NoEvent}
AfterAccept == {"accepted", "issued", "verified", "recorded"}

Holds(r, stages, v) == req[r].pc \in stages /\ req[r].entry.event = v

\* Only an issue has an authorization.
EventOK(e) == e.event \in Events \cup {NoEvent} /\ (e.op # "issue" => e.event = NoEvent)

EventsOK ==
    /\ req = [r \in Reqs |-> req[r]]
    /\ \A e \in cache : EventOK(e)
    /\ \A r \in Reqs : req[r].pc \in Stages =>
          /\ req[r] = [pc |-> req[r].pc, tx |-> req[r].tx, entry |-> req[r].entry]
          /\ EventOK(req[r].entry)

HeldAlone ==
    \A r, q \in Reqs, v \in Authorizations :
        Holds(r, Stages, v) /\ Holds(q, Stages, v) => r = q \/ v \in loose

HeldIsUnused ==
    \A r \in Reqs, u \in used : Holds(r, {"checked"}, u.event) => u.event \in loose

UsedIsTold ==
    \A u \in used :
        /\ u.event \in Authorizations
        /\ \/ u.event \in loose
           \/ Consumed(u.event)
           \/ \E r \in Reqs : Holds(r, AfterAccept, u.event)

EventInv == AuthorizationUsedOnce /\ EventsOK /\ HeldAlone /\ HeldIsUnused /\ UsedIsTold

\* A handler ends.  One that has used its authorization records it, or is cut off.
LEMMA EventEndStep ==
  ASSUME EventInv, NEW r \in Reqs, Become(r, Idle), used' = used,
         loose \subseteq loose', consumed \subseteq consumed', \A e \in cache' : EventOK(e),
         \A v \in Authorizations : Holds(r, AfterAccept, v) => v \in loose' \/ Consumed(v)'
  PROVE  EventInv'
<1>1. \A q \in Reqs : req'[q] = IF q = r THEN Idle ELSE req[q]
  BY DEF EventInv, EventsOK, Become
<1>2. Idle.pc \notin Stages /\ Idle.pc \notin AfterAccept /\ Idle.pc # "checked"
  BY DEF Idle, Stages, AfterAccept
<1>3. \A v : Consumed(v) => Consumed(v)'
  BY DEF Consumed
<1>4. EventsOK'
  <2>1. req' = [q \in Reqs |-> req'[q]]
    BY DEF EventInv, EventsOK, Become
  <2> QED
    BY <1>1, <1>2, <2>1 DEF EventInv, EventsOK
<1>5. HeldAlone'
  BY <1>1, <1>2 DEF EventInv, HeldAlone, Holds
<1>6. HeldIsUnused'
  BY <1>1, <1>2 DEF EventInv, HeldIsUnused, Holds
<1>7. UsedIsTold'
  <2> SUFFICES ASSUME NEW u \in used
               PROVE  /\ u.event \in Authorizations
                      /\ \/ u.event \in loose'
                         \/ Consumed(u.event)'
                         \/ \E q \in Reqs : Holds(q, AfterAccept, u.event)'
    BY DEF UsedIsTold
  <2>1. \/ u.event \in loose
        \/ Consumed(u.event)
        \/ \E q \in Reqs : Holds(q, AfterAccept, u.event)
    BY DEF EventInv, UsedIsTold
  <2>2. u.event \in Authorizations
    BY DEF EventInv, UsedIsTold
  <2>3. ASSUME NEW q \in Reqs, Holds(q, AfterAccept, u.event), q # r
        PROVE  Holds(q, AfterAccept, u.event)'
    BY <1>1, <2>3 DEF Holds
  <2> QED
    BY <1>3, <2>1, <2>2, <2>3
<1>8. AuthorizationUsedOnce'
  BY DEF EventInv, AuthorizationUsedOnce
<1> QED
  BY <1>4, <1>5, <1>6, <1>7, <1>8 DEF EventInv

\* A later stage has the same transaction and the same entry.
LEMMA StageStep ==
  ASSUME EventInv, NEW r \in Reqs, req[r].pc \in AfterAccept, NEW pc \in AfterAccept,
         req' = [req EXCEPT ![r].pc = pc], UNCHANGED <<consumed, used, cache, loose>>
  PROVE  EventInv'
<1>1. req[r] = [pc |-> req[r].pc, tx |-> req[r].tx, entry |-> req[r].entry]
  BY DEF EventInv, EventsOK, AfterAccept, Stages
<1>2. PICK h : h = [pc |-> pc, tx |-> req[r].tx, entry |-> req[r].entry]
  OBVIOUS
<1>3. h = [req[r] EXCEPT !.pc = pc]
  BY <1>1, <1>2
<1>4. \A q \in Reqs : req'[q] = IF q = r THEN h ELSE req[q]
  BY <1>3 DEF EventInv, EventsOK
<1>5. h.pc = pc /\ h.tx = req[r].tx /\ h.entry = req[r].entry
  BY <1>2
<1>6. AfterAccept \subseteq Stages /\ "checked" \notin AfterAccept
  BY DEF AfterAccept, Stages
<1>7. \A q \in Reqs : /\ req'[q].pc \in Stages <=> req[q].pc \in Stages
                      /\ req'[q].pc \in AfterAccept <=> req[q].pc \in AfterAccept
                      /\ req'[q].pc = "checked" <=> req[q].pc = "checked"
                      /\ req'[q].entry = req[q].entry
  BY <1>4, <1>5, <1>6
<1>8. EventsOK'
  <2>1. req' = [q \in Reqs |-> req'[q]]
    BY DEF EventInv, EventsOK
  <2> QED
    BY <1>2, <1>4, <1>5, <1>7, <2>1 DEF EventInv, EventsOK
<1>9. \A q \in Reqs : \A v : /\ Holds(q, Stages, v)' <=> Holds(q, Stages, v)
                             /\ Holds(q, AfterAccept, v)' <=> Holds(q, AfterAccept, v)
                             /\ Holds(q, {"checked"}, v)' <=> Holds(q, {"checked"}, v)
  BY <1>7 DEF Holds
<1>10. HeldAlone'
  BY <1>9 DEF EventInv, HeldAlone
<1>11. HeldIsUnused'
  BY <1>9 DEF EventInv, HeldIsUnused
<1>12. UsedIsTold'
  BY <1>9 DEF EventInv, UsedIsTold, Consumed
<1> QED
  BY <1>8, <1>10, <1>11, <1>12 DEF EventInv, AuthorizationUsedOnce

\* The chain takes the transaction of a handler.
LEMMA EventAcceptStep ==
  ASSUME EventInv, NEW r \in Reqs, Accept(r)
  PROVE  EventInv'
<1>1. PICK e, n : e = req[r].entry /\ n = ntx + 1
  OBVIOUS
<1>2. PICK h : h = [pc |-> "accepted", tx |-> n, entry |-> e]
  OBVIOUS
<1>3. /\ req[r].pc = "checked" /\ req' = [req EXCEPT ![r] = h]
      /\ consumed' = consumed /\ loose' = loose /\ cache' \subseteq cache
      /\ used' = IF e.event = NoEvent THEN used ELSE used \cup {[event |-> e.event, tx |-> n]}
  BY <1>1, <1>2 DEF Accept, Become
<1>4. h.pc = "accepted" /\ h.tx = n /\ h.entry = e
  BY <1>2
<1>5. \A q \in Reqs : req'[q] = IF q = r THEN h ELSE req[q]
  BY <1>3 DEF EventInv, EventsOK
<1>6. EventOK(e) /\ "checked" \in Stages /\ "accepted" \in Stages /\ "accepted" \in AfterAccept
  BY <1>1, <1>3 DEF EventInv, EventsOK, Stages, AfterAccept
<1>7. \A q \in Reqs : /\ req'[q].entry = req[q].entry
                      /\ req'[q].pc \in Stages <=> req[q].pc \in Stages
                      /\ req[q].pc \in AfterAccept => req'[q].pc \in AfterAccept
                      /\ req'[q].pc = "checked" => q # r /\ req[q].pc = "checked"
  BY <1>1, <1>3, <1>4, <1>5, <1>6
<1>8. \A u \in used' : u \in used \/ (e.event # NoEvent /\ u.event = e.event)
  BY <1>3
<1>9. EventsOK'
  <2>1. req' = [q \in Reqs |-> req'[q]]
    BY <1>3 DEF EventInv, EventsOK
  <2> QED
    BY <1>2, <1>3, <1>4, <1>5, <1>6, <1>7, <2>1 DEF EventInv, EventsOK
<1>10. HeldAlone'
  BY <1>3, <1>7 DEF EventInv, HeldAlone, Holds
<1>11. e.event # NoEvent => e.event \in Authorizations
  BY <1>6 DEF EventOK, Authorizations
<1>12. HeldIsUnused'
  <2> SUFFICES ASSUME NEW q \in Reqs, NEW u \in used', Holds(q, {"checked"}, u.event)'
               PROVE  u.event \in loose
    BY <1>3 DEF HeldIsUnused
  <2>1. q # r /\ req[q].pc = "checked" /\ req[q].entry.event = u.event
    BY <1>7 DEF Holds
  <2>2. CASE u \in used
    BY <2>1, <2>2 DEF EventInv, HeldIsUnused, Holds
  <2>3. CASE e.event # NoEvent /\ u.event = e.event
    BY <1>1, <1>3, <1>6, <1>11, <2>1, <2>3 DEF EventInv, HeldAlone, Holds
  <2> QED
    BY <1>8, <2>2, <2>3
<1>13. UsedIsTold'
  <2> SUFFICES ASSUME NEW u \in used'
               PROVE  /\ u.event \in Authorizations
                      /\ \/ u.event \in loose'
                         \/ Consumed(u.event)'
                         \/ \E q \in Reqs : Holds(q, AfterAccept, u.event)'
    BY DEF UsedIsTold
  <2>1. CASE u \in used
    BY <1>3, <1>7, <2>1, Zenon DEF EventInv, UsedIsTold, Holds, Consumed
  <2>2. CASE e.event # NoEvent /\ u.event = e.event
    <3>1. Holds(r, AfterAccept, u.event)'
      BY <1>4, <1>5, <1>6, <2>2 DEF Holds
    <3> QED
      BY <1>11, <2>2, <3>1
  <2> QED
    BY <1>8, <2>1, <2>2
<1>14. AuthorizationUsedOnce'
  <2>1. ASSUME NEW u \in used, u.event = e.event PROVE u.event \in loose
    BY <1>1, <1>3, <2>1 DEF EventInv, HeldIsUnused, Holds
  <2> QED
    BY <1>3, <2>1 DEF EventInv, AuthorizationUsedOnce
<1> QED
  BY <1>9, <1>10, <1>12, <1>13, <1>14 DEF EventInv

\* A submit takes hold of the authorization, and finds whether another handler has it.
LEMMA EventSubmittedStep ==
  ASSUME EventInv, NEW r \in Reqs, NEW e \in cache, NEW signed, Submitted(r, e, signed),
         req[r] = Idle, e.event = NoEvent \/ ~ Consumed(e.event)
  PROVE  EventInv'
<1>1. PICK f : f = [e EXCEPT !.spends = signed.spends, !.outs = signed.outs]
  OBVIOUS
<1>2. PICK h : h = [pc |-> "checked", tx |-> 0, entry |-> f]
  OBVIOUS
<1>3. /\ req' = [req EXCEPT ![r] = h] /\ UNCHANGED <<consumed, used, cache>>
      /\ loose' = loose \cup (Held(Stages) \cap {e.event})
  BY <1>1, <1>2 DEF Submitted, Become
<1>4. h.pc = "checked" /\ h.tx = 0 /\ h.entry = f
  BY <1>2
<1>5. \A q \in Reqs : req'[q] = IF q = r THEN h ELSE req[q]
  BY <1>3 DEF EventInv, EventsOK
<1>6. f.event = e.event /\ f.op = e.op /\ EventOK(f)
  BY <1>1 DEF EventInv, EventsOK, EventOK
<1>7. ASSUME NEW q \in Reqs, NEW v \in Authorizations, Holds(q, Stages, v), v = e.event
      PROVE  q # r /\ v \in loose'
  <2>1. q # r
    BY <1>7 DEF Holds, Idle, Stages
  <2>2. v \in Held(Stages)
    BY <1>7 DEF Holds, Held, Authorizations
  <2> QED
    BY <1>3, <1>7, <2>1, <2>2
<1>8. EventsOK'
  <2>1. req' = [q \in Reqs |-> req'[q]]
    BY <1>3 DEF EventInv, EventsOK
  <2> QED
    BY <1>2, <1>3, <1>4, <1>5, <1>6, <2>1 DEF EventInv, EventsOK
<1>9. HeldAlone'
  <2> SUFFICES ASSUME NEW p \in Reqs, NEW q \in Reqs, NEW v \in Authorizations,
                      Holds(p, Stages, v)', Holds(q, Stages, v)', p # q
               PROVE  v \in loose'
    BY DEF HeldAlone
  <2>1. CASE p # r /\ q # r
    BY <1>3, <1>5, <2>1 DEF EventInv, HeldAlone, Holds
  <2>2. CASE p = r
    BY <1>4, <1>5, <1>6, <1>7, <2>2 DEF Holds
  <2>3. CASE q = r
    BY <1>4, <1>5, <1>6, <1>7, <2>3 DEF Holds
  <2> QED
    BY <2>1, <2>2, <2>3
<1>10. HeldIsUnused'
  <2> SUFFICES ASSUME NEW q \in Reqs, NEW u \in used, Holds(q, {"checked"}, u.event)'
               PROVE  u.event \in loose'
    BY <1>3 DEF HeldIsUnused
  <2>1. CASE q # r
    BY <1>3, <1>5, <2>1 DEF EventInv, HeldIsUnused, Holds
  <2>2. CASE q = r
    <3>1. u.event = e.event
      BY <1>4, <1>5, <1>6, <2>2 DEF Holds
    <3>2. AfterAccept \subseteq Stages
      BY DEF AfterAccept, Stages
    <3>3. ASSUME NEW p \in Reqs, Holds(p, AfterAccept, u.event) PROVE Holds(p, Stages, u.event)
      BY <3>2, <3>3 DEF Holds
    <3> QED
      BY <1>3, <1>7, <3>1, <3>3 DEF EventInv, UsedIsTold, Authorizations
  <2> QED
    BY <2>1, <2>2
<1>11. UsedIsTold'
  <2>1. \A q \in Reqs : \A v : Holds(q, AfterAccept, v) => Holds(q, AfterAccept, v)'
    BY <1>5 DEF Holds, Idle, AfterAccept
  <2> QED
    BY <1>3, <2>1 DEF EventInv, UsedIsTold, Consumed
<1>12. AuthorizationUsedOnce'
  BY <1>3 DEF EventInv, AuthorizationUsedOnce
<1> QED
  BY <1>8, <1>9, <1>10, <1>11, <1>12 DEF EventInv

\* Nothing that the argument speaks of changes, but for a build that is cached or gone.
LEMMA EventCacheStep ==
  ASSUME EventInv, UNCHANGED <<req, used, consumed, loose>>, \A e \in cache' : EventOK(e)
  PROVE  EventInv'
BY DEF EventInv, EventsOK, HeldAlone, HeldIsUnused, UsedIsTold, AuthorizationUsedOnce, Holds,
       Consumed

LEMMA EventBuildsStep ==
  ASSUME EventInv, Builds
  PROVE  EventInv'
<1>1. \E e : Cached(e) /\ EventOK(e)
  <2>1. ASSUME NEW w \in Wallets, NEW n \in Amounts, BuildDeploy(w, n)
        PROVE  \E e : Cached(e) /\ EventOK(e)
    <3>1. EventOK(DeployEntry(w, n))
      BY DEF EventOK, DeployEntry, Entry
    <3> QED
      BY <2>1, <3>1 DEF BuildDeploy
  <2>2. ASSUME NEW w \in Wallets, NEW n \in Amounts, BuildBurn(w, n)
        PROVE  \E e : Cached(e) /\ EventOK(e)
    <3>1. PICK S, rec : Cached(BurnEntry(w, S, rec, n))
      BY <2>2, Zenon DEF BuildBurn
    <3>2. EventOK(BurnEntry(w, S, rec, n))
      BY DEF EventOK, BurnEntry, Entry
    <3> QED
      BY <3>1, <3>2
  <2>3. ASSUME NEW w \in Wallets, NEW new \in Wallets, BuildChange(w, new)
        PROVE  \E e : Cached(e) /\ EventOK(e)
    <3>1. PICK rec : Cached(ChangeEntry(w, new, rec))
      BY <2>3, Zenon DEF BuildChange
    <3>2. EventOK(ChangeEntry(w, new, rec))
      BY DEF EventOK, ChangeEntry, Entry
    <3> QED
      BY <3>1, <3>2
  <2>4. ASSUME NEW w \in Wallets, NEW new \in Wallets, NEW n \in Amounts, BuildTransfer(w, new, n)
        PROVE  \E e : Cached(e) /\ EventOK(e)
    <3>1. PICK S, rec : Cached(TransferEntry(w, new, S, rec, n))
      BY <2>4, Zenon DEF BuildTransfer
    <3>2. EventOK(TransferEntry(w, new, S, rec, n))
      BY DEF EventOK, TransferEntry, Entry
    <3> QED
      BY <3>1, <3>2
  <2>5. ASSUME NEW w \in Wallets, NEW new \in Wallets, NEW n \in Amounts,
               NEW event \in Events \cup {NoEvent}, BuildIssue(w, new, n, event)
        PROVE  \E e : Cached(e) /\ EventOK(e)
    <3>1. PICK rec : Cached(IssueEntry(w, new, rec, n, event))
      BY <2>5, Zenon DEF BuildIssue
    <3>2. EventOK(IssueEntry(w, new, rec, n, event))
      BY DEF EventOK, IssueEntry, Entry
    <3> QED
      BY <3>1, <3>2
  <2> QED
    BY <2>1, <2>2, <2>3, <2>4, <2>5 DEF Builds
<1>2. PICK e : Cached(e) /\ EventOK(e)
  BY <1>1
<1>3. UNCHANGED <<req, used, consumed, loose>> /\ cache' = cache \cup {e}
  BY <1>2 DEF Cached
<1>4. \A x \in cache' : EventOK(x)
  BY <1>2, <1>3 DEF EventInv, EventsOK
<1> QED
  BY <1>3, <1>4, EventCacheStep

LEMMA EventSubmitsStep ==
  ASSUME EventInv, NEW r \in Reqs, Submits(r)
  PROVE  EventInv'
<1>1. ASSUME NEW w \in Wallets, StartReclaim(r, w)
      PROVE  EventInv'
  <2>1. PICK h : /\ req' = [req EXCEPT ![r] = h] /\ h.pc = "reclaim_build"
                 /\ req[r] = Idle /\ UNCHANGED <<used, consumed, loose, cache>>
    BY <1>1 DEF StartReclaim, Become
  <2>2. \A q \in Reqs : req'[q] = IF q = r THEN h ELSE req[q]
    BY <2>1 DEF EventInv, EventsOK
  <2>3. req' = [q \in Reqs |-> req'[q]]
    BY <2>1 DEF EventInv, EventsOK
  <2>4. h.pc \notin Stages /\ h.pc \notin AfterAccept /\ h.pc # "checked"
    BY <2>1 DEF Stages, AfterAccept
  <2>5. Idle.pc \notin AfterAccept
    BY DEF Idle, AfterAccept
  <2>6. EventsOK'
    BY <2>1, <2>2, <2>3, <2>4 DEF EventInv, EventsOK
  <2>7. HeldAlone' /\ HeldIsUnused'
    BY <2>1, <2>2, <2>4 DEF EventInv, HeldAlone, HeldIsUnused, Holds
  <2>8. \A q \in Reqs : \A v : Holds(q, AfterAccept, v) => Holds(q, AfterAccept, v)'
    BY <2>1, <2>2, <2>5 DEF Holds
  <2>9. UsedIsTold'
    BY <2>1, <2>8 DEF EventInv, UsedIsTold, Consumed
  <2> QED
    BY <2>1, <2>6, <2>7, <2>9 DEF EventInv, AuthorizationUsedOnce
<1>2. ASSUME NEW e \in cache, SubmitIssue(r, e)
      PROVE  EventInv'
  <2>1. \E signed : Submitted(r, e, signed)
    BY <1>2, Zenon DEF SubmitIssue
  <2>2. req[r] = Idle /\ ~ Consumed(e.event)
    BY <1>2 DEF SubmitIssue, IssueChecked
  <2> QED
    BY <2>1, <2>2, EventSubmittedStep
<1>3. ASSUME NEW e \in cache,
             \/ SubmitDeploy(r, e) \/ SubmitChange(r, e) \/ SubmitTransfer(r, e)
             \/ SubmitBurn(r, e) \/ SubmitReclaim(r, e)
      PROVE  EventInv'
  <2>1. (\E signed : Submitted(r, e, signed)) /\ req[r] = Idle
    BY <1>3, Zenon DEF SubmitDeploy, SubmitChange, SubmitTransfer, SubmitBurn, SubmitReclaim
  <2>2. e.op # "issue"
    BY <1>3 DEF SubmitDeploy, SubmitChange, SubmitTransfer, SubmitBurn, SubmitReclaim
  <2>3. e.event = NoEvent
    BY <2>2 DEF EventInv, EventsOK, EventOK
  <2> QED
    BY <2>1, <2>3, EventSubmittedStep
<1> QED
  BY <1>1, <1>2, <1>3 DEF Submits

\* The authorization of a handler that has used it goes on record with its last write.
LEMMA ConsumeStep ==
  ASSUME EventInv, NEW r \in Reqs, ConsumeEvent(r)
  PROVE  EventInv'
<1>1. PICK v, c : v = req[r].entry.event /\ c = [event |-> v, tx |-> req[r].tx]
  OBVIOUS
<1>2. /\ Become(r, Idle) /\ UNCHANGED <<used, loose, cache>>
      /\ consumed' = IF v = NoEvent \/ Consumed(v) THEN consumed ELSE consumed \cup {c}
  BY <1>1 DEF ConsumeEvent, AppendConsumption
<1>3. c.event = v
  BY <1>1
<1>4. v # NoEvent => Consumed(v)'
  BY <1>2, <1>3 DEF Consumed
<1>5. \A a \in Authorizations : Holds(r, AfterAccept, a) => Consumed(a)'
  BY <1>1, <1>4 DEF Holds, Authorizations
<1>6. \A e \in cache' : EventOK(e)
  BY <1>2 DEF EventInv, EventsOK
<1> QED
  BY <1>2, <1>5, <1>6, EventEndStep

LEMMA EventHandlerStep ==
  ASSUME EventInv, NEW r \in Reqs, Handler(r)
  PROVE  EventInv'
<1>1. CASE Accept(r)
  BY <1>1, EventAcceptStep
<1>2. CASE ConsumeEvent(r)
  BY <1>2, ConsumeStep
<1>3. CASE RecordDeploy(r) \/ RecordChange(r) \/ RecordTransfer(r) \/ RecordBurn(r)
           \/ RecordReclaim(r)
  <2>1. Become(r, Idle) /\ UNCHANGED <<consumed, used, loose, cache>>
    BY <1>3, Zenon DEF RecordDeploy, RecordChange, RecordTransfer, RecordBurn, RecordReclaim
  <2>2. req[r].pc = "accepted" /\ req[r].entry.op # "issue"
    BY <1>3 DEF RecordDeploy, RecordChange, RecordTransfer, RecordBurn, RecordReclaim
  <2>3. req[r].entry.event = NoEvent /\ \A e \in cache' : EventOK(e)
    BY <2>1, <2>2 DEF EventInv, EventsOK, EventOK, Stages
  <2>4. \A v \in Authorizations : ~ Holds(r, AfterAccept, v)
    BY <2>3 DEF Holds, Authorizations
  <2> QED
    BY <2>1, <2>3, <2>4, EventEndStep
<1>4. CASE BuildReclaim(r)
  <2>1. /\ Become(r, Idle) /\ UNCHANGED <<consumed, used, loose>>
        /\ req[r].pc = "reclaim_build"
    BY <1>4 DEF BuildReclaim
  <2>2. PICK w, rec, n, txs : cache' = cache \cup {ReclaimEntry(w, rec, n, txs)}
    BY <1>4, Zenon DEF BuildReclaim
  <2>3. EventOK(ReclaimEntry(w, rec, n, txs))
    BY DEF EventOK, ReclaimEntry, Entry
  <2>4. \A e \in cache' : EventOK(e)
    BY <2>2, <2>3 DEF EventInv, EventsOK
  <2>5. \A v \in Authorizations : ~ Holds(r, AfterAccept, v)
    BY <2>1 DEF Holds, AfterAccept
  <2> QED
    BY <2>1, <2>4, <2>5, EventEndStep
<1>5. CASE RecordIssue(r)
  <2>1. /\ req[r].pc = "accepted" /\ UNCHANGED <<consumed, used, cache, loose>>
        /\ req' = [req EXCEPT ![r].pc = "issued"]
    BY <1>5 DEF RecordIssue
  <2> QED
    BY <2>1, StageStep DEF AfterAccept
<1>6. CASE VerifyIssue(r)
  <2>1. req[r].pc = "issued" /\ UNCHANGED <<consumed, used, cache, loose>>
    BY <1>6 DEF VerifyIssue
  <2>2. \/ req' = [req EXCEPT ![r].pc = "verified"]
        \/ req' = [req EXCEPT ![r].pc = "recorded"]
    BY <1>6 DEF VerifyIssue
  <2> QED
    BY <2>1, <2>2, StageStep DEF AfterAccept
<1>7. CASE RecordVerifiedIssue(r)
  <2>1. /\ req[r].pc = "verified" /\ UNCHANGED <<consumed, used, cache, loose>>
        /\ req' = [req EXCEPT ![r].pc = "recorded"]
    BY <1>7 DEF RecordVerifiedIssue
  <2> QED
    BY <2>1, StageStep DEF AfterAccept
<1> QED
  BY <1>1, <1>2, <1>3, <1>4, <1>5, <1>6, <1>7 DEF Handler

\* A restart lets go of what the handlers held.
LEMMA EventRestartStep ==
  ASSUME EventInv, Restart
  PROVE  EventInv'
<1>1. /\ req' = [r \in Reqs |-> Idle] /\ UNCHANGED <<consumed, used>> /\ cache' = {}
      /\ loose' = loose \cup Held(Stages \ {"checked"})
  BY DEF Restart
<1>2. Idle.pc \notin Stages /\ Idle.pc \notin AfterAccept /\ Idle.pc # "checked"
  BY DEF Idle, Stages, AfterAccept
<1>3. EventsOK' /\ HeldAlone' /\ HeldIsUnused'
  BY <1>1, <1>2 DEF EventsOK, HeldAlone, HeldIsUnused, Holds
<1>4. ASSUME NEW r \in Reqs, NEW v \in Authorizations, Holds(r, AfterAccept, v)
      PROVE  v \in loose'
  <2>1. AfterAccept \subseteq Stages \ {"checked"}
    BY DEF AfterAccept, Stages
  <2>2. v \in Held(Stages \ {"checked"})
    BY <1>4, <2>1 DEF Holds, Held, Authorizations
  <2> QED
    BY <1>1, <2>2
<1>5. UsedIsTold'
  BY <1>1, <1>4 DEF EventInv, UsedIsTold, Consumed
<1>6. AuthorizationUsedOnce'
  BY <1>1 DEF EventInv, AuthorizationUsedOnce
<1> QED
  BY <1>3, <1>5, <1>6 DEF EventInv

LEMMA IssuerNext ==
  ASSUME EventInv, [Next]_vars
  PROVE  EventInv'
<1>1. CASE Builds
  BY <1>1, EventBuildsStep
<1>2. CASE (\E e \in cache : Expire(e)) \/ UNCHANGED vars
  <2>1. UNCHANGED <<req, used, consumed, loose>> /\ cache' \subseteq cache
    BY <1>2 DEF Expire, vars
  <2>2. \A e \in cache' : EventOK(e)
    BY <2>1 DEF EventInv, EventsOK
  <2> QED
    BY <2>1, <2>2, EventCacheStep
<1>3. ASSUME NEW r \in Reqs, Submits(r)
      PROVE  EventInv'
  BY <1>3, EventSubmitsStep
<1>4. ASSUME NEW r \in Reqs, Handler(r)
      PROVE  EventInv'
  BY <1>4, EventHandlerStep
<1>5. ASSUME NEW r \in Reqs, Refused(r)
      PROVE  EventInv'
  <2>1. /\ Become(r, Idle) /\ UNCHANGED <<consumed, used, loose, cache>>
        /\ req[r].pc \in {"checked", "reclaim_build"}
    BY <1>5 DEF Refused
  <2>2. \A v \in Authorizations : ~ Holds(r, AfterAccept, v)
    BY <2>1 DEF Holds, AfterAccept
  <2>3. \A e \in cache' : EventOK(e)
    BY <2>1 DEF EventInv, EventsOK
  <2> QED
    BY <2>1, <2>2, <2>3, EventEndStep
<1>6. ASSUME NEW r \in Reqs, ReplyLost(r)
      PROVE  EventInv'
  <2>1. /\ Become(r, Idle) /\ UNCHANGED <<consumed, used, cache>>
        /\ loose' = loose \cup ({req[r].entry.event} \cap Events)
    BY <1>6 DEF ReplyLost
  <2>2. \A v \in Authorizations : Holds(r, AfterAccept, v) => v \in loose'
    BY <2>1 DEF Holds, Authorizations
  <2>3. \A e \in cache' : EventOK(e)
    BY <2>1 DEF EventInv, EventsOK
  <2> QED
    BY <2>1, <2>2, <2>3, EventEndStep
<1>7. CASE Restart
  BY <1>7, EventRestartStep
<1> QED
  BY <1>1, <1>2, <1>3, <1>4, <1>5, <1>6, <1>7 DEF Next

\* The chain takes a second issue on an authorization only if two submits held it at
\* one time or a handler that held it was cut off: the test before the broadcast
\* (omaL1IssuanceAuthorizationEventConsumed) refuses everybody else.
THEOREM AuthorizationsUsedOnce == Spec => []AuthorizationUsedOnce
<1>1. Init => EventInv
  <2>1. Init => EventsOK /\ HeldAlone /\ HeldIsUnused /\ UsedIsTold
    BY DEF Init, EventsOK, HeldAlone, HeldIsUnused, UsedIsTold, Holds, Idle, Stages
  <2> QED
    BY <2>1 DEF Init, EventInv, AuthorizationUsedOnce
<1>2. EventInv /\ [Next]_vars => EventInv'
  BY IssuerNext
<1>3. EventInv => AuthorizationUsedOnce
  BY DEF EventInv
<1> QED
  BY <1>1, <1>2, <1>3, PTL DEF Spec
=============================================================================
