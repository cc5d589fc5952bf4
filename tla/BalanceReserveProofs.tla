------------------------ MODULE BalanceReserveProofs ------------------------
(***************************************************************************)
(* Proofs about BalanceReserve for every set of clients, every bound on the *)
(* quantities and every set of totals.                                      *)
(*                                                                         *)
(* Sums over the clients are cardinalities of sets of units <<client, i>>,  *)
(* so that the facts needed about them come from FiniteSetTheorems.         *)
(***************************************************************************)
EXTENDS BalanceReserve, FiniteSetTheorems, FunctionTheorems, TLAPS

USE AmountAssumption DEF AmountAssumption

Quantities == [Clients -> 0..MaxAmount]

\* The units of any set of clients are finite: Sum is a natural number.
LEMMA SumType ==
  ASSUME NEW S \in SUBSET Clients, NEW f \in Quantities
  PROVE  IsFiniteSet(Units(S, f)) /\ Sum(S, f) \in Nat
<1>1. IsFiniteSet(S \X Amounts)
  <2>1. IsFiniteSet(S)
    BY FS_Subset, ClientsAssumption DEF ClientsAssumption
  <2>2. IsFiniteSet(Amounts)
    BY FS_Interval, AmountAssumption DEF Amounts, AmountAssumption
  <2> QED BY <2>1, <2>2, FS_Product
<1>2. Units(S, f) \in SUBSET (S \X Amounts)
  BY DEF Units
<1>3. IsFiniteSet(Units(S, f))
  BY <1>1, <1>2, FS_Subset
<1> QED
  BY <1>3, FS_CardinalityType DEF Sum

\* One client's units are as many as its quantity.
LEMMA ColumnSize ==
  ASSUME NEW c, NEW n \in Nat
  PROVE  IsFiniteSet({c} \X (1..n)) /\ Cardinality({c} \X (1..n)) = n
<1> DEFINE pair == [i \in 1..n |-> <<c, i>>]
<1>1. IsFiniteSet(1..n) /\ Cardinality(1..n) = n
  BY FS_Interval
<1>2. pair \in Bijection(1..n, {c} \X (1..n))
  <2>1. pair \in [1..n -> {c} \X (1..n)]
    OBVIOUS
  <2>2. \A i, j \in 1..n : pair[i] = pair[j] => i = j
    OBVIOUS
  <2>3. \A t \in {c} \X (1..n) : \E i \in 1..n : pair[i] = t
    <3> SUFFICES ASSUME NEW t \in {c} \X (1..n)
                 PROVE  \E i \in 1..n : pair[i] = t
      OBVIOUS
    <3>1. t[2] \in 1..n /\ pair[t[2]] = t
      OBVIOUS
    <3> QED BY <3>1
  <2> QED
    BY <2>1, <2>2, <2>3 DEF Bijection, Injection, Surjection, IsInjective
<1> QED
  BY <1>1, <1>2, FS_Bijection DEF ExistsBijection

\* A sum splits into one client's quantity and the sum over the others.
LEMMA SumSplit ==
  ASSUME NEW S \in SUBSET Clients, NEW f \in Quantities, NEW c \in S
  PROVE  Sum(S, f) = Sum(S \ {c}, f) + f[c]
<1> DEFINE A == Units(S \ {c}, f)
           B == {c} \X (1..f[c])
<1>1. f[c] \in Nat /\ f[c] <= MaxAmount
  BY DEF Quantities
<1>2. IsFiniteSet(B) /\ Cardinality(B) = f[c]
  BY <1>1, ColumnSize
<1>3. IsFiniteSet(A) /\ Cardinality(A) \in Nat
  BY SumType DEF Sum
<1>4. Units(S, f) = A \union B
  <2>1. ASSUME NEW u \in Units(S, f)
        PROVE  u \in A \union B
    <3>1. u \in S \X Amounts /\ u[2] <= f[u[1]]
      BY DEF Units
    <3>2. CASE u[1] = c
      BY <3>1, <3>2 DEF Amounts
    <3>3. CASE u[1] # c
      BY <3>1, <3>3 DEF Units
    <3> QED BY <3>2, <3>3
  <2>2. ASSUME NEW u \in A
        PROVE  u \in Units(S, f)
    BY DEF Units
  <2>3. ASSUME NEW u \in B
        PROVE  u \in Units(S, f)
    BY <1>1 DEF Units, Amounts
  <2> QED BY <2>1, <2>2, <2>3
<1>5. A \intersect B = {}
  BY DEF Units
<1> HIDE DEF A, B
<1>6. Cardinality(A \union B) = Cardinality(A) + Cardinality(B)
  <2>1. Cardinality(A \union B)
          = Cardinality(A) + Cardinality(B) - Cardinality(A \intersect B)
    BY <1>2, <1>3, FS_Union
  <2>2. Cardinality(A \intersect B) = 0
    BY <1>5, FS_EmptySet
  <2> QED BY <1>1, <1>2, <1>3, <2>1, <2>2
<1> QED
  BY <1>2, <1>4, <1>6 DEF Sum, A, B

\* Changing one client's quantity leaves the sums over the others alone.
LEMMA SumOthers ==
  ASSUME NEW S \in SUBSET Clients, NEW f \in Quantities,
         NEW c \in Clients \ S, NEW n
  PROVE  Sum(S, [f EXCEPT ![c] = n]) = Sum(S, f)
<1>1. \A u \in S \X Amounts : [f EXCEPT ![c] = n][u[1]] = f[u[1]]
  BY DEF Quantities
<1> QED
  BY <1>1 DEF Sum, Units

\* How a sum changes with the quantity of one of its clients.
LEMMA SumUpdate ==
  ASSUME NEW S \in SUBSET Clients, NEW f \in Quantities,
         NEW c \in S, NEW n \in 0..MaxAmount
  PROVE  Sum(S, [f EXCEPT ![c] = n]) = Sum(S, f) - f[c] + n
<1> DEFINE g == [f EXCEPT ![c] = n]
<1>1. g \in Quantities /\ g[c] = n /\ f[c] \in Nat
  BY DEF Quantities
<1>2. Sum(S, g) = Sum(S \ {c}, g) + n
  BY <1>1, SumSplit
<1>3. Sum(S \ {c}, g) = Sum(S \ {c}, f)
  BY SumOthers
<1>4. Sum(S, f) = Sum(S \ {c}, f) + f[c]
  BY SumSplit
<1>5. Sum(S \ {c}, f) \in Nat
  BY SumType
<1> HIDE DEF g
<1>6. Sum(S, g) = Sum(S, f) - f[c] + n
  BY <1>1, <1>2, <1>3, <1>4, <1>5
<1> QED
  BY <1>6 DEF g

\* A client's quantity is part of every sum it takes part in.
LEMMA SumBound ==
  ASSUME NEW S \in SUBSET Clients, NEW f \in Quantities, NEW c \in S
  PROVE  f[c] <= Sum(S, f)
<1>1. f[c] \in Nat
  BY DEF Quantities
<1>2. Sum(S, f) = Sum(S \ {c}, f) + f[c]
  BY SumSplit
<1>3. Sum(S \ {c}, f) \in Nat
  BY SumType
<1> QED
  BY <1>1, <1>2, <1>3

\* Nothing is reserved when no client has anything.
LEMMA SumZero ==
  ASSUME NEW S \in SUBSET Clients
  PROVE  Sum(S, [c \in Clients |-> 0]) = 0
<1> DEFINE zero == [c \in Clients |-> 0]
<1>1. \A u \in S \X Amounts : ~(u[2] <= zero[u[1]])
  BY DEF Amounts
<1>2. Units(S, zero) = {}
  BY <1>1 DEF Units
<1> QED
  BY <1>2, FS_EmptySet DEF Sum

-----------------------------------------------------------------------------

\* What a client's program counter says about its quantity and its locals.
Consistent(c) ==
  /\ pc[c] \in {"idle", "get", "reserve"} => out[c] = 0
  /\ pc[c] = "reserve" => qty[c] >= 1
  /\ pc[c] \in {"recheck", "rollback"} => qty[c] >= 1 /\ out[c] = qty[c]
  /\ pc[c] = "held" => out[c] >= 1
  /\ pc[c] = "release" => 1 <= qty[c] /\ qty[c] <= out[c]
  /\ 0 <= cur[c]
  /\ first[c] <= peak
  /\ 0 <= second[c]

\* NeverOverReserved is not inductive alone: that a swap stays below the peak
\* needs the loaded total to be below it and the loaded reserve not negative,
\* and the latter needs the accounting, which needs each client's state.
IInv ==
  /\ TypeOK
  /\ ReserveAccounted
  /\ NeverOverReserved
  /\ total <= peak
  /\ \A c \in Clients : Consistent(c)

\* The inductive invariant holds after the constructor.
LEMMA InitIInv == Init => IInv
<1> SUFFICES ASSUME Init PROVE IInv
  OBVIOUS
<1>1. TypeOK
  BY DEF Init, TypeOK, PCs
<1>2. ReserveAccounted
  BY SumZero DEF Init, ReserveAccounted
<1>3. NeverOverReserved /\ total <= peak
  BY DEF Init, NeverOverReserved
<1>4. \A c \in Clients : Consistent(c)
  BY DEF Init, Consistent
<1> QED BY <1>1, <1>2, <1>3, <1>4 DEF IInv

\* Under the invariant the reserve is not negative and covers every client.
LEMMA ReserveBounds ==
  ASSUME IInv
  PROVE  /\ reserve \in Nat
         /\ out \in Quantities
         /\ \A c \in Clients : out[c] <= reserve
BY SumType, SumBound DEF IInv, TypeOK, ReserveAccounted, Quantities

\* A step that leaves out and reserve alone keeps the accounting.
LEMMA AccountingFrame ==
  ASSUME IInv, UNCHANGED <<out, reserve>>
  PROVE  ReserveAccounted'
BY DEF IInv, ReserveAccounted, Sum, Units

\* No step leaves the inductive invariant: one case per action of Next.
LEMMA NextIInv == IInv /\ [Next]_vars => IInv'
<1> SUFFICES ASSUME IInv, [Next]_vars
             PROVE  IInv'
  OBVIOUS
<1> USE TotalsAssumption DEF TotalsAssumption, Amounts
<1>a. reserve \in Nat /\ out \in Quantities /\ \A d \in Clients : out[d] <= reserve
  BY ReserveBounds
<1>b. /\ TypeOK /\ ReserveAccounted /\ NeverOverReserved /\ total <= peak
      /\ \A d \in Clients : Consistent(d)
  BY DEF IInv
<1> SUFFICES /\ TypeOK' /\ ReserveAccounted' /\ NeverOverReserved' /\ (total <= peak)'
             /\ \A d \in Clients : Consistent(d)'
  BY DEF IInv
<1>1. CASE UNCHANGED vars
  <2>1. TypeOK'
    BY <1>1, <1>b DEF vars, TypeOK
  <2>2. ReserveAccounted'
    BY <1>1, AccountingFrame DEF vars
  <2>3. NeverOverReserved' /\ (total <= peak)'
    BY <1>1, <1>b DEF vars, NeverOverReserved
  <2>4. \A d \in Clients : Consistent(d)'
    BY <1>1, <1>b DEF vars, Consistent
  <2> QED BY <2>1, <2>2, <2>3, <2>4
<1>2. ASSUME NEW v \in Totals, UpdateBalance(v)
      PROVE  /\ TypeOK' /\ ReserveAccounted' /\ NeverOverReserved' /\ (total <= peak)'
             /\ \A d \in Clients : Consistent(d)'
  <2>1. TypeOK'
    BY <1>2, <1>b DEF UpdateBalance, TypeOK
  <2>2. ReserveAccounted'
    BY <1>2, AccountingFrame DEF UpdateBalance
  <2>3. NeverOverReserved' /\ (total <= peak)'
    BY <1>2, <1>b DEF UpdateBalance, NeverOverReserved, TypeOK
  <2>4. \A d \in Clients : Consistent(d)'
    BY <1>2, <1>b DEF UpdateBalance, Consistent, TypeOK
  <2> QED BY <2>1, <2>2, <2>3, <2>4
<1>3. ASSUME NEW c \in Clients, GetBalance(c)
      PROVE  /\ TypeOK' /\ ReserveAccounted' /\ NeverOverReserved' /\ (total <= peak)'
             /\ \A d \in Clients : Consistent(d)'
  <2>1. TypeOK'
    BY <1>3, <1>b DEF GetBalance, TypeOK, PCs
  <2>2. ReserveAccounted'
    BY <1>3, AccountingFrame DEF GetBalance
  <2>3. NeverOverReserved' /\ (total <= peak)'
    BY <1>3, <1>b DEF GetBalance, NeverOverReserved
  <2>4. \A d \in Clients : Consistent(d)'
    BY <1>3, <1>a, <1>b DEF GetBalance, Consistent, TypeOK
  <2> QED BY <2>1, <2>2, <2>3, <2>4
<1>4. ASSUME NEW c \in Clients, NEW q \in Amounts, ReserveBalance(c, q)
      PROVE  /\ TypeOK' /\ ReserveAccounted' /\ NeverOverReserved' /\ (total <= peak)'
             /\ \A d \in Clients : Consistent(d)'
  <2>1. TypeOK'
    BY <1>4, <1>b DEF ReserveBalance, TypeOK, PCs
  <2>2. ReserveAccounted'
    BY <1>4, AccountingFrame DEF ReserveBalance
  <2>3. NeverOverReserved' /\ (total <= peak)'
    BY <1>4, <1>b DEF ReserveBalance, NeverOverReserved
  <2>4. \A d \in Clients : Consistent(d)'
    BY <1>4, <1>a, <1>b DEF ReserveBalance, Consistent, TypeOK
  <2> QED BY <2>1, <2>2, <2>3, <2>4
<1>5. ASSUME NEW c \in Clients, NEW q \in Amounts, UnreserveBalance(c, q)
      PROVE  /\ TypeOK' /\ ReserveAccounted' /\ NeverOverReserved' /\ (total <= peak)'
             /\ \A d \in Clients : Consistent(d)'
  <2>1. TypeOK'
    BY <1>5, <1>b DEF UnreserveBalance, TypeOK, PCs
  <2>2. ReserveAccounted'
    BY <1>5, AccountingFrame DEF UnreserveBalance
  <2>3. NeverOverReserved' /\ (total <= peak)'
    BY <1>5, <1>b DEF UnreserveBalance, NeverOverReserved
  <2>4. \A d \in Clients : Consistent(d)'
    BY <1>5, <1>a, <1>b DEF UnreserveBalance, Consistent, TypeOK
  <2> QED BY <2>1, <2>2, <2>3, <2>4
<1>6. ASSUME NEW c \in Clients, LoadTotal(c)
      PROVE  /\ TypeOK' /\ ReserveAccounted' /\ NeverOverReserved' /\ (total <= peak)'
             /\ \A d \in Clients : Consistent(d)'
  <2>1. TypeOK'
    BY <1>6, <1>b DEF LoadTotal, TypeOK, PCs, Reading
  <2>2. ReserveAccounted'
    BY <1>6, AccountingFrame DEF LoadTotal
  <2>3. NeverOverReserved' /\ (total <= peak)'
    BY <1>6, <1>b DEF LoadTotal, NeverOverReserved
  <2>4. \A d \in Clients : Consistent(d)'
    BY <1>6, <1>a, <1>b DEF LoadTotal, Consistent, TypeOK, Reading
  <2> QED BY <2>1, <2>2, <2>3, <2>4
<1>7. ASSUME NEW c \in Clients, LoadReserve(c)
      PROVE  /\ TypeOK' /\ ReserveAccounted' /\ NeverOverReserved' /\ (total <= peak)'
             /\ \A d \in Clients : Consistent(d)'
  <2>1. TypeOK'
    BY <1>7, <1>b DEF LoadReserve, TypeOK, PCs, Reading
  <2>2. ReserveAccounted'
    BY <1>7, AccountingFrame DEF LoadReserve
  <2>3. NeverOverReserved' /\ (total <= peak)'
    BY <1>7, <1>b DEF LoadReserve, NeverOverReserved
  <2>4. \A d \in Clients : Consistent(d)'
    BY <1>7, <1>a, <1>b DEF LoadReserve, Consistent, TypeOK, Reading
  <2> QED BY <2>1, <2>2, <2>3, <2>4
<1>8. ASSUME NEW c \in Clients, ReturnBalance(c)
      PROVE  /\ TypeOK' /\ ReserveAccounted' /\ NeverOverReserved' /\ (total <= peak)'
             /\ \A d \in Clients : Consistent(d)'
  <2>1. TypeOK'
    BY <1>8, <1>b DEF ReturnBalance, TypeOK, PCs, Return, Discard
  <2>2. ReserveAccounted'
    BY <1>8, AccountingFrame DEF ReturnBalance
  <2>3. NeverOverReserved' /\ (total <= peak)'
    BY <1>8, <1>b DEF ReturnBalance, NeverOverReserved
  <2>4. \A d \in Clients : Consistent(d)'
    BY <1>8, <1>a, <1>b DEF ReturnBalance, Consistent, TypeOK, Return, Discard
  <2> QED BY <2>1, <2>2, <2>3, <2>4
<1>9. ASSUME NEW c \in Clients, Refuse(c)
      PROVE  /\ TypeOK' /\ ReserveAccounted' /\ NeverOverReserved' /\ (total <= peak)'
             /\ \A d \in Clients : Consistent(d)'
  <2>1. TypeOK'
    BY <1>9, <1>b DEF Refuse, TypeOK, PCs, Return, Discard
  <2>2. ReserveAccounted'
    BY <1>9, AccountingFrame DEF Refuse
  <2>3. NeverOverReserved' /\ (total <= peak)'
    BY <1>9, <1>b DEF Refuse, NeverOverReserved
  <2>4. \A d \in Clients : Consistent(d)'
    BY <1>9, <1>a, <1>b DEF Refuse, Consistent, TypeOK, Return, Discard
  <2> QED BY <2>1, <2>2, <2>3, <2>4
<1>10. ASSUME NEW c \in Clients, CasReserve(c)
      PROVE  /\ TypeOK' /\ ReserveAccounted' /\ NeverOverReserved' /\ (total <= peak)'
             /\ \A d \in Clients : Consistent(d)'
  <2>1. TypeOK'
    BY <1>10, <1>b DEF CasReserve, TypeOK, PCs, NewReserve, Discard
  <2>2. ReserveAccounted'
    <3>1. out[c] = 0 /\ qty[c] \in 0..MaxAmount
      BY <1>10, <1>b DEF CasReserve, Consistent, TypeOK
    <3>2. Sum(Clients, [out EXCEPT ![c] = qty[c]]) = Sum(Clients, out) - out[c] + qty[c]
      BY <1>a, <3>1, SumUpdate
    <3>3. Sum(Clients, out)' = Sum(Clients, [out EXCEPT ![c] = qty[c]])
      BY <1>10 DEF CasReserve, Sum, Units
    <3> QED
      BY <1>10, <1>a, <1>b, <3>1, <3>2, <3>3 DEF CasReserve, NewReserve, ReserveAccounted
  <2>3. NeverOverReserved' /\ (total <= peak)'
    BY <1>10, <1>b DEF CasReserve, Insufficient, Available, NewReserve, Consistent,
                    NeverOverReserved, TypeOK
  <2>4. \A d \in Clients : Consistent(d)'
    BY <1>10, <1>a, <1>b DEF CasReserve, Consistent, TypeOK, NewReserve, Discard
  <2> QED BY <2>1, <2>2, <2>3, <2>4
<1>11. ASSUME NEW c \in Clients, CasReserveFails(c)
      PROVE  /\ TypeOK' /\ ReserveAccounted' /\ NeverOverReserved' /\ (total <= peak)'
             /\ \A d \in Clients : Consistent(d)'
  <2>1. TypeOK'
    BY <1>11, <1>b DEF CasReserveFails, TypeOK, PCs, Discard
  <2>2. ReserveAccounted'
    BY <1>11, AccountingFrame DEF CasReserveFails
  <2>3. NeverOverReserved' /\ (total <= peak)'
    BY <1>11, <1>b DEF CasReserveFails, NeverOverReserved
  <2>4. \A d \in Clients : Consistent(d)'
    BY <1>11, <1>a, <1>b DEF CasReserveFails, Consistent, TypeOK, Discard
  <2> QED BY <2>1, <2>2, <2>3, <2>4
<1>12. ASSUME NEW c \in Clients, Granted(c)
      PROVE  /\ TypeOK' /\ ReserveAccounted' /\ NeverOverReserved' /\ (total <= peak)'
             /\ \A d \in Clients : Consistent(d)'
  <2>1. TypeOK'
    BY <1>12, <1>b DEF Granted, TypeOK, PCs, Return, Discard
  <2>2. ReserveAccounted'
    BY <1>12, AccountingFrame DEF Granted
  <2>3. NeverOverReserved' /\ (total <= peak)'
    BY <1>12, <1>b DEF Granted, NeverOverReserved
  <2>4. \A d \in Clients : Consistent(d)'
    BY <1>12, <1>a, <1>b DEF Granted, Consistent, TypeOK, Return, Discard
  <2> QED BY <2>1, <2>2, <2>3, <2>4
<1>13. ASSUME NEW c \in Clients, Rollback(c)
      PROVE  /\ TypeOK' /\ ReserveAccounted' /\ NeverOverReserved' /\ (total <= peak)'
             /\ \A d \in Clients : Consistent(d)'
  <2>1. TypeOK'
    BY <1>13, <1>b DEF Rollback, TypeOK, PCs, Discard
  <2>2. ReserveAccounted'
    BY <1>13, AccountingFrame DEF Rollback
  <2>3. NeverOverReserved' /\ (total <= peak)'
    BY <1>13, <1>b DEF Rollback, NeverOverReserved
  <2>4. \A d \in Clients : Consistent(d)'
    BY <1>13, <1>a, <1>b DEF Rollback, Consistent, TypeOK, Discard
  <2> QED BY <2>1, <2>2, <2>3, <2>4
<1>14. ASSUME NEW c \in Clients, CasUnreserve(c)
      PROVE  /\ TypeOK' /\ ReserveAccounted' /\ NeverOverReserved' /\ (total <= peak)'
             /\ \A d \in Clients : Consistent(d)'
  <2>1. TypeOK'
    BY <1>14, <1>b DEF CasUnreserve, TypeOK, PCs, Consistent, Return, Discard
  <2>2. ReserveAccounted'
    <3> DEFINE rest == out[c] - qty[c]
    <3>1. rest \in 0..MaxAmount /\ out[c] \in Nat /\ qty[c] \in Nat
      BY <1>14, <1>b DEF CasUnreserve, Consistent, TypeOK
    <3>2. Sum(Clients, out)' = Sum(Clients, [out EXCEPT ![c] = rest])
      BY <1>14 DEF CasUnreserve, Sum, Units
    <3>3. reserve' = Sum(Clients, out) - qty[c]
      BY <1>14, <1>b DEF CasUnreserve, ReserveAccounted
    <3>4. rest = out[c] - qty[c]
      OBVIOUS
    <3> HIDE DEF rest
    <3>5. Sum(Clients, [out EXCEPT ![c] = rest]) = Sum(Clients, out) - out[c] + rest
      BY <1>a, <3>1, SumUpdate
    <3>6. Sum(Clients, out) \in Nat
      BY <1>a, SumType
    <3> QED
      BY <3>1, <3>2, <3>3, <3>4, <3>5, <3>6 DEF ReserveAccounted
  <2>3. NeverOverReserved' /\ (total <= peak)'
    BY <1>14, <1>a, <1>b DEF CasUnreserve, NeverOverReserved, Consistent, TypeOK
  <2>4. \A d \in Clients : Consistent(d)'
    BY <1>14, <1>a, <1>b DEF CasUnreserve, Consistent, TypeOK, Consistent, Return, Discard
  <2> QED BY <2>1, <2>2, <2>3, <2>4
<1>15. ASSUME NEW c \in Clients, CasUnreserveFails(c)
      PROVE  /\ TypeOK' /\ ReserveAccounted' /\ NeverOverReserved' /\ (total <= peak)'
             /\ \A d \in Clients : Consistent(d)'
  <2>1. TypeOK'
    BY <1>15, <1>b DEF CasUnreserveFails, TypeOK, PCs
  <2>2. ReserveAccounted'
    BY <1>15, AccountingFrame DEF CasUnreserveFails
  <2>3. NeverOverReserved' /\ (total <= peak)'
    BY <1>15, <1>b DEF CasUnreserveFails, NeverOverReserved
  <2>4. \A d \in Clients : Consistent(d)'
    BY <1>15, <1>a, <1>b DEF CasUnreserveFails, Consistent, TypeOK
  <2> QED BY <2>1, <2>2, <2>3, <2>4
<1> QED
  BY <1>1, <1>2, <1>3, <1>4, <1>5, <1>6, <1>7, <1>8, <1>9, <1>10, <1>11, <1>12, <1>13, <1>14, <1>15 DEF Next, Call, Step

\* Type correctness, for every set of clients and every bound.
THEOREM TypeCorrect == Spec => []TypeOK
<1>1. IInv => TypeOK
  BY DEF IInv
<1> QED
  BY <1>1, InitIInv, NextIInv, PTL DEF Spec

\* The compare-and-swap loops of any number of threads keep `reserve' equal to
\* the sum of what the threads have inside it.
THEOREM AccountingCorrect == Spec => []ReserveAccounted
<1>1. IInv => ReserveAccounted
  BY DEF IInv
<1> QED
  BY <1>1, InitIInv, NextIInv, PTL DEF Spec

\* However stale the two loads of getBalance are, no schedule reserves more than
\* the largest total the exchange has reported.
THEOREM OverReserveImpossible == Spec => []NeverOverReserved
<1>1. IInv => NeverOverReserved
  BY DEF IInv
<1> QED
  BY <1>1, InitIInv, NextIInv, PTL DEF Spec

-----------------------------------------------------------------------------
(***************************************************************************)
(* Proof that what reserveBalance has granted never exceeds half of the     *)
(* largest total, for any number of clients.                                *)
(*                                                                         *)
(* Take any set S of clients.  The one of them whose swap came last had the *)
(* whole of S in its new reserve, and its second getBalance, made after     *)
(* that swap, loads a reserve that still has the whole of S in it.  So if   *)
(* that call returns true, twice the sum over S is at most a total it has   *)
(* loaded.  The invariant says this without naming the order of the swaps:  *)
(* either the sum is already known to fit, or some client of S is still     *)
(* between its swap and its return and vouches for S.                       *)
(***************************************************************************)

\* Client c has swapped, has not returned, and will not return true unless
\* twice the sum over S fits into a total.
Vouches(c, S) ==
  \/ pc[c] = "rollback"
  \/ /\ pc[c] = "recheck"
     /\ Sum(S, out) <= NewReserve(c)
     /\ "reserve" \in loaded[c] => Sum(S, out) <= second[c]

Covered(S) == 2 * Sum(S, out) <= peak \/ \E c \in S : Vouches(c, S)

HalfInv == IInv /\ \A S \in SUBSET Clients : Covered(S)

\* A sum over fewer clients is not larger.
LEMMA SumSubset ==
  ASSUME NEW T \in SUBSET Clients, NEW S \in SUBSET T, NEW f \in Quantities
  PROVE  Sum(S, f) <= Sum(T, f)
<1>1. Units(S, f) \in SUBSET Units(T, f)
  BY DEF Units
<1>2. IsFiniteSet(Units(T, f))
  BY SumType
<1> QED
  BY <1>1, <1>2, FS_Subset DEF Sum

\* The sums are functions of `out' alone.
LEMMA SumFrame ==
  ASSUME NEW S \in SUBSET Clients, UNCHANGED out
  PROVE  Sum(S, out)' = Sum(S, out)
BY DEF Sum, Units

\* A step of a client that vouches for nothing, before and after, and that
\* leaves the quantities alone, keeps every set covered.
LEMMA CoveredFrame ==
  ASSUME HalfInv, UNCHANGED out, peak \in Nat, peak' \in Nat, peak <= peak',
         NEW c,
         pc[c] \notin {"recheck", "rollback"},
         \A d \in Clients \ {c} :
            UNCHANGED <<pc[d], cur[d], qty[d], loaded[d], second[d]>>
  PROVE  \A S \in SUBSET Clients : Covered(S)'
<1> SUFFICES ASSUME NEW S \in SUBSET Clients
             PROVE  Covered(S)'
  OBVIOUS
<1>1. Sum(S, out)' = Sum(S, out) /\ Sum(S, out) \in Nat
  BY SumFrame, ReserveBounds, SumType DEF HalfInv
<1>2. CASE 2 * Sum(S, out) <= peak
  BY <1>1, <1>2 DEF Covered
<1>3. ASSUME NEW d \in S, Vouches(d, S)
      PROVE  Covered(S)'
  <2>1. d \in Clients \ {c}
    BY <1>3 DEF Vouches
  <2>2. Vouches(d, S)'
    BY <1>1, <1>3, <2>1 DEF Vouches, NewReserve
  <2> QED BY <2>2 DEF Covered
<1> QED BY <1>2, <1>3 DEF HalfInv, Covered

\* A new total does not uncover a set: the peak only grows.
LEMMA CoveredUpdate ==
  ASSUME HalfInv, NEW v \in Totals, UpdateBalance(v)
  PROVE  \A S \in SUBSET Clients : Covered(S)'
<1> SUFFICES ASSUME NEW S \in SUBSET Clients
             PROVE  Covered(S)'
  OBVIOUS
<1>1. Sum(S, out)' = Sum(S, out) /\ Sum(S, out) \in Nat
  BY SumFrame, ReserveBounds, SumType DEF HalfInv, UpdateBalance
<1>2. peak \in Nat /\ peak' \in Nat /\ peak <= peak'
  BY TotalsAssumption DEF TotalsAssumption, UpdateBalance, HalfInv, IInv, TypeOK
<1>3. CASE 2 * Sum(S, out) <= peak
  BY <1>1, <1>2, <1>3 DEF Covered
<1>4. ASSUME NEW d \in S, Vouches(d, S)
      PROVE  Covered(S)'
  BY <1>1, <1>4 DEF Vouches, Covered, NewReserve, UpdateBalance
<1> QED BY <1>3, <1>4 DEF HalfInv, Covered

\* Loading `total' does not matter to who vouches for what.
LEMMA CoveredLoadTotal ==
  ASSUME HalfInv, NEW c \in Clients, LoadTotal(c)
  PROVE  \A S \in SUBSET Clients : Covered(S)'
<1> SUFFICES ASSUME NEW S \in SUBSET Clients
             PROVE  Covered(S)'
  OBVIOUS
<1>1. Sum(S, out)' = Sum(S, out) /\ Sum(S, out) \in Nat
  BY SumFrame, ReserveBounds, SumType DEF HalfInv, LoadTotal
<1>2. TypeOK
  BY DEF HalfInv, IInv
<1>3. CASE 2 * Sum(S, out) <= peak
  BY <1>1, <1>3 DEF Covered, LoadTotal
<1>4. ASSUME NEW d \in S, Vouches(d, S)
      PROVE  Covered(S)'
  <2>1. "reserve" \in loaded'[d] => "reserve" \in loaded[d]
    BY <1>2 DEF LoadTotal, TypeOK
  <2>2. Vouches(d, S)'
    BY <1>1, <1>4, <2>1 DEF Vouches, NewReserve, LoadTotal
  <2> QED BY <2>2 DEF Covered
<1> QED BY <1>3, <1>4 DEF HalfInv, Covered

\* The reserve loaded after the swap has every set in it.
LEMMA CoveredLoadReserve ==
  ASSUME HalfInv, NEW c \in Clients, LoadReserve(c)
  PROVE  \A S \in SUBSET Clients : Covered(S)'
<1> SUFFICES ASSUME NEW S \in SUBSET Clients
             PROVE  Covered(S)'
  OBVIOUS
<1>1. Sum(S, out)' = Sum(S, out) /\ Sum(S, out) \in Nat
  BY SumFrame, ReserveBounds, SumType DEF HalfInv, LoadReserve
<1>2. TypeOK /\ ReserveAccounted
  BY DEF HalfInv, IInv
<1>3. Sum(S, out) <= reserve
  BY <1>2, SumSubset, ReserveBounds DEF HalfInv, ReserveAccounted
<1>4. CASE 2 * Sum(S, out) <= peak
  BY <1>1, <1>4 DEF Covered, LoadReserve
<1>5. ASSUME NEW d \in S, Vouches(d, S)
      PROVE  Covered(S)'
  <2>1. "reserve" \in loaded'[d] => Sum(S, out) <= second'[d] \/ pc[d] = "rollback"
    BY <1>2, <1>3, <1>5 DEF LoadReserve, TypeOK, Vouches
  <2>2. Vouches(d, S)'
    BY <1>1, <1>5, <2>1 DEF Vouches, NewReserve, LoadReserve
  <2> QED BY <2>2 DEF Covered
<1> QED BY <1>4, <1>5 DEF HalfInv, Covered

\* The client that swaps has every set it belongs to in its new reserve.
LEMMA CoveredCasReserve ==
  ASSUME HalfInv, NEW c \in Clients, CasReserve(c)
  PROVE  \A S \in SUBSET Clients : Covered(S)'
<1> SUFFICES ASSUME NEW S \in SUBSET Clients
             PROVE  Covered(S)'
  OBVIOUS
<1>1. TypeOK /\ out \in Quantities /\ out' \in Quantities
  BY ReserveBounds DEF HalfInv, IInv, CasReserve, TypeOK, Quantities
<1>2. CASE c \in S
  <2>1. (IInv)'
    BY NextIInv DEF HalfInv, Next, Step
  <2>2. Sum(S, out') <= Sum(Clients, out')
    BY <1>1, SumSubset
  <2>3. Sum(S, out') <= reserve'
    BY <2>1, <2>2 DEF IInv, ReserveAccounted, Sum, Units
  <2>4. Sum(S, out)' <= NewReserve(c)'
    BY <2>3 DEF Sum, Units, CasReserve, NewReserve
  <2>5. Vouches(c, S)'
    BY <1>1, <2>4 DEF Vouches, CasReserve, Discard, TypeOK
  <2> QED BY <1>2, <2>5 DEF Covered
<1>3. CASE c \notin S
  <2>1. Sum(S, [out EXCEPT ![c] = qty[c]]) = Sum(S, out)
    BY <1>1, <1>3, SumOthers
  <2>2. Sum(S, out)' = Sum(S, out)
    BY <2>1 DEF CasReserve, Sum, Units
  <2>3. CASE 2 * Sum(S, out) <= peak
    BY <2>2, <2>3 DEF Covered, CasReserve
  <2>4. ASSUME NEW d \in S, Vouches(d, S)
        PROVE  Covered(S)'
    <3>1. d # c
      BY <1>3
    <3>2. Vouches(d, S)'
      BY <1>1, <2>2, <2>4, <3>1 DEF Vouches, NewReserve, CasReserve, Discard, TypeOK
    <3> QED BY <3>2 DEF Covered
  <2> QED BY <2>3, <2>4 DEF HalfInv, Covered
<1> QED BY <1>2, <1>3

\* A call that returns true has compared what it vouched for with a total.
LEMMA CoveredGranted ==
  ASSUME HalfInv, NEW c \in Clients, Granted(c)
  PROVE  \A S \in SUBSET Clients : Covered(S)'
<1> SUFFICES ASSUME NEW S \in SUBSET Clients
             PROVE  Covered(S)'
  OBVIOUS
<1>1. Sum(S, out)' = Sum(S, out) /\ Sum(S, out) \in Nat
  BY SumFrame, ReserveBounds, SumType DEF HalfInv, Granted
<1>2. TypeOK /\ Consistent(c)
  BY DEF HalfInv, IInv
<1>3. CASE 2 * Sum(S, out) <= peak
  BY <1>1, <1>3 DEF Covered, Granted
<1>4. ASSUME NEW d \in S, Vouches(d, S)
      PROVE  Covered(S)'
  <2>1. CASE d = c
    <3>1. Sum(S, out) <= NewReserve(c) /\ Sum(S, out) <= second[c]
      BY <1>4, <2>1 DEF Vouches, Granted, Loaded
    <3>2. NewReserve(c) <= first[c] - second[c] /\ first[c] <= peak
      BY <1>2 DEF Granted, Available, Consistent, NewReserve, TypeOK
    <3>3. 2 * Sum(S, out) <= peak
      BY <1>1, <1>2, <3>1, <3>2 DEF TypeOK, NewReserve
    <3> QED BY <1>1, <3>3 DEF Covered, Granted
  <2>2. CASE d # c
    BY <1>1, <1>2, <1>4, <2>2 DEF Vouches, Covered, NewReserve, Granted, Return, Discard, TypeOK
  <2> QED BY <2>1, <2>2
<1> QED BY <1>3, <1>4 DEF HalfInv, Covered

\* A call that rolls back will not return true.
LEMMA CoveredRollback ==
  ASSUME HalfInv, NEW c \in Clients, Rollback(c)
  PROVE  \A S \in SUBSET Clients : Covered(S)'
<1> SUFFICES ASSUME NEW S \in SUBSET Clients
             PROVE  Covered(S)'
  OBVIOUS
<1>1. Sum(S, out)' = Sum(S, out) /\ Sum(S, out) \in Nat
  BY SumFrame, ReserveBounds, SumType DEF HalfInv, Rollback
<1>2. TypeOK
  BY DEF HalfInv, IInv
<1>3. CASE 2 * Sum(S, out) <= peak
  BY <1>1, <1>3 DEF Covered, Rollback
<1>4. ASSUME NEW d \in S, Vouches(d, S)
      PROVE  Covered(S)'
  BY <1>1, <1>2, <1>4 DEF Vouches, Covered, NewReserve, Rollback, Discard, TypeOK
<1> QED BY <1>3, <1>4 DEF HalfInv, Covered

\* Giving back only lowers the sums; a client that has rolled back leaves every
\* set it belonged to covered by the others.
LEMMA CoveredCasUnreserve ==
  ASSUME HalfInv, NEW c \in Clients, CasUnreserve(c)
  PROVE  \A S \in SUBSET Clients : Covered(S)'
<1> DEFINE rest == out[c] - qty[c]
<1>1. TypeOK /\ Consistent(c) /\ out \in Quantities
  BY ReserveBounds DEF HalfInv, IInv
<1>2. rest \in 0..MaxAmount /\ rest <= out[c] /\ (pc[c] = "rollback" => rest = 0)
  <2>1. /\ pc[c] \in {"rollback", "release"}
        /\ out[c] \in 0..MaxAmount /\ qty[c] \in 0..MaxAmount
    BY <1>1 DEF CasUnreserve, TypeOK
  <2>2. qty[c] <= out[c] /\ (pc[c] = "rollback" => out[c] = qty[c])
    BY <1>1, <2>1 DEF Consistent
  <2>3. rest \in 0..MaxAmount /\ rest <= out[c]
    BY <2>1, <2>2
  <2>4. pc[c] = "rollback" => rest = 0
    BY <2>1, <2>2
  <2> QED BY <2>3, <2>4
<1>3. out' = [out EXCEPT ![c] = rest] /\ out' \in Quantities
  BY <1>1, <1>2 DEF CasUnreserve, Quantities
<1> HIDE DEF rest
<1>4. ASSUME NEW S \in SUBSET Clients
      PROVE  Sum(S, out)' = Sum(S, out')
  BY DEF Sum, Units
<1>5. ASSUME NEW T \in SUBSET Clients, c \notin T
      PROVE  Sum(T, out') = Sum(T, out)
  <2>1. c \in Clients \ T
    BY <1>5
  <2>2. Sum(T, [out EXCEPT ![c] = rest]) = Sum(T, out)
    BY <1>1, <2>1, SumOthers
  <2> QED BY <1>3, <2>2
<1>6. ASSUME NEW S \in SUBSET Clients
      PROVE  Sum(S, out') <= Sum(S, out) /\ Sum(S, out') \in Nat /\ Sum(S, out) \in Nat
  <2>1. Sum(S, out') \in Nat /\ Sum(S, out) \in Nat
    BY <1>1, <1>3, SumType
  <2>2. CASE c \notin S
    BY <1>5, <2>1, <2>2
  <2>3. CASE c \in S
    <3>1. Sum(S, out') = Sum(S, out) - out[c] + rest
      BY <1>1, <1>2, <1>3, <2>3, SumUpdate
    <3> QED BY <1>1, <1>2, <2>1, <3>1 DEF Quantities
  <2> QED BY <2>1, <2>2, <2>3
<1>7. ASSUME NEW S \in SUBSET Clients, 2 * Sum(S, out) <= peak
      PROVE  Covered(S)'
  <2>1. peak' = peak /\ peak \in Nat
    BY <1>1 DEF CasUnreserve, TypeOK
  <2>2. 2 * Sum(S, out') <= peak
    BY <1>6, <1>7, <2>1
  <2> QED BY <1>4, <2>1, <2>2 DEF Covered
<1>8. ASSUME NEW S \in SUBSET Clients, NEW d \in S, d # c, Vouches(d, S)
      PROVE  Covered(S)'
  <2>1. \/ pc[d] = "rollback"
        \/ /\ pc[d] = "recheck"
           /\ Sum(S, out') <= NewReserve(d)
           /\ "reserve" \in loaded[d] => Sum(S, out') <= second[d]
    BY <1>1, <1>6, <1>8 DEF Vouches, NewReserve, TypeOK
  <2>2. UNCHANGED <<pc[d], cur[d], qty[d], loaded[d], second[d]>>
    BY <1>1, <1>8 DEF CasUnreserve, Return, Discard, TypeOK
  <2> QED BY <1>4, <2>1, <2>2 DEF Covered, Vouches, NewReserve
<1>9. ASSUME NEW S \in SUBSET Clients, c \in S, Vouches(c, S)
      PROVE  Covered(S)'
  <2> DEFINE T == S \ {c}
  <2>1. pc[c] = "rollback" /\ rest = 0
    BY <1>2, <1>9 DEF CasUnreserve, Vouches
  <2>2. Covered(T)'
    <3>1. Covered(T)
      BY DEF HalfInv
    <3> QED BY <1>7, <1>8, <3>1 DEF Covered
  <2>3. Sum(S, out') = Sum(T, out')
    <3>1. Sum(S, out') = Sum(T, out') + out'[c]
      BY <1>3, <1>9, SumSplit
    <3>2. out'[c] = 0 /\ Sum(T, out') \in Nat
      BY <1>1, <1>3, <1>6, <2>1 DEF Quantities
    <3> QED BY <3>1, <3>2
  <2>4. Sum(S, out)' = Sum(T, out)'
    BY <1>4, <2>3
  <2> QED BY <2>2, <2>4 DEF Covered, Vouches
<1> QED BY <1>7, <1>8, <1>9 DEF HalfInv, Covered

\* The invariant holds after the constructor.
LEMMA InitHalfInv == Init => HalfInv
<1> SUFFICES ASSUME Init PROVE HalfInv
  OBVIOUS
<1>1. \A S \in SUBSET Clients : Sum(S, out) = 0
  BY SumZero DEF Init
<1> QED
  BY <1>1, InitIInv DEF Init, HalfInv, Covered

\* No step leaves the invariant.
LEMMA NextHalfInv == HalfInv /\ [Next]_vars => HalfInv'
<1> SUFFICES ASSUME HalfInv, [Next]_vars
             PROVE  \A S \in SUBSET Clients : Covered(S)'
  BY NextIInv DEF HalfInv
<1>a. TypeOK
  BY DEF HalfInv, IInv
<1>1. CASE UNCHANGED vars
  BY <1>1 DEF vars, HalfInv, Covered, Vouches, NewReserve, Sum, Units
<1>2. ASSUME NEW v \in Totals, UpdateBalance(v)
      PROVE  \A S \in SUBSET Clients : Covered(S)'
  BY <1>2, CoveredUpdate
<1>3. ASSUME NEW c \in Clients, NEW q \in Amounts,
             ReserveBalance(c, q) \/ UnreserveBalance(c, q)
      PROVE  \A S \in SUBSET Clients : Covered(S)'
  BY <1>3, <1>a, CoveredFrame DEF ReserveBalance, UnreserveBalance, TypeOK
<1>4. ASSUME NEW c \in Clients, GetBalance(c) \/ ReturnBalance(c)
      PROVE  \A S \in SUBSET Clients : Covered(S)'
  BY <1>4, <1>a, CoveredFrame DEF GetBalance, ReturnBalance, Return, Discard, TypeOK
<1>5. ASSUME NEW c \in Clients, Refuse(c) \/ CasReserveFails(c)
      PROVE  \A S \in SUBSET Clients : Covered(S)'
  BY <1>5, <1>a, CoveredFrame DEF Refuse, CasReserveFails, Return, Discard, TypeOK
<1>6. ASSUME NEW c \in Clients, CasUnreserveFails(c)
      PROVE  \A S \in SUBSET Clients : Covered(S)'
  <2>1. ASSUME NEW S \in SUBSET Clients, NEW d \in S, Vouches(d, S)
        PROVE  Vouches(d, S)'
    BY <1>6, <1>a, <2>1, SumFrame DEF CasUnreserveFails, Vouches, NewReserve, TypeOK
  <2> QED BY <1>6, <2>1, SumFrame DEF HalfInv, Covered, CasUnreserveFails
<1> QED
  BY <1>1, <1>2, <1>3, <1>4, <1>5, <1>6, CoveredLoadTotal, CoveredLoadReserve,
     CoveredCasReserve, CoveredGranted, CoveredRollback, CoveredCasUnreserve
     DEF Next, Call, Step

\* What the clients hold together is at most half of the largest total, for any
\* number of threads and any interleaving of their loads and swaps.
THEOREM GrantedHalfCorrect == Spec => []GrantedHalf
<1>1. HalfInv => GrantedHalf
  <2> SUFFICES ASSUME HalfInv PROVE GrantedHalf
    OBVIOUS
  <2>1. Covered(Holding)
    BY DEF HalfInv, Holding
  <2>2. \A c \in Holding : ~Vouches(c, Holding)
    BY DEF Holding, Vouches
  <2> QED BY <2>1, <2>2 DEF Covered, GrantedHalf
<1> QED
  BY <1>1, InitHalfInv, NextHalfInv, PTL DEF Spec

-----------------------------------------------------------------------------

View == [c \in Clients |-> IF c \in Holding THEN out[c] ELSE 0]

\* The ledger counts with the same Cardinality.
LEMMA SameCardinality == \A S : Ledger!Cardinality(S) = Cardinality(S)
BY DEF Ledger!Cardinality, Cardinality, Ledger!IsFiniteSet, IsFiniteSet

\* The sum of the abstract grants is the sum over the clients that hold.
LEMMA ViewSum ==
  ASSUME TypeOK
  PROVE  Ledger!Cardinality(Ledger!Units) = Sum(Holding, out)
<1>1. Ledger!Units = Units(Holding, out)
  BY DEF Ledger!Units, Ledger!Amounts, Units, Amounts, Holding, TypeOK
<1> QED BY <1>1, SameCardinality DEF Sum

\* The connector's constructor is the initial ledger.
LEMMA LedgerInit == Init => Ledger!Init
BY DEF Init, Ledger!Init, Holding

\* Steps that keep who holds what and the peak are invisible to the callers.
LEMMA Stutter ==
  ASSUME UNCHANGED peak, View' = View
  PROVE  UNCHANGED Ledger!vars
BY DEF Ledger!vars, View

\* A step of one client that neither holds before nor after, or that holds the
\* same before and after, is invisible.
LEMMA ViewFrame ==
  ASSUME NEW c \in Clients, UNCHANGED peak,
         \A d \in Clients \ {c} : UNCHANGED <<pc[d], out[d]>>,
         (c \in Holding)' <=> c \in Holding,
         c \in Holding => UNCHANGED out[c]
  PROVE  UNCHANGED Ledger!vars
<1>1. \A d \in Clients : View'[d] = View[d]
  BY DEF View, Holding
<1>2. View' = View
  BY <1>1 DEF View
<1> QED BY <1>2, Stutter

\* A call of reserveBalance that returns true is an abstract grant.
LEMMA GrantedIsGrant ==
  ASSUME HalfInv, HalfInv', NEW c \in Clients, Granted(c)
  PROVE  Ledger!Next
<1>1. TypeOK /\ TypeOK' /\ Consistent(c) /\ out \in Quantities
  BY ReserveBounds DEF HalfInv, IInv
<1>2. c \notin Holding /\ Holding' = Holding \union {c} /\ out' = out
  BY <1>1 DEF Granted, Return, Holding, TypeOK
<1>3. out[c] \in Amounts
  BY <1>1 DEF Granted, Consistent, TypeOK, Amounts
<1>4. 2 * (Ledger!Cardinality(Ledger!Units) + out[c]) <= peak
  <2> DEFINE H == Holding \union {c}
  <2>1. H \in SUBSET Clients /\ \A d \in H : pc'[d] \notin {"recheck", "rollback"}
    BY <1>1, <1>2 DEF Holding, Granted, Return, TypeOK
  <2>2. \A S \in SUBSET Clients :
          \/ 2 * Sum(S, out') <= peak'
          \/ \E d \in S : pc'[d] \in {"recheck", "rollback"}
    BY DEF HalfInv, Covered, Vouches, Sum, Units
  <2>3. 2 * Sum(H, out) <= peak
    <3>1. 2 * Sum(H, out') <= peak'
      BY <2>1, <2>2
    <3> QED BY <1>2, <3>1 DEF Granted
  <2>4. Sum(H, out) = Sum(H \ {c}, out) + out[c]
    BY <1>1, <2>1, SumSplit
  <2>5. H \ {c} = Holding
    BY <1>2
  <2>6. Ledger!Cardinality(Ledger!Units) = Sum(Holding, out)
    BY <1>1, ViewSum
  <2> HIDE DEF H
  <2> QED BY <2>3, <2>4, <2>5, <2>6
<1>5. View[c] = 0
  BY <1>2 DEF View
<1>6. View' = [View EXCEPT ![c] = out[c]]
  <2>1. \A d \in Clients : View'[d] = [View EXCEPT ![c] = out[c]][d]
    BY <1>2 DEF View
  <2> QED BY <2>1 DEF View
<1>7. Ledger!Grant(c, out[c])
  <2>1. View[c] = 0 /\ View' = [View EXCEPT ![c] = out[c]] /\ UNCHANGED peak
    BY <1>5, <1>6 DEF Granted
  <2> QED BY <1>4, <2>1 DEF Ledger!Grant, View
<1> QED
  BY <1>3, <1>7 DEF Ledger!Next, Ledger!Grant, Ledger!Amounts, Amounts

\* The swap of an unreserveBalance called by a client is an abstract return.
LEMMA ReleaseIsGiveBack ==
  ASSUME HalfInv, NEW c \in Clients, CasUnreserve(c), pc[c] = "release"
  PROVE  Ledger!Next
<1>1. TypeOK /\ Consistent(c)
  BY DEF HalfInv, IInv
<1>2. qty[c] \in Amounts /\ qty[c] <= out[c] /\ out[c] \in Nat
  BY <1>1 DEF Consistent, TypeOK, Amounts
<1>3. c \in Holding /\ View[c] = out[c]
  BY DEF Holding, View
<1>4. View' = [View EXCEPT ![c] = View[c] - qty[c]]
  <2>1. ASSUME NEW d \in Clients, d # c
        PROVE  View'[d] = View[d]
    BY <1>1, <2>1 DEF View, Holding, CasUnreserve, Return, TypeOK
  <2>2. View'[c] = View[c] - qty[c]
    <3>1. out'[c] = out[c] - qty[c]
      BY <1>1 DEF CasUnreserve, TypeOK
    <3>2. CASE out[c] = qty[c]
      <4>1. pc'[c] = "idle"
        BY <1>1, <3>2 DEF CasUnreserve, Return, TypeOK
      <4>2. View'[c] = 0
        BY <4>1 DEF View, Holding
      <4> QED BY <1>2, <1>3, <3>2, <4>2 DEF Amounts
    <3>3. CASE out[c] # qty[c]
      <4>1. pc'[c] = "held"
        BY <1>1, <3>3 DEF CasUnreserve, Return, TypeOK
      <4>2. View'[c] = out'[c]
        BY <4>1 DEF View, Holding
      <4> QED BY <1>3, <3>1, <4>2
    <3> QED BY <3>2, <3>3
  <2> QED BY <2>1, <2>2 DEF View
<1>5. Ledger!GiveBack(c, qty[c])
  BY <1>2, <1>3, <1>4 DEF Ledger!GiveBack, View, CasUnreserve
<1> QED
  BY <1>2, <1>5 DEF Ledger!Next, Ledger!GiveBack, Ledger!Amounts, Amounts

\* Every step of the connector is a step of the ledger or invisible.
LEMMA LedgerStep ==
  ASSUME HalfInv, HalfInv', [Next]_vars
  PROVE  [Ledger!Next]_(Ledger!vars)
<1>a. TypeOK /\ \A d \in Clients : Consistent(d)
  BY DEF HalfInv, IInv
<1>1. CASE UNCHANGED vars
  BY <1>1 DEF vars, Ledger!vars, Holding
<1>2. ASSUME NEW v \in Totals, UpdateBalance(v)
      PROVE  [Ledger!Next]_(Ledger!vars)
  <2>1. View' = View
    BY <1>2 DEF UpdateBalance, View, Holding
  <2>2. CASE v > peak
    BY <1>2, <2>1, <2>2 DEF UpdateBalance, Ledger!Next, Ledger!Report, View
  <2>3. CASE ~(v > peak)
    BY <1>2, <2>1, <2>3, Stutter DEF UpdateBalance
  <2> QED BY <2>2, <2>3
<1>3. ASSUME NEW c \in Clients, NEW q \in Amounts,
             ReserveBalance(c, q) \/ UnreserveBalance(c, q)
      PROVE  UNCHANGED Ledger!vars
  BY <1>3, <1>a, ViewFrame DEF ReserveBalance, UnreserveBalance, Holding, TypeOK
<1>4. ASSUME NEW c \in Clients,
             GetBalance(c) \/ ReturnBalance(c) \/ Refuse(c) \/ CasReserveFails(c)
      PROVE  UNCHANGED Ledger!vars
  BY <1>4, <1>a, ViewFrame DEF GetBalance, ReturnBalance, Refuse, CasReserveFails,
     Return, Holding, TypeOK
<1>5. ASSUME NEW c \in Clients,
             LoadTotal(c) \/ LoadReserve(c) \/ Rollback(c) \/ CasUnreserveFails(c)
      PROVE  UNCHANGED Ledger!vars
  BY <1>5, <1>a, ViewFrame DEF LoadTotal, LoadReserve, Rollback, CasUnreserveFails,
     Holding, TypeOK
<1>6. ASSUME NEW c \in Clients, CasReserve(c)
      PROVE  UNCHANGED Ledger!vars
  BY <1>6, <1>a, ViewFrame DEF CasReserve, Holding, TypeOK
<1>7. ASSUME NEW c \in Clients, CasUnreserve(c), pc[c] = "rollback"
      PROVE  UNCHANGED Ledger!vars
  <2>1. pc'[c] = "idle"
    BY <1>7, <1>a DEF CasUnreserve, Return, Consistent, TypeOK
  <2>2. \A d \in Clients \ {c} : UNCHANGED <<pc[d], out[d]>>
    BY <1>7, <1>a DEF CasUnreserve, Return, TypeOK
  <2> QED BY <1>7, <2>1, <2>2, ViewFrame DEF CasUnreserve, Holding
<1>8. ASSUME NEW c \in Clients, CasUnreserve(c), pc[c] # "rollback"
      PROVE  Ledger!Next
  BY <1>8, ReleaseIsGiveBack DEF CasUnreserve
<1> QED
  BY <1>1, <1>2, <1>3, <1>4, <1>5, <1>6, <1>7, <1>8, GrantedIsGrant
     DEF Next, Call, Step

\* The lock-free implementation implements the ledger of atomic grants.
THEOREM LedgerImplemented == Spec => ImplementsLedger
<1>1. HalfInv /\ HalfInv' /\ [Next]_vars => [Ledger!Next]_(Ledger!vars)
  BY LedgerStep
<1> QED
  BY <1>1, LedgerInit, InitHalfInv, NextHalfInv, PTL
     DEF Spec, ImplementsLedger, Ledger!Spec

=============================================================================
