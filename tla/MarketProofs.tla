---------------------------- MODULE MarketProofs ----------------------------
(***************************************************************************)
(* What a strategy trades with: the mixed order book with the reservations  *)
(* of its items, and the numbers that prices and amounts are.  Each is       *)
(* proved for itself; they share this module and no state.                   *)
(*                                                                         *)
(* The book, for any finite sets of exchanges and strategies, any prices     *)
(* and any bounds: what the strategies hold of a line is counted as a set   *)
(* of units <<strategy, i>>, so that sums follow from FiniteSetTheorems.     *)
(*                                                                         *)
(* The numbers, for any literals, any table of powers of ten, any width of   *)
(* a long and any number of operations: the laws of powers are shown by the  *)
(* least exponent for which they would fail, division by its quotient and    *)
(* remainder, and everything else at the larger number of digits of two.     *)
(***************************************************************************)
EXTENDS OrderBook, FixedNumber, FiniteSetTheorems, FunctionTheorems,
        WellFoundedInduction, TLAPS

Types ==
  /\ instrument \in Instruments
  /\ book \in [Keys -> Items \union {NULL}]
  /\ added \in SUBSET (Exchanges \X Instruments)
  /\ adding \in SUBSET (Exchanges \X Instruments)
  /\ reserve \in [Lines -> Int]
  /\ item \in [Strategies ->
       [key : Keys, instrument : Instruments, amount : Int \ {0}] \union {NoItem}]
  /\ held \in [Strategies -> Int]
  /\ read \in [Strategies -> Int \union {NULL}]
  /\ told \in [Keys -> Int]
  /\ repeated \in SUBSET Keys
  /\ peak \in [Lines -> Int]
  /\ mishaps \in SUBSET {"switched", "swept", "reset", "raced"}
  /\ updates \in Nat /\ configs \in Nat /\ grants \in Nat

\* The amount has the sign of its direction, and is within the peak of its line.
Listed(key, i, amount) ==
  /\ amount \in Amounts(key[2])
  /\ Toward(Line(key, i), amount) <= Toward(Line(key, i), peak[Line(key, i)])

\* Items and the copies of them, stale ones too, are within the peaks.
Peaks ==
  /\ \A k \in Keys : book[k] # NULL => Listed(k, book[k].instrument, book[k].amount)
  /\ \A s \in Strategies :
       item[s] # NoItem => Listed(item[s].key, item[s].instrument, item[s].amount)
  /\ \A l \in Lines : Toward(l, peak[l]) >= 0

\* What a strategy holds has the sign of its item's direction.
Holdings ==
  \A s \in Strategies :
    /\ item[s] = NoItem => held[s] = 0 /\ read[s] = NULL
    /\ item[s] # NoItem => Toward(LineOf(s), held[s]) >= 0

\* Between the two critical sections of unreserveAll, what was read is still
\* what the strategy holds.
Readings ==
  mishaps \intersect {"swept", "reset"} = {} =>
    \A s \in Strategies : read[s] # NULL => read[s] = held[s]

IInv == /\ Types /\ Peaks /\ Holdings /\ Readings
        /\ BookMatchesFeed /\ WithinListed /\ HoldersCovered

-----------------------------------------------------------------------------

(* One strategy's units are as many as its share.                            *)
LEMMA ColumnSize ==
  ASSUME NEW c, NEW n \in Nat
  PROVE  IsFiniteSet({c} \X (1..n)) /\ Cardinality({c} \X (1..n)) = n
<1> DEFINE pair == [i \in 1..n |-> <<c, i>>]
<1>1. IsFiniteSet(1..n) /\ Cardinality(1..n) = n
  BY FS_Interval
<1>2. pair \in Injection(1..n, {c} \X (1..n))
  BY DEF Injection, IsInjective
<1>3. \A t \in {c} \X (1..n) : \E i \in 1..n : pair[i] = t
  <2> SUFFICES ASSUME NEW i \in 1..n PROVE \E j \in 1..n : pair[j] = <<c, i>>
    OBVIOUS
  <2>1. pair[i] = <<c, i>>
    OBVIOUS
  <2> QED BY <2>1
<1>4. pair \in Bijection(1..n, {c} \X (1..n))
  BY <1>2, <1>3 DEF Bijection, Injection, Surjection
<1> QED
  BY <1>1, <1>4, FS_Bijection DEF ExistsBijection

(* The units of all strategies are finite.                                   *)
LEMMA UnitsFinite ==
  ASSUME NEW f \in [Strategies -> Nat]
  PROVE  IsFiniteSet(Units(f)) /\ Cardinality(Units(f)) \in Nat
<1> DEFINE column == [s \in Strategies |-> {s} \X (1..f[s])]
           columns == {{s} \X (1..f[s]) : s \in Strategies}
<1>1. IsFiniteSet(columns)
  <2>1. column \in Surjection(Strategies, columns)
    BY DEF Surjection
  <2> QED
    BY <2>1, FS_Surjection, ExchangesAssumption DEF ExchangesAssumption
<1>2. \A c \in columns : IsFiniteSet(c)
  <2> SUFFICES ASSUME NEW s \in Strategies PROVE IsFiniteSet({s} \X (1..f[s]))
    OBVIOUS
  <2> QED
    BY ColumnSize
<1>3. IsFiniteSet(Units(f))
  BY <1>1, <1>2, FS_UNION DEF Units
<1> QED
  BY <1>3, FS_CardinalityType

(* How the number of units changes with one strategy's share.                *)
LEMMA UnitsUpdate ==
  ASSUME NEW f \in [Strategies -> Nat], NEW c \in Strategies, NEW n \in Nat
  PROVE  Cardinality(Units([f EXCEPT ![c] = n])) = Cardinality(Units(f)) - f[c] + n
<1> DEFINE zero == [f EXCEPT ![c] = 0]
           A == Units(zero)
<1>1. ASSUME NEW g \in [Strategies -> Nat], \A s \in Strategies \ {c} : g[s] = f[s]
      PROVE  Cardinality(Units(g)) = Cardinality(A) + g[c]
  <2> DEFINE B == {c} \X (1..g[c])
  <2>1. Units(g) = A \union B
    <3>1. \A u \in Units(g) : u \in A \union B
      <4> SUFFICES ASSUME NEW s \in Strategies, NEW i \in 1..g[s]
                   PROVE  <<s, i>> \in A \union B
        BY DEF Units
      <4>1. CASE s = c
        BY <4>1
      <4>2. CASE s # c
        <5>1. i \in 1..zero[s]
          BY <1>1, <4>2
        <5> QED
          BY <5>1 DEF Units
      <4> QED BY <4>1, <4>2
    <3>2. \A u \in A : u \in Units(g)
      <4> SUFFICES ASSUME NEW s \in Strategies, NEW i \in 1..zero[s]
                   PROVE  <<s, i>> \in Units(g)
        BY DEF Units
      <4>1. s # c /\ i \in 1..g[s]
        BY <1>1
      <4> QED
        BY <4>1 DEF Units
    <3>3. \A u \in B : u \in Units(g)
      BY DEF Units
    <3> QED
      BY <3>1, <3>2, <3>3
  <2>2. A \intersect B = {}
    <3>1. \A s \in Strategies : \A i \in 1..zero[s] : s # c
      OBVIOUS
    <3>2. \A u \in A : u[1] # c
      BY <3>1 DEF Units
    <3> QED
      BY <3>2
  <2>3. IsFiniteSet(A) /\ Cardinality(A) \in Nat
    <3>1. zero \in [Strategies -> Nat]
      OBVIOUS
    <3> QED BY <3>1, UnitsFinite
  <2>4. g[c] \in Nat /\ IsFiniteSet(B) /\ Cardinality(B) = g[c]
    BY ColumnSize
  <2>5. Cardinality(A \intersect B) = 0
    BY <2>2, FS_EmptySet
  <2> HIDE DEF A, B
  <2>6. Cardinality(A \union B)
          = Cardinality(A) + Cardinality(B) - Cardinality(A \intersect B)
    BY <2>3, <2>4, FS_Union
  <2> QED
    BY <2>1, <2>3, <2>4, <2>5, <2>6
<1>2. Cardinality(A) \in Nat
  <2>1. zero \in [Strategies -> Nat]
    OBVIOUS
  <2> QED BY <2>1, UnitsFinite
<1>3. Cardinality(Units(f)) = Cardinality(A) + f[c]
  BY <1>1
<1>4. Cardinality(Units([f EXCEPT ![c] = n])) = Cardinality(A) + n
  <2> DEFINE g == [f EXCEPT ![c] = n]
  <2>1. g \in [Strategies -> Nat] /\ g[c] = n /\ \A s \in Strategies \ {c} : g[s] = f[s]
    OBVIOUS
  <2> HIDE DEF g, A
  <2>2. Cardinality(Units(g)) = Cardinality(A) + n
    BY <1>1, <2>1
  <2> QED
    BY <2>2 DEF g
<1> HIDE DEF A
<1> QED
  BY <1>2, <1>3, <1>4

(* Nobody holds anything: no units.                                          *)
LEMMA UnitsZero ==
  Cardinality(Units([s \in Strategies |-> 0])) = 0
<1>1. \A s \in Strategies : {s} \X (1..[t \in Strategies |-> 0][s]) = {}
  OBVIOUS
<1>2. Units([s \in Strategies |-> 0]) = {}
  BY <1>1 DEF Units
<1> QED
  BY <1>2, FS_EmptySet

-----------------------------------------------------------------------------

(* What is reserved is what is held, on every line.                          *)
Covered == \A l \in Lines : reserve[l] = Toward(l, Cardinality(Units(Share(l))))

(* The line of a strategy's item, and every share is a natural number.       *)
LEMMA ShareType ==
  ASSUME Types, Holdings
  PROVE  /\ \A s \in Strategies : item[s] # NoItem => LineOf(s) \in Lines
         /\ \A l \in Lines : Share(l) \in [Strategies -> Nat]
<1>1. \A s \in Strategies : item[s] # NoItem => LineOf(s) \in Lines
  BY DEF Types, LineOf, Line, Lines, Keys
<1>2. ASSUME NEW l \in Lines, NEW s \in Strategies
      PROVE  (IF item[s] # NoItem /\ LineOf(s) = l THEN Toward(l, held[s]) ELSE 0) \in Nat
  BY DEF Types, Holdings, Toward
<1> QED
  BY <1>1, <1>2 DEF Share

(* A step that only changes what is held and reserved on the line of s, and  *)
(* both by the same, keeps reservations covered.                             *)
LEMMA HeldStep ==
  ASSUME Types, Holdings, Covered, NEW s \in Strategies, NEW n \in Int,
         item[s] # NoItem, Toward(LineOf(s), n) >= 0,
         item' = item, held' = [held EXCEPT ![s] = n],
         reserve' = [reserve EXCEPT ![LineOf(s)] = @ + n - held[s]]
  PROVE  Covered'
<1> SUFFICES ASSUME NEW l \in Lines
             PROVE  reserve'[l] = Toward(l, Cardinality(Units(Share(l)')))
  BY DEF Covered, Toward
<1>1. \A t \in Strategies : LineOf(t)' = LineOf(t)
  BY DEF LineOf
<1>2. LineOf(s) \in Lines /\ Share(l) \in [Strategies -> Nat]
  BY ShareType
<1>3. CASE l # LineOf(s)
  <2>1. Share(l)' = Share(l)
    BY <1>1, <1>3 DEF Share, Types
  <2> QED
    BY <1>2, <1>3, <2>1 DEF Covered, Types
<1>4. CASE l = LineOf(s)
  <2>1. Share(l)' = [Share(l) EXCEPT ![s] = Toward(l, n)]
    BY <1>1, <1>4 DEF Share, Types
  <2>2. Share(l)[s] = Toward(l, held[s])
    BY <1>4 DEF Share
  <2>3. Toward(l, n) \in Nat
    BY <1>4 DEF Toward
  <2>4. Cardinality(Units([Share(l) EXCEPT ![s] = Toward(l, n)]))
          = Cardinality(Units(Share(l))) - Share(l)[s] + Toward(l, n)
    BY <1>2, <2>3, UnitsUpdate
  <2>5. Cardinality(Units(Share(l))) \in Nat
    BY <1>2, UnitsFinite
  <2>6. reserve'[l] = reserve[l] + n - held[s]
    BY <1>2, <1>4 DEF Types
  <2>7. reserve[l] = Toward(l, Cardinality(Units(Share(l))))
    BY DEF Covered
  <2>8. Cardinality(Units(Share(l)'))
          = Cardinality(Units(Share(l))) - Toward(l, held[s]) + Toward(l, n)
    BY <2>1, <2>2, <2>4, Zenon
  <2> QED
    BY <2>5, <2>6, <2>7, <2>8 DEF Toward, Types
<1> QED
  BY <1>3, <1>4

(* When nobody else holds anything of its line, what a strategy reads there  *)
(* is what it holds.                                                         *)
LEMMA ReadIsHeld ==
  ASSUME Types, Holdings, Covered, NEW s \in Strategies, item[s] # NoItem, ~Shared(s)
  PROVE  reserve[LineOf(s)] = held[s]
<1> DEFINE l == LineOf(s)
           zero == [t \in Strategies |-> 0]
<1>1. l \in Lines /\ Share(l) \in [Strategies -> Nat] /\ zero \in [Strategies -> Nat]
  BY ShareType
<1>2. Toward(l, held[s]) \in Nat /\ held[s] \in Int
  BY DEF Types, Holdings, Toward
<1>3. \A t \in Strategies \ {s} : Share(l)[t] = 0
  BY DEF Share, Shared, Types, Toward
<1>4. Share(l)[s] = Toward(l, held[s])
  BY DEF Share
<1>5. Share(l) = [zero EXCEPT ![s] = Toward(l, held[s])]
  BY <1>1, <1>3, <1>4
<1> HIDE DEF l
<1>6. Cardinality(Units(Share(l))) = 0 - 0 + Toward(l, held[s])
  BY <1>1, <1>2, <1>5, UnitsUpdate, UnitsZero
<1> QED
  BY <1>1, <1>2, <1>6 DEF Covered, Toward, l

-----------------------------------------------------------------------------

(* An empty book, and nothing reserved or held.                              *)
LEMMA InitIInv == Init => IInv
<1> SUFFICES ASSUME Init PROVE IInv
  OBVIOUS
<1>1. Types
  BY DEF Init, Types
<1>2. Peaks
  BY DEF Init, Peaks, Toward
<1>3. Holdings /\ Readings
  BY DEF Init, Holdings, Readings
<1>4. BookMatchesFeed
  BY DEF Init, BookMatchesFeed
<1>5. WithinListed
  BY DEF Init, WithinListed
<1>6. Covered
  <2>1. \A l \in Lines : Share(l) = [s \in Strategies |-> 0]
    BY DEF Init, Share
  <2> QED
    BY <2>1, UnitsZero DEF Init, Covered, Toward
<1> QED
  BY <1>1, <1>2, <1>3, <1>4, <1>5, <1>6 DEF IInv, HoldersCovered, Covered

(* A step of the book leaves the strategies and the reservations alone; the  *)
(* peaks only grow.                                                          *)
LEMMA UpdateIInv ==
  ASSUME IInv, Update
  PROVE  IInv'
<1> USE NullAssumption, SizeAssumption DEF SizeAssumption, NullAssumption, Amounts
<1>1. /\ UNCHANGED <<added, adding, reserve, item, held, read, configs, grants>>
      /\ mishaps \subseteq mishaps' /\ mishaps' \subseteq mishaps \union {"switched"}
  BY DEF Update, Erase, Insert, Clear, SetInstrument
<1>2. Types'
  <2>1. ASSUME NEW k \in Keys, Erase(k) PROVE Types'
    BY <2>1 DEF Erase, Heard, IInv, Types
  <2>2. ASSUME NEW k \in Keys, NEW a \in Amounts(k[2]), Insert(k, a) PROVE Types'
    <3>1. /\ a \in Int /\ Line(k, instrument) \in Lines
          /\ [instrument |-> instrument, amount |-> a] \in Items
      BY DEF IInv, Types, Keys, Lines, Line, Items
    <3>2. book' \in [Keys -> Items \union {NULL}]
      BY <2>2, <3>1 DEF Insert, Heard, IInv, Types
    <3>3. peak' \in [Lines -> Int]
      BY <2>2, <3>1 DEF Insert, Heard, IInv, Types, Larger
    <3>4. told' \in [Keys -> Int] /\ updates' \in Nat
      BY <2>2, <3>1 DEF Insert, Heard, IInv, Types
    <3>5. repeated' \in SUBSET Keys
      BY <2>2 DEF Insert, IInv, Types
    <3>6. UNCHANGED <<instrument, mishaps>>
      BY <2>2 DEF Insert
    <3> QED
      BY <1>1, <3>2, <3>3, <3>4, <3>5, <3>6 DEF IInv, Types
  <2>3. ASSUME NEW E \in SUBSET Exchanges, Clear(E) PROVE Types'
    BY <2>3 DEF Clear, IInv, Types
  <2>4. ASSUME NEW i \in Instruments, SetInstrument(i) PROVE Types'
    BY <2>4 DEF SetInstrument, IInv, Types
  <2> QED
    BY <2>1, <2>2, <2>3, <2>4 DEF Update
<1>3. \A l \in Lines : Toward(l, peak[l]) <= Toward(l, peak'[l])
  <2>1. ASSUME NEW k \in Keys, NEW a \in Amounts(k[2]), Insert(k, a), NEW l \in Lines
        PROVE  Toward(l, peak[l]) <= Toward(l, peak'[l])
    <3>1. a \in Int /\ peak[l] \in Int
      BY DEF IInv, Types
    <3>2. Toward(l, peak[l]) >= 0 /\ (l = Line(k, instrument) => l[3] = k[2])
      BY DEF IInv, Peaks, Line
    <3>3. peak'[l] = peak[l] \/ (l = Line(k, instrument) /\ peak'[l] = Larger(peak[l], a))
      <4>1. \/ peak' = peak
            \/ peak' = [peak EXCEPT ![Line(k, instrument)] = Larger(@, a)]
        BY <2>1 DEF Insert
      <4>2. peak \in [Lines -> Int]
        BY DEF IInv, Types
      <4>3. CASE peak' = peak
        BY <4>3
      <4>4. CASE peak' = [peak EXCEPT ![Line(k, instrument)] = Larger(@, a)]
        BY <4>2, <4>4
      <4> QED
        BY <4>1, <4>3, <4>4
    <3> QED
      BY <3>1, <3>2, <3>3 DEF Toward, Larger, Keys
  <2>2. ASSUME peak' = peak, NEW l \in Lines
        PROVE  Toward(l, peak[l]) <= Toward(l, peak'[l])
    BY <2>2 DEF IInv, Types, Toward
  <2>3. peak' = peak \/ \E k \in Keys : \E a \in Amounts(k[2]) : Insert(k, a)
    BY DEF Update, Erase, Clear, SetInstrument
  <2> QED
    BY <2>1, <2>2, <2>3
<1>4. Peaks'
  <2>1. ASSUME NEW k \in Keys, NEW i \in Instruments, NEW a, Listed(k, i, a)
        PROVE  Listed(k, i, a)'
    <3>1. Line(k, i) \in Lines /\ a \in Int
      BY <2>1 DEF Line, Keys, Lines, Listed
    <3>2. peak[Line(k, i)] \in Int /\ peak'[Line(k, i)] \in Int
      BY <1>2, <3>1 DEF IInv, Types
    <3> QED
      BY <1>3, <2>1, <3>1, <3>2 DEF Listed, Toward
  <2>2. ASSUME NEW k \in Keys, book'[k] # NULL
        PROVE  Listed(k, book[k].instrument, book[k].amount)'
    <3>1. CASE book'[k] = book[k]
      <4>1. book[k].instrument \in Instruments
        BY <2>2, <3>1 DEF IInv, Types, Items
      <4>2. Listed(k, book[k].instrument, book[k].amount)
        BY <2>2, <3>1 DEF IInv, Peaks
      <4>3. Listed(k, book[k].instrument, book[k].amount)'
             <=> /\ book[k].amount \in Amounts(k[2])
                 /\ Toward(Line(k, book[k].instrument), book[k].amount)
                      <= Toward(Line(k, book[k].instrument), peak'[Line(k, book[k].instrument)])
        BY <3>1 DEF Listed
      <4> QED
        BY <2>1, <4>1, <4>2, <4>3 DEF Listed
    <3>2. CASE book'[k] # book[k]
      <4>1. PICK a \in Amounts(k[2]) : Insert(k, a)
        BY <2>2, <3>2 DEF Update, Erase, Insert, Clear, SetInstrument, IInv, Types
      <4>2. book'[k] = [instrument |-> instrument, amount |-> a]
        BY <3>2, <4>1 DEF Insert, IInv, Types
      <4>3. Line(k, instrument) \in Lines
        BY DEF Line, Keys, Lines, IInv, Types
      <4>4. peak'[Line(k, instrument)] = Larger(peak[Line(k, instrument)], a)
        BY <3>2, <4>1, <4>3 DEF Insert, IInv, Types
      <4>5. peak[Line(k, instrument)] \in Int /\ a \in Int
        BY <4>3 DEF IInv, Types
      <4>6. Toward(Line(k, instrument), peak[Line(k, instrument)]) >= 0
        BY <4>3 DEF IInv, Peaks
      <4>7. Toward(Line(k, instrument), a)
              <= Toward(Line(k, instrument), Larger(peak[Line(k, instrument)], a))
        BY <4>5, <4>6 DEF Toward, Larger
      <4> QED
        BY <4>2, <4>4, <4>7 DEF Listed
    <3> QED
      BY <3>1, <3>2
  <2>3. ASSUME NEW s \in Strategies, item'[s] # NoItem
        PROVE  Listed(item[s].key, item[s].instrument, item[s].amount)'
    <3>1. /\ item[s].key \in Keys /\ item[s].instrument \in Instruments
          /\ Listed(item[s].key, item[s].instrument, item[s].amount)
      BY <1>1, <2>3 DEF IInv, Types, Peaks
    <3> QED
      BY <1>1, <2>1, <3>1 DEF Listed
  <2>4. \A l \in Lines : Toward(l, peak'[l]) >= 0
    BY <1>2, <1>3 DEF IInv, Types, Peaks, Toward
  <2> QED
    BY <2>2, <2>3, <2>4 DEF Peaks
<1>5. Holdings' /\ Readings'
  BY <1>1 DEF IInv, Holdings, Readings, LineOf
<1>6. BookMatchesFeed'
  <2>1. ASSUME NEW k \in Keys, Erase(k) PROVE BookMatchesFeed'
    BY <2>1 DEF Erase, Heard, IInv, Types, BookMatchesFeed
  <2>2. ASSUME NEW k \in Keys, NEW a \in Amounts(k[2]), Insert(k, a) PROVE BookMatchesFeed'
    <3>1. [instrument |-> instrument, amount |-> a] \in Items /\ a # 0
      BY DEF IInv, Types, Items
    <3> QED
      BY <2>2, <3>1 DEF Insert, Heard, IInv, Types, BookMatchesFeed
  <2>3. ASSUME NEW E \in SUBSET Exchanges, Clear(E) PROVE BookMatchesFeed'
    BY <2>3 DEF Clear, IInv, Types, BookMatchesFeed
  <2>4. ASSUME NEW i \in Instruments, SetInstrument(i) PROVE BookMatchesFeed'
    BY <2>4 DEF SetInstrument, IInv, Types, BookMatchesFeed
  <2> QED
    BY <2>1, <2>2, <2>3, <2>4 DEF Update
<1>7. WithinListed'
  BY <1>1, <1>2, <1>3 DEF IInv, Types, WithinListed, Toward
<1>8. HoldersCovered'
  <2>1. \A l \in Lines : Share(l)' = Share(l)
    BY <1>1 DEF Share, LineOf
  <2> QED
    BY <1>1, <2>1 DEF IInv, HoldersCovered, Toward
<1> QED
  BY <1>2, <1>4, <1>5, <1>6, <1>7, <1>8 DEF IInv

(* A step of a strategy or addInstrument leaves the book alone.              *)
LEMMA BookFrame ==
  ASSUME IInv, UNCHANGED bookVars, mishaps \subseteq mishaps'
  PROVE  BookMatchesFeed'
BY DEF IInv, BookMatchesFeed, bookVars

(* Copies that keep their items keep the peaks.                              *)
LEMMA PeaksFrame ==
  ASSUME IInv, UNCHANGED <<bookVars, item>>
  PROVE  Peaks'
BY DEF IInv, Peaks, Listed, bookVars

(* A step that leaves the book, what is reserved and the strategies alone.   *)
LEMMA ReserveFrame ==
  ASSUME IInv, Types', UNCHANGED <<bookVars, reserve, item, held, read>>,
         mishaps \subseteq mishaps'
  PROVE  IInv'
<1>1. \A l \in Lines : Share(l)' = Share(l)
  BY DEF Share, LineOf
<1>2. Peaks' /\ BookMatchesFeed'
  BY PeaksFrame, BookFrame
<1>3. Holdings' /\ Readings'
  BY DEF IInv, Holdings, Readings, LineOf
<1>4. WithinListed' /\ HoldersCovered'
  BY <1>1 DEF bookVars, IInv, WithinListed, HoldersCovered, Toward
<1> QED
  BY <1>2, <1>3, <1>4 DEF IInv

(* A statement of addInstrument: nothing was reserved in its direction, or    *)
(* that is a mishap.                                                         *)
LEMMA ClearedIInv ==
  ASSUME IInv, NEW e, NEW i, NEW dir, Cleared(e, i, dir), Types',
         UNCHANGED <<bookVars, item, held, read>>
  PROVE  IInv'
<1>1. CASE reserve' = reserve
  BY <1>1, ReserveFrame DEF Cleared
<1>2. CASE reserve' # reserve
  <2>1. "reset" \in mishaps' /\ mishaps \subseteq mishaps'
    BY <1>2 DEF Cleared
  <2>2. Peaks' /\ BookMatchesFeed'
    BY <2>1, PeaksFrame, BookFrame
  <2>3. Holdings' /\ Readings' /\ WithinListed' /\ HoldersCovered'
    BY <2>1 DEF IInv, Holdings, Readings, LineOf, WithinListed, HoldersCovered
  <2> QED
    BY <2>2, <2>3 DEF IInv
<1> QED
  BY <1>1, <1>2

(* Both statements of addInstrument.                                         *)
LEMMA AddInstrumentIInv ==
  ASSUME IInv, NEW e \in Exchanges, NEW i \in Instruments,
         AddInstrument(e, i) \/ EndAddInstrument(e, i)
  PROVE  IInv'
<1>1. PICK dir \in Dirs : Cleared(e, i, dir)
  BY DEF AddInstrument, EndAddInstrument, Dirs
<1>2. Types'
  BY <1>1 DEF AddInstrument, EndAddInstrument, Cleared, bookVars, IInv, Types
<1>3. UNCHANGED <<bookVars, item, held, read>>
  BY DEF AddInstrument, EndAddInstrument
<1> QED
  BY <1>1, <1>2, <1>3, ClearedIInv

(* Two calls overlap: what is reserved is left as it is.                     *)
LEMMA RaceIInv ==
  ASSUME IInv, NEW e, NEW i, Race(e, i)
  PROVE  IInv'
<1>1. UNCHANGED <<bookVars, added, adding, reserve, item, held, read, configs, grants>>
  BY DEF Race
<1>2. mishaps' = mishaps \union {"raced"}
  BY DEF Race
<1>3. Types'
  BY <1>1, <1>2 DEF bookVars, IInv, Types
<1> QED
  BY <1>1, <1>2, <1>3, ReserveFrame

(* A copy of a listed item; nothing is held yet.                             *)
LEMMA PickIInv ==
  ASSUME IInv, NEW s \in Strategies, NEW k \in Keys, Pick(s, k)
  PROVE  IInv'
<1>1. book[k] \in Items /\ Listed(k, book[k].instrument, book[k].amount)
  BY DEF Pick, IInv, Types, Peaks
<1>2. [key |-> k, instrument |-> book[k].instrument, amount |-> book[k].amount]
        \in [key : Keys, instrument : Instruments, amount : Int \ {0}]
  BY <1>1, SizeAssumption DEF Items, Amounts, SizeAssumption
<1>3. Types'
  BY <1>2 DEF Pick, bookVars, IInv, Types
<1>4. Peaks'
  BY <1>1, <1>2 DEF Pick, bookVars, IInv, Types, Peaks, Listed
<1>5. held[s] = 0 /\ read[s] = NULL
  BY DEF Pick, IInv, Holdings
<1>6. \A t \in Strategies \ {s} : LineOf(t)' = LineOf(t) /\ item'[t] = item[t]
  BY DEF Pick, LineOf, IInv, Types
<1>7. Holdings' /\ Readings'
  BY <1>5, <1>6 DEF Pick, IInv, Types, Holdings, Readings, Toward
<1>8. BookMatchesFeed' /\ WithinListed'
  BY BookFrame DEF Pick, bookVars, IInv, WithinListed
<1>9. HoldersCovered'
  <2>1. \A l \in Lines : Share(l)' = Share(l)
    <3> SUFFICES ASSUME NEW l \in Lines, NEW t \in Strategies
                 PROVE  (IF item'[t] # NoItem /\ LineOf(t)' = l THEN Toward(l, held'[t]) ELSE 0)
                          = IF item[t] # NoItem /\ LineOf(t) = l THEN Toward(l, held[t]) ELSE 0
      BY DEF Share, Toward
    <3> QED
      BY <1>5, <1>6 DEF Pick, Toward
  <2> QED
    BY <2>1 DEF Pick, IInv, HoldersCovered, Toward
<1> QED
  BY <1>3, <1>4, <1>7, <1>8, <1>9 DEF IInv

(* What is reserved within the amount of the copy is within the peak.        *)
LEMMA ReserveIInv ==
  ASSUME IInv, NEW s \in Strategies, NEW q \in Int, Reserve(s, q)
  PROVE  IInv'
<1>1. /\ item[s] # NoItem /\ item' = item /\ UNCHANGED <<bookVars, added, adding, read, configs, mishaps>>
      /\ q \in Amounts(item[s].key[2]) /\ read[s] = NULL /\ grants' = grants + 1
      /\ reserve' = [reserve EXCEPT ![LineOf(s)] = @ + q]
      /\ held' = [held EXCEPT ![s] = @ + q]
  BY DEF Reserve, Ready
<1>2. /\ LineOf(s) \in Lines /\ LineOf(s)[3] = item[s].key[2]
      /\ held[s] \in Int /\ reserve[LineOf(s)] \in Int /\ peak[LineOf(s)] \in Int
  BY <1>1, ShareType DEF IInv, Types, LineOf, Line
<1>3. Toward(LineOf(s), q) > 0 /\ Toward(LineOf(s), held[s]) >= 0
  BY <1>1, <1>2, SizeAssumption DEF Amounts, Toward, IInv, Types, Holdings, Keys, SizeAssumption
<1>4. Types'
  BY <1>1, <1>2 DEF bookVars, IInv, Types
<1>5. Peaks' /\ BookMatchesFeed'
  BY <1>1, PeaksFrame, BookFrame
<1>6. \A t \in Strategies : LineOf(t)' = LineOf(t)
  BY <1>1 DEF LineOf
<1>7. Holdings' /\ Readings'
  <2>1. held'[s] = held[s] + q /\ \A t \in Strategies \ {s} : held'[t] = held[t]
    BY <1>1 DEF IInv, Types
  <2>2. Toward(LineOf(s), held'[s]) >= 0
    BY <1>2, <1>3, <2>1 DEF Toward
  <2> QED
    BY <1>1, <1>6, <2>1, <2>2 DEF IInv, Holdings, Readings
<1>8. WithinListed'
  <2>1. Toward(LineOf(s), reserve[LineOf(s)] + q) <= Toward(LineOf(s), peak[LineOf(s)])
    <3>1. ~Exceeds(s, q) /\ Listed(item[s].key, item[s].instrument, item[s].amount)
      BY <1>1 DEF Reserve, IInv, Peaks
    <3>2. item[s].amount \in Int /\ item[s].key[2] \in Dirs /\ Size \in Nat
      BY <1>1, SizeAssumption DEF IInv, Types, Keys, SizeAssumption
    <3>3. item[s].amount > 0 <=> LineOf(s)[3] = "Ask"
      BY <1>2, <3>1, <3>2 DEF Listed, Amounts
    <3> QED
      BY <1>2, <3>1, <3>2, <3>3 DEF Exceeds, Listed, Toward, LineOf
  <2>2. \A l \in Lines :
          reserve'[l] = IF l = LineOf(s) THEN reserve[l] + q ELSE reserve[l]
    BY <1>1, <1>2 DEF IInv, Types
  <2> QED
    BY <1>1, <2>1, <2>2 DEF bookVars, IInv, Types, WithinListed, Toward
<1>9. HoldersCovered'
  <2>1. SUFFICES ASSUME Covered PROVE Covered'
    BY <1>1 DEF IInv, HoldersCovered, Covered, Toward
  <2>2. held[s] + q \in Int /\ Toward(LineOf(s), held[s] + q) >= 0
    BY <1>2, <1>3, <1>1 DEF Toward, Amounts
  <2>3. reserve' = [reserve EXCEPT ![LineOf(s)] = @ + (held[s] + q) - held[s]]
    <3>1. reserve[LineOf(s)] + q = reserve[LineOf(s)] + (held[s] + q) - held[s]
      BY <1>1, <1>2
    <3> QED
      BY <1>1, <3>1, Zenon
  <2> QED
    BY <1>1, <2>1, <2>2, <2>3, HeldStep DEF IInv
<1> QED
  BY <1>4, <1>5, <1>7, <1>8, <1>9 DEF IInv

(* A strategy gives back no more than it holds.                              *)
LEMMA UnreserveIInv ==
  ASSUME IInv, NEW s \in Strategies, NEW q \in Int, Unreserve(s, q)
  PROVE  IInv'
<1>1. /\ item[s] # NoItem /\ item' = item
      /\ UNCHANGED <<bookVars, added, adding, read, configs, grants, mishaps>>
      /\ q \in Amounts(item[s].key[2]) /\ read[s] = NULL
      /\ IF q > 0 THEN q <= held[s] ELSE q >= held[s]
      /\ reserve' = [reserve EXCEPT ![LineOf(s)] = @ - q]
      /\ held' = [held EXCEPT ![s] = @ - q]
  BY DEF Unreserve, Ready, Subtract
<1>2. /\ LineOf(s) \in Lines /\ LineOf(s)[3] = item[s].key[2]
      /\ held[s] \in Int /\ reserve[LineOf(s)] \in Int /\ peak[LineOf(s)] \in Int
  BY <1>1, ShareType DEF IInv, Types, LineOf, Line
<1>3. Toward(LineOf(s), q) > 0 /\ Toward(LineOf(s), held[s] - q) >= 0
  BY <1>1, <1>2, SizeAssumption DEF Amounts, Toward, IInv, Types, Keys, SizeAssumption
<1>4. Types'
  BY <1>1, <1>2 DEF bookVars, IInv, Types
<1>5. Peaks' /\ BookMatchesFeed'
  BY <1>1, PeaksFrame, BookFrame
<1>6. \A t \in Strategies : LineOf(t)' = LineOf(t)
  BY <1>1 DEF LineOf
<1>7. Holdings' /\ Readings'
  <2>1. held'[s] = held[s] - q /\ \A t \in Strategies \ {s} : held'[t] = held[t]
    BY <1>1 DEF IInv, Types
  <2> QED
    BY <1>1, <1>3, <1>6, <2>1 DEF IInv, Holdings, Readings
<1>8. WithinListed'
  <2>1. \A l \in Lines :
          reserve'[l] = IF l = LineOf(s) THEN reserve[l] - q ELSE reserve[l]
    BY <1>1, <1>2 DEF IInv, Types
  <2> QED
    BY <1>1, <1>2, <1>3, <2>1 DEF bookVars, IInv, Types, WithinListed, Toward
<1>9. HoldersCovered'
  <2>1. SUFFICES ASSUME Covered PROVE Covered'
    BY <1>1 DEF IInv, HoldersCovered, Covered, Toward
  <2>2. held[s] - q \in Int
    BY <1>2
  <2>3. reserve' = [reserve EXCEPT ![LineOf(s)] = @ + (held[s] - q) - held[s]]
    <3>1. reserve[LineOf(s)] - q = reserve[LineOf(s)] + (held[s] - q) - held[s]
      BY <1>1, <1>2
    <3> QED
      BY <1>1, <3>1, Zenon
  <2> QED
    BY <1>1, <1>3, <2>1, <2>2, <2>3, HeldStep DEF IInv
<1> QED
  BY <1>4, <1>5, <1>7, <1>8, <1>9 DEF IInv

(* The first half of unreserveAll reads what the strategy itself holds, or   *)
(* the line is swept.                                                        *)
LEMMA ReadReserveIInv ==
  ASSUME IInv, NEW s \in Strategies, ReadReserve(s)
  PROVE  IInv'
<1>1. /\ item[s] # NoItem
      /\ read' = [read EXCEPT ![s] = reserve[LineOf(s)]]
      /\ UNCHANGED <<bookVars, added, adding, reserve, item, held, configs, grants>>
  BY DEF ReadReserve, Ready
<1>2. mishaps \subseteq mishaps' /\ mishaps' \in SUBSET {"switched", "swept", "reset", "raced"}
  BY DEF ReadReserve, IInv, Types
<1>3. Shared(s) => "swept" \in mishaps'
  BY DEF ReadReserve
<1>4. reserve[LineOf(s)] \in Int
  BY <1>1, ShareType DEF IInv, Types
<1>5. Types'
  BY <1>1, <1>2, <1>4 DEF bookVars, IInv, Types
<1>6. Peaks' /\ BookMatchesFeed'
  BY <1>1, <1>2, PeaksFrame, BookFrame
<1>7. \A t \in Strategies : LineOf(t)' = LineOf(t) /\ (t # s => read'[t] = read[t])
  BY <1>1 DEF LineOf, IInv, Types
<1>8. Holdings'
  BY <1>1, <1>7 DEF IInv, Holdings
<1>9. Readings'
  <2> SUFFICES ASSUME mishaps' \intersect {"swept", "reset"} = {}
               PROVE  \A t \in Strategies : read'[t] # NULL => read'[t] = held'[t]
    BY DEF Readings
  <2>1. ~Shared(s) /\ Covered
    BY <1>2, <1>3 DEF IInv, HoldersCovered, Covered
  <2>2. reserve[LineOf(s)] = held[s]
    BY <1>1, <2>1, ReadIsHeld DEF IInv
  <2>3. read'[s] = held'[s]
    BY <1>1, <2>2 DEF IInv, Types
  <2> QED
    BY <1>1, <1>2, <1>7, <2>3 DEF IInv, Readings
<1>10. WithinListed' /\ HoldersCovered'
  <2>1. \A l \in Lines : Share(l)' = Share(l)
    BY <1>1, <1>7 DEF Share
  <2> QED
    BY <1>1, <1>2, <2>1 DEF bookVars, IInv, WithinListed, HoldersCovered, Toward
<1> QED
  BY <1>5, <1>6, <1>8, <1>9, <1>10 DEF IInv

(* The second half subtracts what was read, which is still what is held.     *)
LEMMA UnreserveReadIInv ==
  ASSUME IInv, NEW s \in Strategies, UnreserveRead(s)
  PROVE  IInv'
<1>1. /\ read[s] # NULL /\ item[s] # NoItem /\ read[s] \in Int /\ held[s] \in Int
      /\ reserve' = [reserve EXCEPT ![LineOf(s)] = @ - read[s]]
      /\ held' = [held EXCEPT ![s] = 0] /\ read' = [read EXCEPT ![s] = NULL]
      /\ UNCHANGED <<bookVars, added, adding, item, configs, grants, mishaps>>
  BY DEF UnreserveRead, Subtract, IInv, Types, Holdings
<1>2. LineOf(s) \in Lines /\ reserve[LineOf(s)] \in Int /\ peak[LineOf(s)] \in Int
  BY <1>1, ShareType DEF IInv, Types
<1>3. Types'
  BY <1>1, <1>2 DEF bookVars, IInv, Types
<1>4. Peaks' /\ BookMatchesFeed'
  BY <1>1, PeaksFrame, BookFrame
<1>5. \A t \in Strategies : LineOf(t)' = LineOf(t)
  BY <1>1 DEF LineOf
<1>6. Holdings' /\ Readings'
  <2>1. /\ held'[s] = 0 /\ read'[s] = NULL
        /\ \A t \in Strategies \ {s} : held'[t] = held[t] /\ read'[t] = read[t]
    BY <1>1 DEF IInv, Types
  <2>2. Toward(LineOf(s), 0) >= 0
    BY DEF Toward
  <2> QED
    BY <1>1, <1>5, <2>1, <2>2 DEF IInv, Holdings, Readings
<1>7. mishaps \intersect {"swept", "reset"} = {} => read[s] = held[s]
  BY <1>1 DEF IInv, Readings
<1>8. WithinListed'
  <2>1. \A l \in Lines :
          reserve'[l] = IF l = LineOf(s) THEN reserve[l] - read[s] ELSE reserve[l]
    BY <1>1, <1>2 DEF IInv, Types
  <2>2. Toward(LineOf(s), held[s]) >= 0
    BY <1>1 DEF IInv, Holdings
  <2> QED
    BY <1>1, <1>2, <1>7, <2>1, <2>2 DEF bookVars, IInv, Types, WithinListed, Toward
<1>9. HoldersCovered'
  <2>1. SUFFICES ASSUME Covered, read[s] = held[s] PROVE Covered'
    BY <1>1, <1>7 DEF IInv, HoldersCovered, Covered, Toward
  <2>2. Toward(LineOf(s), 0) >= 0
    BY DEF Toward
  <2>3. reserve' = [reserve EXCEPT ![LineOf(s)] = @ + 0 - held[s]]
    <3>1. reserve[LineOf(s)] - held[s] = reserve[LineOf(s)] + 0 - held[s]
      BY <1>1, <1>2
    <3> QED
      BY <1>1, <2>1, <3>1, Zenon
  <2>4. \A n \in Int :
          n = 0 => reserve' = [reserve EXCEPT ![LineOf(s)] = @ + n - held[s]]
    BY <2>3
  <2>5. 0 \in Int
    OBVIOUS
  <2> QED
    BY <1>1, <2>1, <2>2, <2>4, <2>5, HeldStep DEF IInv
<1> QED
  BY <1>3, <1>4, <1>6, <1>8, <1>9 DEF IInv

(* No step of the book, of addInstrument or of a strategy breaks it.         *)
LEMMA NextIInv == IInv /\ [Next]_vars => IInv'
<1> SUFFICES ASSUME IInv, [Next]_vars PROVE IInv'
  OBVIOUS
<1>1. CASE UNCHANGED vars
  <2>1. Types'
    BY <1>1 DEF vars, bookVars, IInv, Types
  <2> QED
    BY <1>1, <2>1, ReserveFrame DEF vars
<1>2. ASSUME NEW s \in Strategies, Strategy(s) PROVE IInv'
  <2>1. Amounts("Ask") \union Amounts("Bid") \subseteq Int
    BY SizeAssumption DEF Amounts, SizeAssumption
  <2> QED
    BY <1>2, <2>1, PickIInv, ReserveIInv, UnreserveIInv, ReadReserveIInv, UnreserveReadIInv
    DEF Strategy
<1> QED
  BY <1>1, <1>2, UpdateIInv, AddInstrumentIInv, RaceIInv, ExchangesAssumption
  DEF Next, Configure, ExchangesAssumption

(* A price of an exchange is listed exactly while the last that was heard of *)
(* it is an amount, and with that amount unless it changed while listed.     *)
THEOREM BookFollowsFeed == Spec => []BookMatchesFeed
<1>1. IInv => BookMatchesFeed
  BY DEF IInv
<1> QED
  BY InitIInv, NextIInv, <1>1, PTL DEF Spec

(* No more is reserved on a line than it was ever listed with, although      *)
(* strategies reserve with stale copies of its items.                        *)
THEOREM ReserveWithinListed == Spec => []WithinListed
<1>1. IInv => WithinListed
  BY DEF IInv
<1> QED
  BY InitIInv, NextIInv, <1>1, PTL DEF Spec

(* What is reserved on a line is the sum of what its strategies hold: the    *)
(* two critical sections of unreserveAll do no harm by themselves.           *)
THEOREM ReserveIsHeld == Spec => []HoldersCovered
<1>1. IInv => HoldersCovered
  BY DEF IInv
<1> QED
  BY InitIInv, NextIInv, <1>1, PTL DEF Spec

-----------------------------------------------------------------------------
(* Numbers.                                                                  *)

(* A set of naturals that is not empty has a least element.                  *)
LEMMA LeastNatural ==
  ASSUME NEW S, S \subseteq Nat, S # {}
  PROVE  \E m \in S : \A k \in S : m <= k
<1>1. PICK m \in S : \A k \in S : ~(<<k, m>> \in OpToRel(<, Nat))
  BY WFMin, NatLessThanWellFounded, Zenon
<1>2. \A k \in S : <<k, m>> \in Nat \X Nat /\ <<k, m>>[1] = k /\ <<k, m>>[2] = m
  OBVIOUS
<1>3. \A k \in S : ~(k < m)
  BY <1>1, <1>2, Zenon DEF OpToRel
<1> QED
  BY <1>3

(* How far the table reaches, and a long.                                    *)
LEMMA TableSize == MaxPower \in Nat \ {0} /\ LongMax \in Nat
BY TableAssumption DEF TableAssumption

(* The table of powers of ten has the laws of powers.                        *)
LEMMA PowerType ==
  /\ Power(0) = 1
  /\ \A p \in 0..MaxPower : Power(p) \in Nat \ {0}
<1> USE TableAssumption DEF TableAssumption, Power
<1> DEFINE S == {p \in 0..MaxPower : TenPowers[p] = 0}
<1>1. S = {}
  <2> SUFFICES ASSUME S # {} PROVE FALSE
    OBVIOUS
  <2>0. S \subseteq Nat
    OBVIOUS
  <2>1. PICK m \in S : \A k \in S : m <= k
    BY <2>0, LeastNatural, Zenon
  <2>2. m \in 1..MaxPower /\ m - 1 \in 0..MaxPower
    OBVIOUS
  <2>3. TenPowers[m - 1] # 0
    BY <2>1, <2>2
  <2> QED
    BY <2>2, <2>3
<1>2. \A p \in 0..MaxPower : TenPowers[p] \in Nat /\ TenPowers[p] # 0 /\ ~(p < 0)
  <2> TAKE p \in 0..MaxPower
  <2>1. p \notin S
    BY <1>1
  <2> QED
    BY <2>1
<1> HIDE DEF S
<1> QED
  BY <1>2

(* Each power is ten times the one before.                                   *)
LEMMA PowerStep ==
  \A p \in 1..MaxPower : Power(p) = 10 * Power(p - 1)
BY TableAssumption DEF TableAssumption, Power

(* Powers multiply as their exponents add.                                   *)
LEMMA PowerSplit ==
  ASSUME NEW p \in Nat, NEW q \in Nat, p + q <= MaxPower
  PROVE  Power(p + q) = Power(p) * Power(q)
<1> USE TableAssumption DEF TableAssumption
<1> DEFINE S == {k \in 0..MaxPower - p : Power(p + k) # Power(p) * Power(k)}
<1>1. S = {}
  <2> SUFFICES ASSUME S # {} PROVE FALSE
    OBVIOUS
  <2>0. S \subseteq Nat
    OBVIOUS
  <2>1. PICK m \in S : \A k \in S : m <= k
    BY <2>0, LeastNatural, Zenon
  <2>2. p \in 0..MaxPower /\ m \in 0..MaxPower - p
    OBVIOUS
  <2>3. m # 0
    BY PowerType, <2>2
  <2> HIDE DEF S
  <2>4. /\ m \in 1..MaxPower /\ p + m \in 1..MaxPower /\ m - 1 \in 0..MaxPower - p
        /\ m - 1 \in 0..MaxPower /\ p + m - 1 = p + (m - 1)
    BY <2>2, <2>3
  <2>5. m - 1 \notin S
    BY <2>1, <2>2
  <2>6. Power(p + (m - 1)) = Power(p) * Power(m - 1)
    BY <2>4, <2>5 DEF S
  <2>7. Power(p + m) = 10 * (Power(p) * Power(m - 1)) /\ Power(m) = 10 * Power(m - 1)
    BY <2>4, <2>6, PowerStep
  <2>8. Power(p) \in Int /\ Power(m - 1) \in Int
    BY <2>2, <2>4, PowerType
  <2>9. Power(p + m) = Power(p) * Power(m)
    BY <2>7, <2>8
  <2> QED
    BY <2>9 DEF S
<1>2. q \in 0..MaxPower - p
  OBVIOUS
<1> QED
  BY <1>1, <1>2

(* A larger exponent makes a larger power.                                   *)
LEMMA PowerGrows ==
  ASSUME NEW p \in Nat, NEW q \in Nat, p < q, q <= MaxPower
  PROVE  Power(p) < Power(q)
<1> USE TableAssumption DEF TableAssumption
<1>1. p \in 0..MaxPower /\ q - p \in 1..MaxPower /\ q - p - 1 \in 0..MaxPower /\ p + (q - p) = q
  OBVIOUS
<1>2. Power(q) = Power(p) * Power(q - p)
  BY <1>1, PowerSplit
<1>3. Power(q - p) = 10 * Power(q - p - 1)
  BY <1>1, PowerStep
<1>4. Power(p) \in Nat \ {0} /\ Power(q - p - 1) \in Nat \ {0}
  BY <1>1, PowerType
<1> HIDE DEF TableAssumption
<1>5. \A a, b \in Nat \ {0} : a < a * (10 * b)
  OBVIOUS
<1> QED
  BY <1>2, <1>3, <1>4, <1>5

(* Every power in the table is a long.                                       *)
LEMMA PowerFits ==
  \A p \in 0..MaxPower : Power(p) <= LongMax
<1> TAKE p \in 0..MaxPower
<1>1. p = MaxPower \/ Power(p) < Power(MaxPower)
  BY PowerGrows, TableAssumption DEF TableAssumption
<1>2. Power(p) \in Nat /\ Power(MaxPower) \in Nat /\ Power(MaxPower) <= LongMax /\ LongMax \in Nat
  BY PowerType, TableAssumption DEF TableAssumption, Power
<1> QED
  BY <1>1, <1>2

(* Overflow: what lies in the range of a long stays what it is.              *)
LEMMA WrapType == \A n \in Int : Wrap(n) \in Int
BY TableSize DEF Wrap

(* A value within the range is not changed.                                  *)
LEMMA WrapFits ==
  ASSUME NEW n \in Int, -LongMax <= n, n <= LongMax
  PROVE  Fits(n)
<1> DEFINE m == 2 * (LongMax + 1)
           k == n + LongMax + 1
<1>1. k \in Nat /\ m \in Nat \ {0} /\ k < m /\ LongMax \in Nat
  BY TableSize
<1>2. \A i, j \in Nat : i < j => i % j = i
  OBVIOUS
<1>3. k % m = k
  BY <1>1, <1>2
<1> QED
  BY <1>1, <1>3 DEF Fits, Wrap

(* Division toward zero.                                                     *)
LEMMA Division ==
  ASSUME NEW n \in Int, NEW d \in Int, d # 0
  PROVE  /\ Quot(n, d) \in Int /\ Rem(n, d) \in Int
         /\ n = d * Quot(n, d) + Rem(n, d)
         /\ Abs(Rem(n, d)) < Abs(d)
         /\ n >= 0 => Rem(n, d) >= 0
         /\ n <= 0 => Rem(n, d) <= 0
         /\ d > 0 /\ n >= 0 => Quot(n, d) >= 0
         /\ d > 0 /\ n <= 0 => Quot(n, d) <= 0
<1> DEFINE N == Abs(n)
           D == Abs(d)
           q == N \div D
<1>1. N \in Nat /\ D \in Nat \ {0}
  BY DEF Abs
<1>2. \A i \in Nat, j \in Nat \ {0} :
         i \div j \in Nat /\ j * (i \div j) <= i /\ i < j * (i \div j) + j
  OBVIOUS
<1>3. q \in Nat /\ D * q <= N /\ N < D * q + D
  BY <1>1, <1>2
<1>4. Quot(n, d) = IF (n < 0) = (d < 0) THEN q ELSE -q
  BY DEF Quot
<1>5. d * Quot(n, d) = IF n < 0 THEN -(D * q) ELSE D * q
  <2> HIDE DEF q
  <2>1. CASE n < 0 /\ d < 0
    BY <1>3, <1>4, <2>1 DEF Abs
  <2>2. CASE n < 0 /\ d > 0
    BY <1>3, <1>4, <2>2 DEF Abs
  <2>3. CASE n >= 0 /\ d < 0
    BY <1>3, <1>4, <2>3 DEF Abs
  <2>4. CASE n >= 0 /\ d > 0
    BY <1>3, <1>4, <2>4 DEF Abs
  <2> QED
    BY <2>1, <2>2, <2>3, <2>4
<1>6. D * q \in Nat
  BY <1>1, <1>3
<1>7. Quot(n, d) \in Int /\ d * Quot(n, d) \in Int
  BY <1>3, <1>4
<1> DEFINE e == D * q
<1>8. Rem(n, d) = IF n < 0 THEN n + e ELSE n - e
  BY <1>5, <1>6, <1>7 DEF Rem
<1>9. e \in Nat /\ e <= N /\ N < e + D
  BY <1>3, <1>6
<1>10. Rem(n, d) \in Int /\ Abs(Rem(n, d)) < D
       /\ (n >= 0 => Rem(n, d) >= 0) /\ (n <= 0 => Rem(n, d) <= 0)
  <2> HIDE DEF e
  <2> QED
    BY <1>1, <1>8, <1>9 DEF Abs
<1>11. n = d * Quot(n, d) + Rem(n, d)
  BY <1>7 DEF Rem
<1>12. n = 0 => q = 0
  <2>1. ASSUME n = 0 PROVE D * q = 0
    BY <2>1, <1>3, <1>6 DEF Abs
  <2>2. \A i \in Nat \ {0}, j \in Nat : i * j = 0 => j = 0
    OBVIOUS
  <2> QED
    BY <2>1, <2>2, <1>1, <1>3
<1>13. (d > 0 /\ n >= 0 => Quot(n, d) >= 0) /\ (d > 0 /\ n <= 0 => Quot(n, d) <= 0)
  BY <1>3, <1>4, <1>12
<1> QED
  BY <1>7, <1>10, <1>11, <1>13

(* A multiple of the divisor is divided exactly.                             *)
LEMMA ExactDivision ==
  ASSUME NEW k \in Int, NEW d \in Nat \ {0}
  PROVE  Quot(d * k, d) = k /\ Rem(d * k, d) = 0
<1> DEFINE n == d * k
           q == Quot(n, d)
           r == Rem(n, d)
<1>1. n \in Int
  OBVIOUS
<1>2. q \in Int /\ r \in Int /\ n = d * q + r /\ Abs(r) < Abs(d)
  BY <1>1, Division
<1>3. -d < r /\ r < d
  BY <1>2 DEF Abs
<1> HIDE DEF q, r
<1>4. d * (k - q) = r
  BY <1>2
<1>5. \A m \in Int : m >= 1 => d * m >= d
  OBVIOUS
<1>6. \A m \in Int : m <= -1 => d * m <= -d
  OBVIOUS
<1>7. k - q = 0
  BY <1>2, <1>3, <1>4, <1>5, <1>6
<1>8. q = k /\ r = 0
  BY <1>2, <1>4, <1>7
<1> QED
  BY <1>8 DEF q, r

(* The doubles.                                                              *)

(* What is assumed of them.                                                  *)
LEMMA DoubleFacts ==
  /\ Mantissa \in Nat \ {0} /\ \E m \in Nat \ {0} : Mantissa = 2 * m
  /\ Ulps \subseteq Nat \ {0} /\ One \in Nat \ {0}
  /\ \A t, u \in Ulps : t <= u => \E k \in Nat \ {0} : u = t * k
  /\ \A t, u \in Ulps : t < u => \E h \in Ulps : t <= h /\ u = 2 * h
  /\ \A u \in Ulps : (\E k \in Nat \ {0} : One = u * k) \/ (\E k \in Nat \ {0} : u = One * k)
<1>0. \A i, j \in Nat \ {0} : i % j = 0 => \E k \in Nat \ {0} : i = j * k
  <2> TAKE i \in Nat \ {0}, j \in Nat \ {0}
  <2> HAVE i % j = 0
  <2>1. i = j * (i \div j) /\ i \div j \in Nat
    OBVIOUS
  <2>2. i \div j # 0
    BY <2>1
  <2> QED
    BY <2>1, <2>2
<1>1. /\ Mantissa \in Nat \ {0} /\ Mantissa % 2 = 0
      /\ Ulps \subseteq Nat \ {0} /\ One \in Nat \ {0}
  BY DoublesAssumption DEF DoublesAssumption
<1>2. \E m \in Nat \ {0} : Mantissa = 2 * m
  BY <1>0, <1>1
<1>3. \A t, u \in Ulps : t < u => u % t = 0 /\ \E h \in Ulps : t <= h /\ u = 2 * h
  BY DoublesAssumption DEF DoublesAssumption
<1>4. \A u \in Ulps : One % u = 0 \/ u % One = 0
  BY DoublesAssumption DEF DoublesAssumption
<1>5. \A t, u \in Ulps : t <= u => \E k \in Nat \ {0} : u = t * k
  <2> TAKE t \in Ulps, u \in Ulps
  <2> HAVE t <= u
  <2>1. t \in Nat \ {0} /\ u \in Nat \ {0}
    BY <1>1
  <2>2. CASE t = u
    <3>1. u = t * 1 /\ 1 \in Nat \ {0}
      BY <2>1, <2>2
    <3> QED
      BY <3>1
  <2>3. CASE t < u
    BY <1>0, <1>3, <2>1, <2>3
  <2> QED
    BY <2>1, <2>2, <2>3
<1>6. \A u \in Ulps : (\E k \in Nat \ {0} : One = u * k) \/ (\E k \in Nat \ {0} : u = One * k)
  <2> TAKE u \in Ulps
  <2>1. u \in Nat \ {0}
    BY <1>1
  <2> QED
    BY <1>0, <1>1, <1>4, <2>1
<1> QED
  BY <1>1, <1>2, <1>3, <1>5, <1>6

(* The distance of a double's neighbours is the least that reaches it.       *)
LEMMA SpacingParts ==
  ASSUME NEW v \in Int, InReach(v)
  PROVE  /\ Spacing(v) \in Ulps /\ Spacing(v) \in Nat \ {0}
         /\ Abs(v) < Mantissa * Spacing(v)
         /\ \A t \in Ulps : t < Spacing(v) => Abs(v) >= Mantissa * t
<1> DEFINE S == {u \in Ulps : Abs(v) < Mantissa * u}
           Least(u) == Abs(v) < Mantissa * u /\ \A t \in Ulps : t < u => Abs(v) >= Mantissa * t
<1>1. S \subseteq Nat /\ S # {}
  BY DoubleFacts DEF InReach
<1>2. PICK m \in S : \A k \in S : m <= k
  BY <1>1, LeastNatural, Zenon
<1>3. m \in Ulps /\ Abs(v) < Mantissa * m
  OBVIOUS
<1>4. \A t \in Ulps : t < m => Abs(v) >= Mantissa * t
  <2> TAKE t \in Ulps
  <2> HAVE t < m
  <2>1. t \in Nat /\ m \in Nat /\ Mantissa \in Nat /\ Abs(v) \in Int
    BY <1>1, DoubleFacts DEF Abs
  <2>2. t \notin S
    BY <1>2, <2>1
  <2>3. ~(Abs(v) < Mantissa * t)
    BY <2>2
  <2> QED
    BY <2>1, <2>3
<1>5. Least(m)
  BY <1>3, <1>4
<1> HIDE DEF Least
<1>6. \E u \in Ulps : Least(u)
  BY <1>3, <1>5
<1>7. Spacing(v) = CHOOSE u \in Ulps : Least(u)
  BY DEF Spacing, Least
<1>8. Spacing(v) \in Ulps /\ Least(Spacing(v))
  BY <1>6, <1>7, Zenon
<1> QED
  BY <1>8, DoubleFacts DEF Least

(* A smaller number is in reach too, and its neighbours are no farther.      *)
LEMMA SpacingGrows ==
  ASSUME NEW v \in Int, NEW w \in Int, InReach(w), Abs(v) <= Abs(w)
  PROVE  InReach(v) /\ Spacing(v) <= Spacing(w)
<1> DEFINE u == Spacing(w)
<1>1. u \in Ulps /\ u \in Nat \ {0} /\ Abs(w) < Mantissa * u
  BY SpacingParts
<1>2. Abs(v) \in Int /\ Abs(w) \in Int /\ Mantissa * u \in Int
  BY <1>1, DoubleFacts DEF Abs
<1> HIDE DEF u
<1>3. Abs(v) < Mantissa * u
  BY <1>1, <1>2
<1>4. InReach(v)
  BY <1>1, <1>3 DEF InReach
<1>5. /\ Spacing(v) \in Nat \ {0}
      /\ \A t \in Ulps : t < Spacing(v) => Abs(v) >= Mantissa * t
  BY <1>4, SpacingParts
<1>6. ~(u < Spacing(v))
  BY <1>1, <1>2, <1>3, <1>5
<1> QED
  BY <1>1, <1>4, <1>5, <1>6 DEF u

(* Rounding to a multiple: it is a neighbour, a multiple stays what it is,   *)
LEMMA NearestParts ==
  ASSUME NEW v \in Int, NEW u \in Nat \ {0}
  PROVE  \E k \in Int : /\ u * k <= v /\ v < u * k + u
                        /\ Nearest(v, u) = u * k \/ Nearest(v, u) = u * k + u
                        /\ v = u * k => Nearest(v, u) = v
<1> DEFINE k == v \div u
           rest == v % u
<1>1. k \in Int /\ rest \in Nat /\ rest < u /\ v = u * k + rest
  OBVIOUS
<1>2. Nearest(v, u) = u * (IF 2 * rest < u \/ (2 * rest = u /\ k % 2 = 0) THEN k ELSE k + 1)
  BY DEF Nearest
<1> DEFINE near == 2 * rest < u \/ (2 * rest = u /\ k % 2 = 0)
<1>3. Nearest(v, u) = u * (IF near THEN k ELSE k + 1) /\ (rest = 0 => near)
  BY <1>2
<1> HIDE DEF k, rest, near
<1>4. u * (k + 1) = u * k + u /\ u * k \in Int
  BY <1>1
<1>5. Nearest(v, u) = u * k \/ Nearest(v, u) = u * k + u
  BY <1>3, <1>4
<1>6. v = u * k => rest = 0
  BY <1>1, <1>4
<1>7. v = u * k => Nearest(v, u) = v
  BY <1>3, <1>6
<1>8. u * k <= v /\ v < u * k + u
  BY <1>1, <1>4
<1> QED
  BY <1>1, <1>5, <1>7, <1>8

(* and it keeps the order.                                                   *)
LEMMA NearestOrder ==
  ASSUME NEW v \in Int, NEW w \in Int, NEW u \in Nat \ {0}, v <= w
  PROVE  Nearest(v, u) <= Nearest(w, u) /\ Nearest(v, u) \in Int
<1> DEFINE k == v \div u
           r == v % u
           l == w \div u
           s == w % u
           low(i, q) == 2 * q < u \/ (2 * q = u /\ i % 2 = 0)
<1>1. /\ k \in Int /\ r \in Nat /\ r < u /\ v = u * k + r
      /\ l \in Int /\ s \in Nat /\ s < u /\ w = u * l + s
  OBVIOUS
<1>2. /\ Nearest(v, u) = u * (IF low(k, r) THEN k ELSE k + 1)
      /\ Nearest(w, u) = u * (IF low(l, s) THEN l ELSE l + 1)
  BY DEF Nearest
<1> DEFINE i == IF low(k, r) THEN k ELSE k + 1
           j == IF low(l, s) THEN l ELSE l + 1
<1>3. i \in Int /\ j \in Int /\ k <= i /\ i <= k + 1 /\ l <= j /\ j <= l + 1
  BY <1>1
<1>4. k = l /\ r <= s => i <= j
  <2>1. ASSUME k = l, r <= s, low(l, s) PROVE low(k, r)
    <3>1. CASE r = s
      BY <2>1, <3>1
    <3>2. CASE r < s
      BY <1>1, <2>1, <3>2
    <3> QED
      BY <1>1, <2>1, <3>1, <3>2
  <2> HIDE DEF low, k, r, l, s
  <2> QED
    BY <1>1, <2>1
<1> HIDE DEF i, j, k, r, l, s, low
<1>5. k <= l
  <2>1. \A a, b \in Int, c, d \in Nat : u * a + c <= u * b + d /\ d < u => a <= b
    <3> TAKE a \in Int, b \in Int, c \in Nat, d \in Nat
    <3> HAVE u * a + c <= u * b + d /\ d < u
    <3>1. u * (a - b) < u
      <4>1. u * (a - b) = u * a - u * b /\ u * a \in Int /\ u * b \in Int
        OBVIOUS
      <4> QED
        BY <4>1
    <3>2. \A m \in Int : m >= 1 => u * m >= u
      OBVIOUS
    <3>3. ~(a - b >= 1)
      BY <3>1, <3>2
    <3> QED
      BY <3>3
  <2> QED
    BY <1>1, <2>1
<1>6. k = l => r <= s
  <2>1. ASSUME k = l PROVE r <= s
    <3>1. u * k \in Int /\ v = u * k + r /\ w = u * k + s
      BY <1>1, <2>1
    <3> HIDE <1>1
    <3> QED
      BY <1>1, <3>1
  <2> QED
    BY <2>1
<1>7. i <= j
  BY <1>1, <1>3, <1>4, <1>5, <1>6
<1>8. u * i <= u * j /\ u * i \in Int
  <2>1. \A m \in Int : m >= 0 => u * m >= 0
    OBVIOUS
  <2>2. u * (j - i) >= 0
    BY <1>3, <1>7, <2>1
  <2>3. u * (j - i) = u * j - u * i /\ u * j \in Int /\ u * i \in Int
    BY <1>3
  <2> QED
    BY <2>2, <2>3
<1> QED
  BY <1>2, <1>8 DEF i, j

(* So rounding does not pass a multiple.                                     *)
LEMMA NearestBounds ==
  ASSUME NEW v \in Int, NEW u \in Nat \ {0}, NEW k \in Int
  PROVE  /\ Nearest(u * k, u) = u * k
         /\ v <= u * k => Nearest(v, u) <= u * k
         /\ v >= u * k => Nearest(v, u) >= u * k
<1>1. u * k \in Int
  OBVIOUS
<1>2. Nearest(u * k, u) = u * k
  <2>1. PICK j \in Int : /\ u * j <= u * k /\ u * k < u * j + u
                         /\ u * k = u * j => Nearest(u * k, u) = u * k
    BY <1>1, NearestParts
  <2>2. u * (k - j) = u * k - u * j /\ u * j \in Int
    OBVIOUS
  <2>3. 0 <= u * (k - j) /\ u * (k - j) < u
    BY <1>1, <2>1, <2>2
  <2>4. \A m \in Int : (m >= 1 => u * m >= u) /\ (m <= -1 => u * m < 0)
    OBVIOUS
  <2>5. k = j
    BY <2>3, <2>4
  <2> QED
    BY <2>1, <2>5
<1>3. v <= u * k => Nearest(v, u) <= u * k
  BY <1>1, <1>2, NearestOrder
<1>4. v >= u * k => Nearest(v, u) >= u * k
  BY <1>1, <1>2, NearestOrder
<1> QED
  BY <1>2, <1>3, <1>4

(* Products of naturals grow.                                                *)
LEMMA Products ==
  /\ \A i, j, k \in Nat : i <= j => k * i <= k * j
  /\ \A i, j, k \in Int : i * (j * k) = (i * j) * k /\ i * j = j * i /\ i * j \in Int
<1>1. \A i, k \in Nat : k * i >= 0
  OBVIOUS
<1>2. \A i, j, k \in Nat : k * (j - i) = k * j - k * i /\ k * j \in Int /\ k * i \in Int
  OBVIOUS
<1>3. \A i, j, k \in Nat : i <= j => k * i <= k * j
  <2> TAKE i \in Nat, j \in Nat, k \in Nat
  <2> HAVE i <= j
  <2>1. k * (j - i) >= 0
    BY <1>1
  <2> QED
    BY <1>2, <2>1
<1> QED
  BY <1>3

(* Where the distance grows from u to U, a number of the larger has at least *)
(* the size m * U, which one of the smaller does not pass.                   *)
LEMMA SpacingStep ==
  ASSUME NEW v \in Int, NEW w \in Int, InReach(v), InReach(w), Spacing(v) < Spacing(w)
  PROVE  \E m \in Nat : /\ Abs(w) >= Spacing(w) * m
                        /\ Spacing(w) * m >= Spacing(v) * Mantissa
                        /\ Abs(v) < Spacing(v) * Mantissa
<1> DEFINE u == Spacing(v)
           U == Spacing(w)
<1>1. /\ u \in Ulps /\ u \in Nat \ {0} /\ Abs(v) < Mantissa * u
      /\ U \in Ulps /\ U \in Nat \ {0}
      /\ \A t \in Ulps : t < U => Abs(w) >= Mantissa * t
  BY SpacingParts
<1> HIDE DEF u, U
<1>2. u < U
  BY DEF u, U
<1>3. PICK h \in Ulps : u <= h /\ U = 2 * h
  BY <1>1, <1>2, DoubleFacts
<1>4. PICK m \in Nat \ {0} : Mantissa = 2 * m
  BY DoubleFacts
<1>5. h \in Nat \ {0} /\ Mantissa \in Nat
  BY DoubleFacts
<1>6. h < U
  BY <1>3, <1>5
<1>7. Abs(w) >= Mantissa * h
  BY <1>1, <1>6
<1>8. U * m = Mantissa * h
  BY <1>3, <1>4, <1>5
<1>9. Mantissa * h >= Mantissa * u
  BY <1>1, <1>3, <1>5, Products
<1>10. Mantissa * u = u * Mantissa /\ u * Mantissa \in Int
  BY <1>1, <1>5
<1> QED
  BY <1>1, <1>7, <1>8, <1>9, <1>10 DEF u, U

(* Rounding keeps the order.                                                 *)
LEMMA RoundOrder ==
  ASSUME NEW v \in Int, NEW w \in Int, InReach(v), InReach(w), v <= w
  PROVE  Round(v) <= Round(w) /\ Round(v) \in Int /\ Round(w) \in Int
<1> DEFINE u == Spacing(v)
           U == Spacing(w)
<1>1. u \in Nat \ {0} /\ U \in Nat \ {0} /\ Mantissa \in Nat \ {0}
  BY SpacingParts, DoubleFacts
<1>2. Round(v) = Nearest(v, u) /\ Round(w) = Nearest(w, U)
  BY DEF Round
<1> HIDE DEF u, U
<1>3. Nearest(v, u) \in Int /\ Nearest(w, U) \in Int
  BY <1>1, NearestOrder
<1>4. CASE u = U
  BY <1>1, <1>2, <1>4, NearestOrder
<1>5. CASE u < U
  <2>1. PICK m \in Nat : /\ Abs(w) >= U * m /\ U * m >= u * Mantissa
                         /\ Abs(v) < u * Mantissa
    BY <1>5, SpacingStep DEF u, U
  <2>2. U * m \in Int /\ u * Mantissa \in Int /\ m \in Int /\ Mantissa \in Int
    BY <1>1
  <2>3. v <= u * Mantissa /\ w >= U * m
    BY <2>1, <2>2 DEF Abs
  <2>4. Nearest(v, u) <= u * Mantissa
    BY <1>1, <2>2, <2>3, NearestBounds
  <2>5. Nearest(w, U) >= U * m
    BY <1>1, <2>2, <2>3, NearestBounds
  <2> QED
    BY <1>2, <1>3, <2>1, <2>2, <2>4, <2>5
<1>6. CASE U < u
  <2>1. PICK m \in Nat : /\ Abs(v) >= u * m /\ u * m >= U * Mantissa
                         /\ Abs(w) < U * Mantissa
    BY <1>6, SpacingStep DEF u, U
  <2>2. u * m \in Int /\ U * Mantissa \in Int /\ u * (-m) = -(u * m)
        /\ U * (-Mantissa) = -(U * Mantissa) /\ -m \in Int /\ -Mantissa \in Int
    BY <1>1
  <2>3. v <= u * (-m) /\ w >= U * (-Mantissa)
    BY <2>1, <2>2 DEF Abs
  <2>4. Nearest(v, u) <= u * (-m) /\ Nearest(w, U) >= U * (-Mantissa)
    BY <1>1, <2>2, <2>3, NearestBounds
  <2> QED
    BY <1>2, <1>3, <2>1, <2>2, <2>4
<1> QED
  BY <1>1, <1>4, <1>5, <1>6

(* A number that is a multiple of a distance no closer than its own is a     *)
(* double.                                                                   *)
LEMMA RoundMultiple ==
  ASSUME NEW v \in Int, InReach(v), NEW u \in Ulps, Spacing(v) <= u,
         NEW k \in Int, v = u * k
  PROVE  Round(v) = v
<1> DEFINE t == Spacing(v)
<1>1. t \in Ulps /\ t \in Nat \ {0}
  BY SpacingParts
<1> HIDE DEF t
<1>2. PICK j \in Nat \ {0} : u = t * j
  BY <1>1, DoubleFacts DEF t
<1>3. v = t * (j * k) /\ j * k \in Int
  BY <1>1, <1>2
<1>4. Nearest(v, t) = v
  BY <1>1, <1>3, NearestBounds
<1> QED
  BY <1>4 DEF Round, t

(* and what rounding returns is a multiple of the distance of what was       *)
(* rounded, and a double itself.                                             *)
LEMMA RoundTwice ==
  ASSUME NEW v \in Int, InReach(v), InReach(Round(v))
  PROVE  Round(v) \in Int /\ Round(Round(v)) = Round(v)
         /\ \E k \in Int : Round(v) = Spacing(v) * k
<1> DEFINE u == Spacing(v)
           r == Round(v)
           t == Spacing(r)
<1>1. u \in Ulps /\ u \in Nat \ {0} /\ Abs(v) < Mantissa * u /\ Mantissa \in Nat \ {0}
  BY SpacingParts, DoubleFacts
<1>2. PICK k \in Int : u * k <= v /\ v < u * k + u /\ (r = u * k \/ r = u * k + u)
  BY <1>1, NearestParts DEF Round
<1>3. \E i \in Int : r = u * i
  <2>1. u * (k + 1) = u * k + u /\ k + 1 \in Int
    BY <1>1
  <2> QED
    BY <1>2, <2>1
<1>4. PICK i \in Int : r = u * i
  BY <1>3
<1>5. r \in Int
  BY <1>1, <1>4
<1>6. t \in Ulps /\ t \in Nat \ {0}
  BY <1>5, SpacingParts
<1>7. Abs(r) <= u * Mantissa
  <2>1. u * Mantissa \in Int /\ u * (-Mantissa) = -(u * Mantissa) /\ -Mantissa \in Int
        /\ Mantissa * u = u * Mantissa /\ Mantissa \in Int
    BY <1>1
  <2>2. v <= u * Mantissa /\ v >= u * (-Mantissa)
    BY <1>1, <2>1 DEF Abs
  <2> HIDE DEF u
  <2>3. Nearest(v, u) <= u * Mantissa
    BY <1>1, <2>1, <2>2, NearestBounds
  <2>4. Nearest(v, u) >= u * (-Mantissa)
    BY <1>1, <2>1, <2>2, NearestBounds
  <2>5. r = Nearest(v, u)
    BY DEF Round, u
  <2> HIDE DEF r
  <2> QED
    BY <1>5, <2>1, <2>3, <2>4, <2>5 DEF Abs
<1>8. CASE t <= u
  BY <1>1, <1>4, <1>5, <1>8, RoundMultiple
<1>9. CASE u < t
  <2>1. PICK m \in Nat : Abs(r) >= t * m /\ t * m >= u * Mantissa
    BY <1>5, <1>9, SpacingStep
  <2> HIDE DEF r, u, t
  <2>2. Abs(r) = t * m
    BY <1>1, <1>5, <1>6, <1>7, <2>1 DEF Abs
  <2>3. r = t * m \/ r = t * (-m)
    BY <1>5, <1>6, <2>2 DEF Abs
  <2>4. m \in Int /\ -m \in Int
    OBVIOUS
  <2>5. Nearest(r, t) = r
    <3>1. CASE r = t * m
      BY <1>5, <1>6, <2>4, <3>1, NearestBounds
    <3>2. CASE r = t * (-m)
      BY <1>5, <1>6, <2>4, <3>2, NearestBounds
    <3> QED
      BY <2>3, <3>1, <3>2
  <2>6. Round(r) = r
    BY <2>5 DEF Round, t
  <2> QED
    BY <1>1, <1>4, <1>5, <2>6 DEF r, u
<1> QED
  BY <1>1, <1>4, <1>5, <1>6, <1>8, <1>9

(* What is no more than a long is in reach.                                  *)
LEMMA Reach ==
  ASSUME NEW v \in Int, Abs(v) <= (LongMax + 1) * One
  PROVE  InReach(v)
<1> DEFINE w == (LongMax + 1) * One
<1>1. w \in Nat /\ Abs(w) = w
  BY TableSize, DoubleFacts DEF Abs
<1>2. InReach(w)
  BY ReachAssumption DEF ReachAssumption
<1> HIDE DEF w
<1>3. Abs(v) <= Abs(w)
  BY <1>1 DEF w
<1> QED
  BY <1>1, <1>2, <1>3, SpacingGrows

(* A double is a multiple of its distance.                                   *)
LEMMA DoubleMultiple ==
  ASSUME NEW d \in Int, InReach(d), Round(d) = d
  PROVE  \E k \in Int : d = Spacing(d) * k
<1> DEFINE u == Spacing(d)
<1>1. u \in Nat \ {0}
  BY SpacingParts
<1>2. PICK k \in Int : d = u * k \/ d = u * k + u
  <2>1. Nearest(d, u) = d
    BY DEF Round
  <2> HIDE DEF u
  <2>2. \E k \in Int : Nearest(d, u) = u * k \/ Nearest(d, u) = u * k + u
    BY <1>1, NearestParts
  <2> QED
    BY <2>1, <2>2
<1>3. u * (k + 1) = u * k + u /\ k + 1 \in Int
  BY <1>1
<1> QED
  BY <1>2, <1>3

(* What a double has beyond a whole number is a double.                      *)
LEMMA PartBelow ==
  ASSUME NEW d \in Int, InReach(d), Round(d) = d, NEW i \in Int,
         Abs(d - i * One) < One, i > 0 => d >= i * One, i < 0 => d <= i * One
  PROVE  /\ d - i * One \in Int /\ InReach(d - i * One)
         /\ Round(d - i * One) = d - i * One
<1> DEFINE r == d - i * One
           u == Spacing(d)
<1>1. r \in Int /\ i * One \in Int /\ One \in Nat \ {0}
  BY DoubleFacts
<1>2. u \in Ulps /\ u \in Nat \ {0}
  BY SpacingParts
<1>3. Abs(r) <= Abs(d)
  <2>1. (i > 0 => i * One >= 0) /\ (i < 0 => i * One <= 0) /\ (i = 0 => i * One = 0)
    BY <1>1
  <2> DEFINE j == i * One
  <2>2. j \in Int /\ r = d - j /\ (i > 0 => j >= 0 /\ d >= j) /\ (i < 0 => j <= 0 /\ d <= j)
        /\ (i = 0 => j = 0)
    BY <1>1, <2>1
  <2> HIDE DEF j, r
  <2> QED
    BY <2>2 DEF Abs
<1>4. InReach(r) /\ Spacing(r) <= u
  BY <1>1, <1>3, SpacingGrows
<1>5. PICK k \in Int : d = u * k
  BY DoubleMultiple
<1> HIDE DEF u
<1>6. CASE \E m \in Nat \ {0} : One = u * m
  <2>1. PICK m \in Nat \ {0} : One = u * m
    BY <1>6
  <2>2. r = u * (k - i * m) /\ k - i * m \in Int
    BY <1>2, <1>5, <2>1
  <2> HIDE DEF r
  <2>3. Round(r) = r
    BY <1>1, <1>2, <1>4, <2>2, RoundMultiple
  <2> QED
    BY <1>1, <1>4, <2>3 DEF r
<1>7. CASE \E m \in Nat \ {0} : u = One * m
  <2>1. PICK m \in Nat \ {0} : u = One * m
    BY <1>7
  <2>2. r = One * (m * k - i) /\ m * k - i \in Int
    BY <1>1, <1>5, <2>1
  <2>3. \A j \in Int : Abs(One * j) < One => j = 0
    <3> TAKE j \in Int
    <3>1. (j >= 1 => One * j >= One) /\ (j <= -1 => One * j <= -One) /\ One * j \in Int
      BY <1>1
    <3> QED
      BY <1>1, <3>1 DEF Abs
  <2>4. r = 0
    <3>1. m * k - i = 0
      BY <2>2, <2>3
    <3> QED
      BY <1>1, <2>2, <3>1
  <2>5. Nearest(r, Spacing(r)) = r
    <3>1. Spacing(r) \in Nat \ {0}
      BY <1>1, <1>4, SpacingParts
    <3>2. 0 \in Int /\ Spacing(r) * 0 = 0
      BY <3>1
    <3> HIDE DEF r
    <3> QED
      BY <1>1, <2>4, <3>1, <3>2, NearestBounds
  <2> QED
    BY <1>1, <1>4, <2>5 DEF Round
<1> QED
  BY <1>2, <1>6, <1>7, DoubleFacts

(* Whole numbers up to the power of the accuracy are doubles.                *)
LEMMA WholeDouble ==
  ASSUME NEW k \in Int, Abs(k) <= Power(DefaultAccuracy)
  PROVE  k * One \in Int /\ InReach(k * One) /\ Round(k * One) = k * One
<1> DEFINE P == Power(DefaultAccuracy)
           W == One * P
           U == Spacing(W)
           v == k * One
<1>1. P \in Nat \ {0} /\ P <= LongMax /\ LongMax \in Nat /\ One \in Nat \ {0}
  BY PowerType, PowerFits, TableSize, DoubleFacts, NumberBoundsAssumption
     DEF NumberBoundsAssumption
<1>2. W \in Nat /\ Abs(W) = W /\ W <= (LongMax + 1) * One
  <2> HIDE DEF P
  <2>1. One * P <= One * (LongMax + 1)
    BY <1>1, Products
  <2>2. One * (LongMax + 1) = (LongMax + 1) * One /\ One * P \in Nat
    BY <1>1
  <2> QED
    BY <2>1, <2>2 DEF Abs
<1>3. InReach(W)
  <2> HIDE DEF W
  <2> QED
    BY <1>2, Reach
<1>4. U \in Ulps /\ U \in Nat \ {0}
  BY <1>2, <1>3, SpacingParts
<1>5. One % U = 0
  BY DoublesAssumption DEF DoublesAssumption
<1> HIDE DEF P, U
<1>6. One = U * (One \div U) /\ One \div U \in Nat
  BY <1>1, <1>4, <1>5
<1>7. v \in Int /\ Abs(v) <= Abs(W)
  <2>1. Abs(k) \in Nat /\ Abs(k) <= P
    BY <1>1 DEF Abs, P
  <2>2. One * Abs(k) <= One * P
    BY <1>1, <2>1, Products
  <2>3. Abs(v) = One * Abs(k)
    BY <1>1 DEF Abs
  <2> QED
    BY <1>1, <1>2, <2>2, <2>3
<1> DEFINE m == One \div U
<1> HIDE DEF W
<1>8. InReach(v) /\ Spacing(v) <= U
  BY <1>2, <1>3, <1>7, SpacingGrows DEF U
<1>9. v = U * (m * k) /\ m * k \in Int
  <2> HIDE DEF m
  <2>1. v = k * (U * m) /\ m \in Nat
    BY <1>6 DEF m
  <2> HIDE DEF v
  <2> QED
    BY <1>4, <2>1
<1> HIDE DEF v, m
<1>10. Round(v) = v
  BY <1>4, <1>7, <1>8, <1>9, RoundMultiple
<1> QED
  BY <1>7, <1>8, <1>10 DEF v

(* What is left when a product that was rounded is cut off.                  *)
LEMMA CutDown ==
  ASSUME NEW v \in Nat, NEW r \in Int, NEW p \in Nat, v < p * One, r < p * One,
         \A k \in 0..p : (v <= k * One => r <= k * One) /\ (v >= k * One => r >= k * One)
  PROVE  LET g == Quot(r, One)
         IN g \in Nat /\ g < p /\ v - g * One < One /\ g * One - v < One /\ r >= 0
<1> DEFINE g == Quot(r, One)
           f == v \div One
<1>1. One \in Nat \ {0}
  BY DoubleFacts
<1>2. f \in Nat /\ One * f <= v /\ v < One * f + One
  BY <1>1
<1> DEFINE F == f * One
<1>3. F \in Nat /\ F <= v /\ v < F + One /\ (f + 1) * One = F + One
  BY <1>1, <1>2
<1>4. f < p
  <2>1. ASSUME p <= f PROVE p * One <= F
    <3>1. One * p <= One * f
      BY <1>1, <1>2, <2>1, Products
    <3> QED
      BY <1>1, <1>2, <3>1
  <2>2. p * One \in Int
    BY <1>1
  <2> QED
    BY <1>2, <1>3, <2>1, <2>2
<1> HIDE DEF f
<1>5. f \in 0..p /\ f + 1 \in 0..p /\ 0 \in 0..p /\ 0 * One = 0
  BY <1>1, <1>2, <1>4
<1>6. F <= r /\ r <= F + One /\ (v = F => r <= F) /\ r >= 0
  <2>1. (v <= F => r <= F) /\ (v >= F => r >= F)
    BY <1>5
  <2>2. v <= F + One => r <= F + One
    <3>1. v <= (f + 1) * One => r <= (f + 1) * One
      BY <1>5
    <3> QED
      BY <1>3, <3>1
  <2>3. v >= 0 => r >= 0
    <3>1. v >= 0 * One => r >= 0 * One
      BY <1>5
    <3> QED
      BY <1>5, <3>1
  <2> HIDE DEF F
  <2> QED
    BY <1>1, <1>3, <2>1, <2>2, <2>3
<1>7. /\ g \in Nat /\ Rem(r, One) \in Nat /\ Rem(r, One) < One
      /\ r = One * g + Rem(r, One)
  <2>1. /\ g \in Int /\ Rem(r, One) \in Int /\ r = One * g + Rem(r, One)
        /\ Abs(Rem(r, One)) < Abs(One) /\ Rem(r, One) >= 0 /\ g >= 0
    BY <1>1, <1>6, Division
  <2> QED
    BY <1>1, <2>1 DEF Abs
<1> HIDE DEF g
<1>8. g * One \in Nat /\ g * One = One * g /\ g * One <= r /\ r < g * One + One
  BY <1>1, <1>7
<1>9. g < p
  <2>1. ASSUME p <= g PROVE p * One <= g * One
    <3>1. One * p <= One * g
      BY <1>1, <1>7, <2>1, Products
    <3> QED
      BY <1>1, <1>7, <3>1
  <2>2. p * One \in Int
    BY <1>1
  <2> QED
    BY <1>7, <1>8, <2>1, <2>2
<1>10. g = f \/ g = f + 1
  <2>1. (g - f) * One = g * One - F
    BY <1>1, <1>2, <1>7
  <2>2. -One < (g - f) * One /\ (g - f) * One <= One
    BY <1>1, <1>3, <1>6, <1>8, <2>1
  <2>3. \A m \in Int : (m <= -1 => m * One <= -One) /\ (m >= 2 => m * One >= One + One)
    BY <1>1
  <2> QED
    BY <1>1, <1>2, <1>7, <2>2, <2>3
<1>11. v - g * One < One /\ g * One - v < One
  <2>1. CASE g = f
    BY <1>1, <1>3, <2>1
  <2>2. CASE g = f + 1
    <3>1. g * One = F + One
      BY <1>3, <2>2
    <3>2. v # F
      BY <1>1, <1>3, <1>6, <1>8, <3>1
    <3> QED
      BY <1>1, <1>3, <3>1, <3>2
  <2> QED
    BY <1>10, <2>1, <2>2
<1> QED
  BY <1>6, <1>7, <1>9, <1>11 DEF g

(* The digits of a double below 1: less than a unit off, and not all of 1.   *)
LEMMA DigitsOfDouble ==
  ASSUME NEW rest \in Int, Abs(rest) < One, Round(rest) = rest
  PROVE  LET P == Power(DefaultAccuracy)
             g == Quot(Round(rest * P), One)
         IN /\ g \in Int /\ Abs(g) < P /\ Abs(rest * P - g * One) < One
            /\ (rest >= 0 => g >= 0) /\ (rest <= 0 => g <= 0)
<1> DEFINE P == Power(DefaultAccuracy)
           v == rest * P
           r == Round(v)
           g == Quot(r, One)
<1>1. P \in Nat \ {0} /\ P <= LongMax /\ LongMax \in Nat /\ One \in Nat \ {0}
  BY PowerType, PowerFits, TableSize, DoubleFacts, NumberBoundsAssumption
     DEF NumberBoundsAssumption
<1>2. Abs(r) < One * P
  <2>1. rest \in 1 - One..One - 1
    BY <1>1 DEF Abs
  <2> QED
    BY <2>1, BelowOneAssumption DEF BelowOneAssumption
<1> HIDE DEF P
<1>3. /\ v \in Int /\ v < P * One /\ -v < P * One
      /\ (rest >= 0 => v >= 0) /\ (rest <= 0 => v <= 0)
      /\ P * One = One * P /\ P * One \in Nat
  <2>1. \A i \in Nat : i < One => P * i < P * One
    <3> TAKE i \in Nat
    <3> HAVE i < One
    <3>1. P * (One - i) = P * One - P * i /\ P * One \in Int /\ P * i \in Int
      BY <1>1
    <3>2. \A j \in Nat \ {0} : P * j > 0
      BY <1>1
    <3>3. P * (One - i) > 0
      BY <1>1, <3>2
    <3> QED
      BY <3>1, <3>3
  <2>2. CASE rest >= 0
    <3>1. P * rest < P * One /\ P * rest = v /\ v >= 0
      BY <1>1, <2>1, <2>2 DEF Abs
    <3> QED
      BY <1>1, <2>2, <3>1
  <2>3. CASE rest < 0
    <3>1. P * (-rest) < P * One /\ P * (-rest) = -v /\ v <= 0
      BY <1>1, <2>1, <2>3 DEF Abs
    <3> QED
      BY <1>1, <2>3, <3>1
  <2> QED
    BY <2>2, <2>3
<1>4. InReach(v)
  <2>1. P * One <= (LongMax + 1) * One
    <3>1. One * P <= One * (LongMax + 1)
      BY <1>1, Products
    <3> QED
      BY <1>1, <3>1
  <2>2. (LongMax + 1) * One \in Int
    BY <1>1
  <2> HIDE DEF v
  <2>3. Abs(v) <= (LongMax + 1) * One
    BY <1>3, <2>1, <2>2 DEF Abs
  <2> QED
    BY <1>3, <2>3, Reach
<1>5. \A k \in -P..P :
        /\ v <= k * One => r <= k * One
        /\ v >= k * One => r >= k * One
  <2> TAKE k \in -P..P
  <2>1. k \in Int /\ Abs(k) <= P
    BY <1>1 DEF Abs
  <2>2. k * One \in Int /\ InReach(k * One) /\ Round(k * One) = k * One
    BY <2>1, WholeDouble DEF P
  <2> HIDE DEF v
  <2> QED
    BY <1>3, <1>4, <2>2, RoundOrder
<1>6. r \in Int
  <2> HIDE DEF v
  <2> QED
    BY <1>3, <1>4, RoundOrder
<1> HIDE DEF v, r
<1>7. CASE rest >= 0
  <2>1. v \in Nat /\ r < P * One
    BY <1>2, <1>3, <1>6, <1>7 DEF Abs
  <2>2. \A k \in 0..P : (v <= k * One => r <= k * One) /\ (v >= k * One => r >= k * One)
    BY <1>1, <1>5
  <2>3. P \in Nat
    BY <1>1
  <2>4. g \in Nat /\ g < P /\ v - g * One < One /\ g * One - v < One
    BY <1>3, <1>6, <2>1, <2>2, <2>3, CutDown
  <2> HIDE DEF g
  <2>5. g * One \in Int
    BY <1>1, <2>4
  <2>6. Abs(g) < P /\ Abs(v - g * One) < One
    BY <1>3, <2>4, <2>5 DEF Abs
  <2>7. rest <= 0 => g <= 0
    <3>1. ASSUME rest = 0 PROVE g = 0
      <4>1. v = 0
        BY <1>1, <3>1 DEF v
      <4>2. g * One < One
        BY <1>1, <2>4, <2>5, <4>1
      <4>3. \A m \in Nat \ {0} : m * One >= One
        BY <1>1
      <4> QED
        BY <1>1, <2>4, <2>5, <4>2, <4>3
    <3> QED
      BY <1>7, <3>1
  <2> QED
    BY <2>4, <2>6, <2>7 DEF g, r, v, P
<1>8. CASE rest < 0
  <2> DEFINE w == -v
             q == -r
             h == Quot(q, One)
  <2>1. w \in Nat /\ q \in Int /\ q < P * One /\ w < P * One
    BY <1>2, <1>3, <1>6, <1>8 DEF Abs
  <2>2. \A k \in 0..P : (w <= k * One => q <= k * One) /\ (w >= k * One => q >= k * One)
    <3> TAKE k \in 0..P
    <3>1. -k \in -P..P /\ (-k) * One = -(k * One) /\ k * One \in Int
      BY <1>1
    <3> QED
      BY <1>3, <1>5, <1>6, <3>1
  <2>3. P \in Nat
    BY <1>1
  <2> HIDE DEF w, q
  <2>4. h \in Nat /\ h < P /\ w - h * One < One /\ h * One - w < One /\ q >= 0
    BY <2>1, <2>2, <2>3, CutDown
  <2>5. g = -h
    <3>1. CASE r = 0
      <4>1. Quot(0, One) = 0
        <5>1. Quot(One * 0, One) = 0
          BY <1>1, ExactDivision
        <5>2. One * 0 = 0
          BY <1>1
        <5> QED
          BY <5>1, <5>2
      <4>2. q = 0
        <5>1. q + r = 0
          BY <1>6 DEF q
        <5> QED
          BY <2>1, <3>1, <5>1
      <4> QED
        BY <3>1, <4>1, <4>2
    <3>2. CASE r # 0
      <4>1. r < 0 /\ ~(q < 0) /\ ~(One < 0) /\ Abs(r) = q /\ Abs(q) = q /\ Abs(One) = One
        BY <1>1, <1>6, <2>1, <2>4, <3>2 DEF Abs, q
      <4>2. g = -(q \div One) /\ h = q \div One
        BY <4>1 DEF Quot
      <4> QED
        BY <4>2
    <3> QED
      BY <3>1, <3>2
  <2> HIDE DEF h, g
  <2>6. g * One = -(h * One) /\ h * One \in Int
    BY <1>1, <2>4, <2>5
  <2>7. g \in Int /\ Abs(g) < P /\ g <= 0
    BY <2>4, <2>5, <1>1 DEF Abs
  <2>8. Abs(v - g * One) < One
    BY <1>1, <1>3, <2>4, <2>6 DEF Abs, w
  <2> QED
    BY <1>8, <2>7, <2>8 DEF g, r, v, P
<1> QED
  BY <1>7, <1>8

-----------------------------------------------------------------------------
(* Numbers whose powers of ten are in the table; one without a point has no  *)
(* digits after it.                                                          *)
Numbers == [int : Int, base : Int, exp : -1..MaxPower]
Sound(n) == n \in Numbers /\ (n.exp = -1 => n.base = 0)

(* A number without a point and without digits is one of them.               *)
LEMMA NumberParts ==
  ASSUME NEW i \in Int, NEW b \in Int, NEW e \in -1..MaxPower, e = -1 => b = 0
  PROVE  /\ Sound(Number(i, b, e))
         /\ Number(i, b, e).int = i /\ Number(i, b, e).base = b /\ Number(i, b, e).exp = e
BY DEF Number, Sound, Numbers

(* The parts of such a number.                                               *)
LEMMA ScaleType ==
  ASSUME NEW n, Sound(n)
  PROVE  /\ n.int \in Int /\ n.base \in Int /\ n.exp \in -1..MaxPower
         /\ Scale(n) \in 0..MaxPower /\ (n.exp = -1 => Scale(n) = 0)
         /\ (n.exp # -1 => Scale(n) = n.exp)
         /\ Power(Scale(n)) \in Nat \ {0}
         /\ Value(n) \in Int
<1>1. n.int \in Int /\ n.base \in Int /\ n.exp \in -1..MaxPower
  BY DEF Sound, Numbers
<1>2. Scale(n) \in 0..MaxPower /\ (n.exp = -1 => Scale(n) = 0)
      /\ (n.exp # -1 => Scale(n) = n.exp)
  <2>1. \A e \in -1..MaxPower :
          MaxOf(e, 0) \in 0..MaxPower /\ (e = -1 => MaxOf(e, 0) = 0)
          /\ (e # -1 => MaxOf(e, 0) = e)
    BY TableSize DEF MaxOf
  <2> QED
    BY <1>1, <2>1 DEF Scale
<1>3. Power(Scale(n)) \in Nat \ {0}
  BY <1>2, PowerType
<1> QED
  BY <1>1, <1>2, <1>3 DEF Value

(* A number in units of more digits than it has.                             *)
LEMMA AtParts ==
  ASSUME NEW n, Sound(n), NEW scale \in Scale(n)..MaxPower
  PROVE  /\ Power(scale) \in Nat \ {0} /\ Power(scale - Scale(n)) \in Nat \ {0}
         /\ Power(scale) = Power(Scale(n)) * Power(scale - Scale(n))
         /\ At(n, scale) = n.int * Power(scale) + n.base * Power(scale - Scale(n))
         /\ At(n, scale) \in Int
<1> DEFINE s == Scale(n)
           d == scale - s
<1>1. s \in 0..MaxPower /\ d \in 0..MaxPower /\ scale \in 0..MaxPower /\ s + d = scale
      /\ s \in Nat /\ d \in Nat
  BY ScaleType, TableSize
<1>2. Power(s) \in Nat \ {0} /\ Power(d) \in Nat \ {0} /\ Power(scale) \in Nat \ {0}
  BY <1>1, PowerType
<1>3. Power(scale) = Power(s) * Power(d)
  BY <1>1, PowerSplit, TableSize
<1>4. n.int \in Int /\ n.base \in Int
  BY ScaleType
<1>5. \A i, b \in Int, p, q \in Nat : (i * p + b) * q = i * (p * q) + b * q
  OBVIOUS
<1>6. At(n, scale) = (n.int * Power(s) + n.base) * Power(d)
  BY DEF At, Value
<1> HIDE DEF s, d
<1>7. At(n, scale) = n.int * (Power(s) * Power(d)) + n.base * Power(d)
  BY <1>2, <1>4, <1>5, <1>6
<1>8. At(n, scale) = n.int * Power(scale) + n.base * Power(d)
  BY <1>3, <1>7
<1>9. At(n, scale) \in Int
  BY <1>2, <1>4, <1>8
<1> QED
  BY <1>2, <1>3, <1>8, <1>9 DEF s, d

(* At its own digits it is its value.                                        *)
LEMMA AtScale ==
  ASSUME NEW n, Sound(n)
  PROVE  At(n, Scale(n)) = Value(n)
BY ScaleType, PowerType DEF At

(* The digits of a number, aligned with those of another.                    *)
LEMMA LiftedParts ==
  ASSUME NEW n, Sound(n), NEW e \in n.exp..MaxPower, e - n.exp <= MaxPower
  PROVE  /\ Lifted(n, e) \in Int
         /\ MaxOf(e, 0) \in Scale(n)..MaxPower
         /\ Lifted(n, e) = n.base * Power(MaxOf(e, 0) - Scale(n))
         /\ e = -1 => Lifted(n, e) = 0
<1>1. n.base \in Int /\ n.exp \in -1..MaxPower /\ Scale(n) \in 0..MaxPower
      /\ (n.exp = -1 => Scale(n) = 0 /\ n.base = 0) /\ (n.exp # -1 => Scale(n) = n.exp)
  BY ScaleType DEF Sound
<1>2. MaxPower \in Nat
  BY TableSize
<1>3. e \in -1..MaxPower /\ e - n.exp \in 0..MaxPower /\ MaxOf(e, 0) \in Scale(n)..MaxPower
      /\ MaxOf(e, 0) - Scale(n) \in 0..MaxPower
  BY <1>1, <1>2 DEF MaxOf
<1>4. Power(e - n.exp) \in Nat /\ Power(MaxOf(e, 0) - Scale(n)) \in Nat
  BY <1>3, PowerType
<1>5. \A p \in Nat : 0 * p = 0
  OBVIOUS
<1>6. CASE n.exp = -1
  BY <1>1, <1>3, <1>4, <1>5, <1>6 DEF Lifted
<1>7. CASE n.exp # -1
  <2>1. e # -1 /\ MaxOf(e, 0) - Scale(n) = e - n.exp
    BY <1>1, <1>3, <1>7 DEF MaxOf
  <2> QED
    BY <1>1, <1>3, <1>4, <2>1 DEF Lifted
<1> QED
  BY <1>6, <1>7

(* What Carry moves keeps the value.                                         *)
LEMMA CarryType ==
  ASSUME NEW i \in Int, NEW b \in Int, NEW e
  PROVE  Carry(i, b, e) \in {-1, 0, 1}
BY DEF Carry

(* Whatever overflows, += and -= leave such a number,                        *)
LEMMA CarriedType ==
  ASSUME NEW i \in Int, NEW b \in Int, NEW e \in -1..MaxPower, e = -1 => b = 0
  PROVE  Sound(Carried(Wrap(i), Wrap(b), e)) /\ Carried(Wrap(i), Wrap(b), e).exp = e
<1> DEFINE c == Carry(Wrap(i), Wrap(b), e)
<1>1. Wrap(i) \in Int /\ Wrap(b) \in Int
  BY WrapType
<1>2. c \in Int
  BY <1>1, CarryType
<1>3. Power(e) \in Int /\ (e = -1 => Power(e) = 0)
  <2>1. CASE e = -1
    BY <2>1 DEF Power
  <2>2. CASE e # -1
    BY <2>2, PowerType
  <2> QED
    BY <2>1, <2>2
<1>4. Wrap(0) = 0
  BY WrapFits, TableSize DEF Fits
<1> HIDE DEF c
<1>5. Wrap(i) + c \in Int /\ Wrap(b) - c * Power(e) \in Int
  BY <1>1, <1>2, <1>3
<1>6. e = -1 => Wrap(b) - c * Power(e) = 0
  BY <1>2, <1>3, <1>4
<1>7. Wrap(Wrap(i) + c) \in Int /\ Wrap(Wrap(b) - c * Power(e)) \in Int
  BY <1>5, WrapType
<1>8. e = -1 => Wrap(Wrap(b) - c * Power(e)) = 0
  BY <1>4, <1>6
<1>9. Carried(Wrap(i), Wrap(b), e) = Number(Wrap(Wrap(i) + c), Wrap(Wrap(b) - c * Power(e)), e)
  BY DEF Carried, c
<1> QED
  BY <1>7, <1>8, <1>9, NumberParts

(* and if nothing does, the value of the parts put together.                 *)
LEMMA CarriedExact ==
  ASSUME NEW i \in Int, NEW b \in Int, NEW e \in -1..MaxPower, e = -1 => b = 0,
         CarriedFits(i, b, e)
  PROVE  LET n == Carried(Wrap(i), Wrap(b), e)
             c == Carry(i, b, e)
         IN /\ n.int = i + c /\ n.base = b - c * Power(e)
            /\ Value(n) = i * Power(MaxOf(e, 0)) + b
<1> DEFINE c == Carry(i, b, e)
           n == Carried(Wrap(i), Wrap(b), e)
<1>1. Wrap(i) = i /\ Wrap(b) = b /\ Wrap(i + c) = i + c
      /\ Wrap(b - c * Power(e)) = b - c * Power(e)
  BY DEF CarriedFits, Fits
<1>2. n = Number(i + c, b - c * Power(e), e)
  BY <1>1 DEF Carried
<1>3. n.int = i + c /\ n.base = b - c * Power(e) /\ n.exp = e
  BY <1>2 DEF Number
<1>4. Value(n) = (i + c) * Power(MaxOf(e, 0)) + (b - c * Power(e))
  BY <1>3 DEF Value, Scale
<1>5. c \in Int
  BY CarryType
<1> HIDE DEF c, n
<1>6. CASE e = -1
  <2>1. Power(e) = 0 /\ MaxOf(e, 0) = 0 /\ b = 0
    BY <1>6 DEF Power, MaxOf
  <2>2. c = 0
    BY <2>1 DEF Carry, c
  <2>3. Power(0) = 1
    BY PowerType
  <2> QED
    BY <1>3, <1>4, <2>1, <2>2, <2>3 DEF c, n
<1>7. CASE e # -1
  <2>1. MaxOf(e, 0) = e /\ Power(e) \in Nat
    BY <1>7, PowerType DEF MaxOf
  <2>2. \A p \in Nat : (i + c) * p + (b - c * p) = i * p + b
    BY <1>5
  <2>3. Value(n) = i * Power(MaxOf(e, 0)) + b
    BY <1>4, <2>1, <2>2
  <2> QED
    BY <1>3, <2>3 DEF c, n
<1> QED
  BY <1>6, <1>7

(* += and -=, whatever overflows and when nothing does.                      *)
LEMMA SumParts ==
  ASSUME NEW a, NEW b, Sound(a), Sound(b), Alignable(a, b)
  PROVE  LET e == MaxOf(a.exp, b.exp)
         IN /\ e \in -1..MaxPower
            /\ e \in a.exp..MaxPower /\ e - a.exp <= MaxPower
            /\ e \in b.exp..MaxPower /\ e - b.exp <= MaxPower
            /\ Lifted(a, e) \in Int /\ Lifted(b, e) \in Int
            /\ e = -1 => Lifted(a, e) = 0 /\ Lifted(b, e) = 0
            /\ MaxOf(e, 0) = MaxOf(Scale(a), Scale(b))
            /\ MaxOf(e, 0) \in Scale(a)..MaxPower /\ MaxOf(e, 0) \in Scale(b)..MaxPower
<1> DEFINE e == MaxOf(a.exp, b.exp)
<1>1. a.exp \in -1..MaxPower /\ b.exp \in -1..MaxPower /\ MaxPower \in Nat
  BY ScaleType, TableSize
<1>2. a.exp - b.exp <= MaxPower /\ b.exp - a.exp <= MaxPower
  BY <1>1 DEF Alignable
<1>3. /\ e \in -1..MaxPower
      /\ e \in a.exp..MaxPower /\ e - a.exp <= MaxPower
      /\ e \in b.exp..MaxPower /\ e - b.exp <= MaxPower
      /\ MaxOf(e, 0) = MaxOf(MaxOf(a.exp, 0), MaxOf(b.exp, 0))
  <2>1. \A i, j \in -1..MaxPower :
          i - j <= MaxPower /\ j - i <= MaxPower =>
          LET k == MaxOf(i, j)
          IN /\ k \in -1..MaxPower
             /\ k \in i..MaxPower /\ k - i <= MaxPower
             /\ k \in j..MaxPower /\ k - j <= MaxPower
             /\ MaxOf(k, 0) = MaxOf(MaxOf(i, 0), MaxOf(j, 0))
    BY <1>1 DEF MaxOf
  <2> QED
    BY <1>1, <1>2, <2>1
<1>4. MaxOf(e, 0) = MaxOf(Scale(a), Scale(b))
  BY <1>3 DEF Scale
<1> HIDE DEF e
<1>5. /\ Lifted(a, e) \in Int /\ Lifted(b, e) \in Int
      /\ e = -1 => Lifted(a, e) = 0 /\ Lifted(b, e) = 0
      /\ MaxOf(e, 0) \in Scale(a)..MaxPower /\ MaxOf(e, 0) \in Scale(b)..MaxPower
  BY <1>3, LiftedParts
<1> QED
  BY <1>3, <1>4, <1>5 DEF e

(* Sums and differences are such numbers,                                    *)
LEMMA SumType ==
  ASSUME NEW a, NEW b, Sound(a), Sound(b), Alignable(a, b)
  PROVE  /\ Sound(Sum(a, b)) /\ Sum(a, b).exp = MaxOf(a.exp, b.exp)
         /\ Sound(Difference(a, b)) /\ Difference(a, b).exp = MaxOf(a.exp, b.exp)
<1> DEFINE e == MaxOf(a.exp, b.exp)
<1>1. /\ e \in -1..MaxPower /\ Lifted(a, e) \in Int /\ Lifted(b, e) \in Int
      /\ e = -1 => Lifted(a, e) = 0 /\ Lifted(b, e) = 0
  BY SumParts
<1>2. a.int \in Int /\ b.int \in Int
  BY ScaleType
<1> DEFINE u == Lifted(a, e)
           v == Lifted(b, e)
<1>3. /\ Sum(a, b) = Carried(Wrap(a.int + b.int), Wrap(u + v), e)
      /\ Difference(a, b) = Carried(Wrap(a.int - b.int), Wrap(u - v), e)
  BY DEF Sum, Difference
<1> HIDE DEF e, u, v
<1>4. u + v \in Int /\ u - v \in Int /\ (e = -1 => u + v = 0 /\ u - v = 0)
      /\ a.int + b.int \in Int /\ a.int - b.int \in Int
  BY <1>1, <1>2 DEF u, v
<1>5. Sound(Sum(a, b)) /\ Sum(a, b).exp = e
  BY <1>1, <1>3, <1>4, CarriedType
<1>6. Sound(Difference(a, b)) /\ Difference(a, b).exp = e
  BY <1>1, <1>3, <1>4, CarriedType
<1> QED
  BY <1>5, <1>6 DEF e

(* a sum has the value of both,                                              *)
LEMMA SumExact ==
  ASSUME NEW a, NEW b, Sound(a), Sound(b), Alignable(a, b), SumFits(a, b)
  PROVE  LET n == Sum(a, b) IN Value(n) = At(a, Scale(n)) + At(b, Scale(n))
<1> DEFINE e == MaxOf(a.exp, b.exp)
           n == Sum(a, b)
           u == Lifted(a, e)
           v == Lifted(b, e)
           s == MaxOf(e, 0)
<1>1. /\ e \in -1..MaxPower /\ u \in Int /\ v \in Int /\ (e = -1 => u = 0 /\ v = 0)
      /\ e \in a.exp..MaxPower /\ e - a.exp <= MaxPower
      /\ e \in b.exp..MaxPower /\ e - b.exp <= MaxPower
      /\ s \in Scale(a)..MaxPower /\ s \in Scale(b)..MaxPower
  BY SumParts
<1>2. a.int \in Int /\ b.int \in Int
  BY ScaleType
<1>3. n = Carried(Wrap(a.int + b.int), Wrap(u + v), e) /\ CarriedFits(a.int + b.int, u + v, e)
  BY DEF Sum, SumFits
<1>4. u = a.base * Power(s - Scale(a)) /\ v = b.base * Power(s - Scale(b))
  BY <1>1, LiftedParts
<1>5. Scale(n) = s
  BY SumType DEF Scale
<1> HIDE DEF e, n, u, v, s
<1>6. /\ At(a, s) = a.int * Power(s) + u /\ At(b, s) = b.int * Power(s) + v
      /\ Power(s) \in Nat
  BY <1>1, <1>4, AtParts
<1>7. u + v \in Int /\ (e = -1 => u + v = 0) /\ a.int + b.int \in Int
  BY <1>1, <1>2
<1>8. Value(n) = (a.int + b.int) * Power(s) + (u + v)
  BY <1>1, <1>3, <1>7, CarriedExact DEF s
<1>9. \A i, j, c, d \in Int, p \in Nat : (i + j) * p + (c + d) = (i * p + c) + (j * p + d)
  OBVIOUS
<1>10. Value(n) = At(a, s) + At(b, s)
  BY <1>1, <1>2, <1>6, <1>8, <1>9
<1> QED
  BY <1>5, <1>10 DEF n

(* and a difference what is left of one.                                     *)
LEMMA DifferenceExact ==
  ASSUME NEW a, NEW b, Sound(a), Sound(b), Alignable(a, b), DifferenceFits(a, b)
  PROVE  LET n == Difference(a, b) IN Value(n) = At(a, Scale(n)) - At(b, Scale(n))
<1> DEFINE e == MaxOf(a.exp, b.exp)
           n == Difference(a, b)
           u == Lifted(a, e)
           v == Lifted(b, e)
           s == MaxOf(e, 0)
<1>1. /\ e \in -1..MaxPower /\ u \in Int /\ v \in Int /\ (e = -1 => u = 0 /\ v = 0)
      /\ e \in a.exp..MaxPower /\ e - a.exp <= MaxPower
      /\ e \in b.exp..MaxPower /\ e - b.exp <= MaxPower
      /\ s \in Scale(a)..MaxPower /\ s \in Scale(b)..MaxPower
  BY SumParts
<1>2. a.int \in Int /\ b.int \in Int
  BY ScaleType
<1>3. n = Carried(Wrap(a.int - b.int), Wrap(u - v), e) /\ CarriedFits(a.int - b.int, u - v, e)
  BY DEF Difference, DifferenceFits
<1>4. u = a.base * Power(s - Scale(a)) /\ v = b.base * Power(s - Scale(b))
  BY <1>1, LiftedParts
<1>5. Scale(n) = s
  BY SumType DEF Scale
<1> HIDE DEF e, n, u, v, s
<1>6. /\ At(a, s) = a.int * Power(s) + u /\ At(b, s) = b.int * Power(s) + v
      /\ Power(s) \in Nat
  BY <1>1, <1>4, AtParts
<1>7. u - v \in Int /\ (e = -1 => u - v = 0) /\ a.int - b.int \in Int
  BY <1>1, <1>2
<1>8. Value(n) = (a.int - b.int) * Power(s) + (u - v)
  BY <1>1, <1>3, <1>7, CarriedExact DEF s
<1>9. \A i, j, c, d \in Int, p \in Nat : (i - j) * p + (c - d) = (i * p + c) - (j * p + d)
  OBVIOUS
<1>10. Value(n) = At(a, s) - At(b, s)
  BY <1>1, <1>2, <1>6, <1>8, <1>9
<1> QED
  BY <1>5, <1>10 DEF n

(* Products.                                                                 *)
LEMMA FactorType ==
  ASSUME NEW a, Sound(a)
  PROVE  Power(a.exp) \in Nat /\ (a.exp # -1 => Power(a.exp) = Power(Scale(a)))
BY ScaleType, PowerType DEF Power

(* What the three terms of a product are divided by.                         *)
LEMMA DivisorType ==
  ASSUME NEW e \in -1..MaxPower
  PROVE  Divisor(e) \in Nat \ {0} /\ Divisor(e) = Power(MaxOf(e, 0))
<1>1. CASE e = -1
  BY <1>1, PowerType DEF Divisor, MaxOf
<1>2. CASE e # -1
  BY <1>2, PowerType DEF Divisor, MaxOf
<1> QED
  BY <1>1, <1>2

(* The digits of a product are at most those of its factors.                 *)
LEMMA ProductExpType ==
  ASSUME NEW a, NEW b, Sound(a), Sound(b), a.exp + b.exp <= MaxPower
  PROVE  /\ ProductExp(a, b) \in -1..MaxPower
         /\ Scale(a) + Scale(b) \in MaxOf(ProductExp(a, b), 0)..MaxPower
         /\ a.exp # -1 /\ b.exp # -1 =>
              MaxOf(ProductExp(a, b), 0) = Scale(a) + Scale(b)
<1>1. a.exp \in -1..MaxPower /\ b.exp \in -1..MaxPower /\ MaxPower \in Nat
  BY ScaleType, TableSize
<1>2. \A i, j \in -1..MaxPower :
        LET e == IF i + j < 0 THEN -1 ELSE i + j
        IN i + j <= MaxPower =>
             /\ e \in -1..MaxPower
             /\ MaxOf(i, 0) + MaxOf(j, 0) \in MaxOf(e, 0)..MaxPower
             /\ i # -1 /\ j # -1 => MaxOf(e, 0) = MaxOf(i, 0) + MaxOf(j, 0)
  BY <1>1 DEF MaxOf
<1> QED
  BY <1>1, <1>2 DEF ProductExp, Scale

(* A product is such a number.                                               *)
LEMMA ProductParts ==
  ASSUME NEW a, NEW b, Sound(a), Sound(b), a.exp + b.exp <= MaxPower
  PROVE  LET n == Product(a, b)
             e == ProductExp(a, b)
             t == Wrap(Cross(a, b)[1] + Cross(a, b)[2] + Cross(a, b)[3])
         IN /\ Sound(n) /\ n.exp = e
            /\ t \in Int /\ n.int = Wrap(a.int * b.int + Quot(t, Divisor(e)))
            /\ n.base = Rem(t, Divisor(e))
<1> DEFINE n == Product(a, b)
           e == ProductExp(a, b)
           t == Wrap(Cross(a, b)[1] + Cross(a, b)[2] + Cross(a, b)[3])
           d == Divisor(e)
<1>1. a.int \in Int /\ a.base \in Int /\ b.int \in Int /\ b.base \in Int
  BY ScaleType
<1>2. Power(a.exp) \in Int /\ Power(b.exp) \in Int
  BY FactorType
<1>3. \A i, j \in Int : Times(i, j) \in Int
  BY WrapType DEF Times
<1>4. Cross(a, b)[1] \in Int /\ Cross(a, b)[2] \in Int /\ Cross(a, b)[3] \in Int
  BY <1>1, <1>2, <1>3 DEF Cross
<1>5. t \in Int
  BY <1>4, WrapType
<1>6. e \in -1..MaxPower
  BY ProductExpType
<1>7. d \in Nat \ {0} /\ (e = -1 => d = 1)
  BY <1>6, DivisorType DEF Divisor
<1>8. n = Number(Wrap(a.int * b.int + Quot(t, d)), Rem(t, d), e)
  BY DEF Product
<1> HIDE DEF t, d, e, n
<1>9. Quot(t, d) \in Int /\ Rem(t, d) \in Int /\ Abs(Rem(t, d)) < Abs(d)
  <2>1. d \in Int /\ d # 0
    BY <1>7
  <2> QED
    BY <1>5, <2>1, Division, Zenon
<1>10. e = -1 => Rem(t, d) = 0
  BY <1>7, <1>9 DEF Abs
<1>11. Wrap(a.int * b.int + Quot(t, d)) \in Int
  BY <1>1, <1>9, WrapType
<1>12. Sound(n) /\ n.exp = e /\ n.int = Wrap(a.int * b.int + Quot(t, d)) /\ n.base = Rem(t, d)
  BY <1>6, <1>8, <1>9, <1>10, <1>11, NumberParts
<1> QED
  BY <1>5, <1>12 DEF t, d, e, n

(* What the three terms add up to when nothing overflows.                    *)
LEMMA CrossExact ==
  ASSUME NEW a, NEW b, Sound(a), Sound(b), a.exp + b.exp <= MaxPower, ProductFits(a, b)
  PROVE  LET t == a.int * b.base * Power(a.exp) + b.int * a.base * Power(b.exp)
                    + a.base * b.base
             d == Divisor(ProductExp(a, b))
         IN /\ t \in Int
            /\ Product(a, b).int = a.int * b.int + Quot(t, d)
            /\ Product(a, b).base = Rem(t, d)
<1> DEFINE d == Divisor(ProductExp(a, b))
           c1 == a.int * b.base * Power(a.exp)
           c2 == b.int * a.base * Power(b.exp)
           c3 == a.base * b.base
<1>1. a.int \in Int /\ a.base \in Int /\ b.int \in Int /\ b.base \in Int
      /\ Power(a.exp) \in Int /\ Power(b.exp) \in Int
  BY ScaleType, FactorType
<1>2. c1 \in Int /\ c2 \in Int /\ c3 \in Int
  BY <1>1
<1>3. Cross(a, b)[1] = c1
  BY DEF ProductFits, TimesFits, Fits, Cross, Times
<1>4. Cross(a, b)[2] = c2
  BY DEF ProductFits, TimesFits, Fits, Cross, Times
<1>5. Cross(a, b)[3] = c3
  BY DEF ProductFits, Fits, Cross, Times
<1> HIDE DEF c1, c2, c3
<1>6. Wrap(c1 + c2 + c3) = c1 + c2 + c3
  BY <1>3, <1>4, <1>5 DEF ProductFits, Fits
<1>7. Wrap(a.int * b.int + Quot(c1 + c2 + c3, d)) = a.int * b.int + Quot(c1 + c2 + c3, d)
  BY <1>3, <1>4, <1>5 DEF ProductFits, Fits
<1>8. Product(a, b).int = a.int * b.int + Quot(c1 + c2 + c3, d)
      /\ Product(a, b).base = Rem(c1 + c2 + c3, d)
  BY <1>3, <1>4, <1>5, <1>6, <1>7, ProductParts
<1> QED
  BY <1>2, <1>8 DEF c1, c2, c3

(* A product has the product of the values, if no term is lost.              *)
LEMMA ProductExact ==
  ASSUME NEW a, NEW b, Sound(a), Sound(b), a.exp + b.exp <= MaxPower, ProductFits(a, b),
         ~TermLost(a, b)
  PROVE  At(Product(a, b), Scale(a) + Scale(b)) = Value(a) * Value(b)
<1> DEFINE n == Product(a, b)
           s == Scale(a) + Scale(b)
           t == a.int * b.base * Power(a.exp) + b.int * a.base * Power(b.exp)
                  + a.base * b.base
           d == Divisor(ProductExp(a, b))
           P == Power(Scale(a))
           Q == Power(Scale(b))
<1>1. /\ a.int \in Int /\ a.base \in Int /\ b.int \in Int /\ b.base \in Int
      /\ P \in Nat \ {0} /\ Q \in Nat \ {0} /\ Power(a.exp) \in Int /\ Power(b.exp) \in Int
      /\ Scale(a) \in Nat /\ Scale(b) \in Nat
  BY ScaleType, FactorType
<1>2. Sound(n) /\ n.exp = ProductExp(a, b) /\ t \in Int
      /\ n.int = a.int * b.int + Quot(t, d) /\ n.base = Rem(t, d)
  BY ProductParts, CrossExact
<1>3. n.exp \in -1..MaxPower /\ s \in Scale(n)..MaxPower
      /\ (a.exp # -1 /\ b.exp # -1 => Scale(n) = s)
  BY <1>2, ProductExpType DEF Scale
<1>4. d \in Nat \ {0} /\ d = Power(Scale(n))
  BY <1>2, <1>3, DivisorType DEF Scale
<1>5. Quot(t, d) \in Int /\ Rem(t, d) \in Int /\ t = d * Quot(t, d) + Rem(t, d)
  BY <1>2, <1>4, Division
<1>6. Power(s) = P * Q
  BY <1>1, <1>3, PowerSplit
<1>7. Value(a) = a.int * P + a.base /\ Value(b) = b.int * Q + b.base
  BY DEF Value
<1>8. CASE a.exp # -1 /\ b.exp # -1
  <2>1. d = P * Q /\ At(n, s) = Value(n)
    BY <1>2, <1>3, <1>4, <1>6, <1>8, AtScale
  <2>2. Power(a.exp) = P /\ Power(b.exp) = Q
    BY <1>8, FactorType
  <2>3. Value(n) = (a.int * b.int + Quot(t, d)) * d + Rem(t, d)
    BY <1>2, <1>4 DEF Value
  <2> HIDE DEF n, s, d, P, Q, t
  <2>4. \A m, q, r \in Int, k \in Nat : (m + q) * k + r = m * k + (k * q + r)
    OBVIOUS
  <2>5. Value(n) = a.int * b.int * d + t
    BY <1>1, <1>4, <1>5, <2>3, <2>4
  <2>6. t = a.int * b.base * P + b.int * a.base * Q + a.base * b.base
    BY <2>2 DEF t
  <2>7. \A i, c, j, f \in Int, p, q \in Nat :
          i * j * (p * q) + (i * f * p + j * c * q + c * f) = (i * p + c) * (j * q + f)
    OBVIOUS
  <2>8. Value(n) = Value(a) * Value(b)
    BY <1>1, <1>7, <2>1, <2>5, <2>6, <2>7
  <2> QED
    BY <2>1, <2>8 DEF n, s
<1>9. CASE ~(a.exp # -1 /\ b.exp # -1)
  <2>1. a.base = 0 /\ b.base = 0
    BY <1>9 DEF Sound, TermLost
  <2>2. t = 0
    <3>1. \A i, p \in Int : i * 0 * p = 0
      OBVIOUS
    <3> QED
      BY <1>1, <2>1, <3>1
  <2>3. Quot(t, d) = 0 /\ Rem(t, d) = 0
    <3>1. d * 0 = 0
      BY <1>4
    <3> QED
      BY <1>4, <2>2, <3>1, ExactDivision
  <2>4. n.int = a.int * b.int /\ n.base = 0
    BY <1>1, <1>2, <2>3
  <2>5. At(n, s) = n.int * Power(s) + n.base * Power(s - Scale(n))
        /\ Power(s - Scale(n)) \in Nat
    BY <1>2, <1>3, AtParts
  <2> HIDE DEF n, s, d, P, Q, t
  <2>6. \A k \in Nat : 0 * k = 0
    OBVIOUS
  <2>7. At(n, s) = a.int * b.int * (P * Q) + 0
    BY <1>6, <2>4, <2>5, <2>6
  <2>8. \A i, j \in Int, p, q \in Nat : i * j * (p * q) + 0 = (i * p + 0) * (j * q + 0)
    OBVIOUS
  <2>9. At(n, s) = Value(a) * Value(b)
    BY <1>1, <1>7, <2>1, <2>7, <2>8
  <2> QED
    BY <2>9 DEF n, s
<1> QED
  BY <1>8, <1>9

(* Quotients.                                                                *)
LEMMA HalfType ==
  ASSUME NEW t \in Int
  PROVE  t \div 2 \in Int /\ 2 * (t \div 2) <= t /\ t <= 2 * (t \div 2) + 1
OBVIOUS

(* Dividend and divisor are integers.                                        *)
LEMMA DivisionType ==
  ASSUME NEW a, NEW b, Sound(a), Sound(b), a.exp + b.exp <= MaxPower
  PROVE  Mine(a, b) \in Int /\ Theirs(b) \in Int /\ Rounded(a, b) \in Int
<1>1. a.exp \in -1..MaxPower /\ b.exp \in -1..MaxPower /\ MaxPower \in Nat
      /\ a.int \in Int /\ a.base \in Int /\ b.int \in Int /\ b.base \in Int
  BY ScaleType, TableSize
<1>2. \A i, j \in -1..MaxPower : i + j <= MaxPower =>
        MaxOf(i, 0) + MaxOf(j, 0) \in 0..MaxPower /\ MaxOf(j, 0) \in 0..MaxPower
  BY <1>1 DEF MaxOf
<1>3. Power(MaxOf(a.exp, 0) + MaxOf(b.exp, 0)) \in Int /\ Power(MaxOf(b.exp, 0)) \in Int
  <2>1. MaxOf(a.exp, 0) + MaxOf(b.exp, 0) \in 0..MaxPower /\ MaxOf(b.exp, 0) \in 0..MaxPower
    BY <1>1, <1>2
  <2> QED
    BY <2>1, PowerType
<1>4. Mine(a, b) \in Int
  BY <1>1, <1>3 DEF Mine
<1>5. Theirs(b) \in Int
  BY <1>1, <1>3, WrapType DEF Theirs
<1> QED
  BY <1>4, <1>5, HalfType DEF Rounded

(* A quotient is such a number, and its value what / computed.               *)
LEMMA QuotientParts ==
  ASSUME NEW a, NEW b, Sound(a), Sound(b), a.exp + b.exp <= MaxPower, Theirs(b) # 0
  PROVE  LET n == Quotient(a, b)
             k == Quot(Wrap(Rounded(a, b)), Theirs(b))
             unit == Power(Scale(a))
         IN /\ Sound(n) /\ n.exp = a.exp /\ k \in Int /\ Value(n) = k
            /\ n.int = Quot(k, unit) /\ n.base = Rem(k, unit)
<1> DEFINE n == Quotient(a, b)
           k == Quot(Wrap(Rounded(a, b)), Theirs(b))
           unit == Power(Scale(a))
<1>1. k \in Int
  BY DivisionType, WrapType, Division
<1>2. unit \in Nat \ {0} /\ a.exp \in -1..MaxPower /\ (a.exp = -1 => unit = 1)
  BY ScaleType, PowerType
<1>3. n = Number(Quot(k, unit), Rem(k, unit), a.exp)
  BY DEF Quotient, Scale
<1> HIDE DEF k, unit, n
<1>4. unit \in Int /\ unit # 0
  BY <1>2
<1>5. Quot(k, unit) \in Int /\ Rem(k, unit) \in Int /\ Abs(Rem(k, unit)) < Abs(unit)
      /\ k = unit * Quot(k, unit) + Rem(k, unit)
  BY <1>1, <1>4, Division, Zenon
<1>6. a.exp = -1 => Rem(k, unit) = 0
  BY <1>2, <1>5 DEF Abs
<1>7. Sound(n) /\ n.exp = a.exp /\ n.int = Quot(k, unit) /\ n.base = Rem(k, unit)
  BY <1>2, <1>3, <1>5, <1>6, NumberParts
<1>8. Value(n) = Quot(k, unit) * unit + Rem(k, unit)
  BY <1>7 DEF Value, Scale, unit
<1>9. Value(n) = k
  BY <1>4, <1>5, <1>8
<1> QED
  BY <1>1, <1>7, <1>9 DEF k, unit, n

(* That is off by half a unit, or by less than one and a half.               *)
LEMMA QuotientExact ==
  ASSUME NEW a, NEW b, Sound(a), Sound(b), a.exp + b.exp <= MaxPower, Theirs(b) # 0,
         Fits(Rounded(a, b))
  PROVE  LET off == Abs(Value(Quotient(a, b)) * Theirs(b) - Mine(a, b))
         IN IF Mine(a, b) >= 0 /\ Theirs(b) > 0 THEN 2 * off <= Theirs(b)
            ELSE 2 * off < 3 * Abs(Theirs(b))
<1> DEFINE t == Theirs(b)
           m == Mine(a, b)
           h == t \div 2
           k == Quot(m + h, t)
           r == Rem(m + h, t)
           off == Abs(k * t - m)
<1>1. t \in Int /\ t # 0 /\ m \in Int
  BY DivisionType
<1>2. h \in Int /\ 2 * h <= t /\ t <= 2 * h + 1
  BY <1>1, HalfType
<1>3. Value(Quotient(a, b)) = k
  BY QuotientParts DEF Fits, Rounded
<1> HIDE DEF t, m, h
<1>4. m + h \in Int
  BY <1>1, <1>2
<1>5. k \in Int /\ r \in Int /\ m + h = t * k + r /\ Abs(r) < Abs(t)
      /\ (m + h >= 0 => r >= 0)
  BY <1>1, <1>4, Division
<1> HIDE DEF k, r
<1>6. k * t - m = h - r
  BY <1>1, <1>2, <1>5
<1>7. CASE m >= 0 /\ t > 0
  <2>1. r >= 0 /\ r <= t - 1
    BY <1>1, <1>2, <1>5, <1>7 DEF Abs
  <2>2. 2 * off <= t
    BY <1>1, <1>2, <1>5, <1>6, <2>1 DEF Abs
  <2> QED
    BY <1>3, <1>7, <2>2 DEF t, m
<1>8. CASE ~(m >= 0 /\ t > 0)
  <2>1. 2 * off < 3 * Abs(t)
    BY <1>1, <1>2, <1>5, <1>6 DEF Abs
  <2> QED
    BY <1>3, <1>8, <2>1 DEF t, m
<1> QED
  BY <1>7, <1>8

(* setAccuracy.                                                              *)
LEMMA AccuracyParts ==
  ASSUME NEW a, Sound(a), NEW k \in -1..MaxPower
  PROVE  LET n == WithAccuracy(a, k)
         IN /\ Sound(n)
            /\ a.exp < 0 \/ k < 0 => n = Number(a.int, 0, k)
            /\ a.exp >= 0 /\ k >= 0 => n.int = a.int /\ n.exp = a.exp
            /\ a.exp >= 0 /\ k >= 0 /\ (k = a.exp \/ a.base = 0) => n.base = a.base
<1> DEFINE n == WithAccuracy(a, k)
<1>1. a.int \in Int /\ a.base \in Int /\ a.exp \in -1..MaxPower /\ MaxPower \in Nat
  BY ScaleType, TableSize
<1>2. CASE a.exp < 0 \/ k < 0
  <2>1. n = Number(a.int, 0, k)
    BY <1>1, <1>2 DEF WithAccuracy
  <2> QED
    BY <1>1, <1>2, <2>1, NumberParts
<1>3. CASE a.exp >= 0 /\ k \in 0..a.exp - 1
  <2> DEFINE p == Power(a.exp - k)
  <2>1. n = Number(a.int, Quot(a.base, p), a.exp)
    BY <1>1, <1>3 DEF WithAccuracy
  <2>2. p \in Nat \ {0}
    BY <1>1, <1>3, PowerType
  <2> HIDE DEF p, n
  <2>3. p \in Int /\ p # 0 /\ p * 0 = 0
    BY <2>2
  <2>4. Quot(a.base, p) \in Int /\ (a.base = 0 => Quot(a.base, p) = 0)
    <3>1. Quot(a.base, p) \in Int
      BY <1>1, <2>3, Division, Zenon
    <3>2. Quot(p * 0, p) = 0
      BY <2>2, ExactDivision
    <3> QED
      BY <2>3, <3>1, <3>2
  <2>5. Sound(n) /\ n.int = a.int /\ n.base = Quot(a.base, p) /\ n.exp = a.exp
    <3>1. a.exp # -1
      BY <1>3
    <3> QED
      BY <1>1, <2>1, <2>4, <3>1, NumberParts
  <2> QED
    BY <1>1, <1>3, <2>4, <2>5 DEF n
<1>4. CASE a.exp >= 0 /\ k > a.exp
  <2> DEFINE p == Power(k - a.exp)
  <2>1. n = Number(a.int, Wrap(a.base * p), a.exp)
    BY <1>1, <1>4 DEF WithAccuracy
  <2>2. p \in Nat /\ a.base * p \in Int
    BY <1>1, <1>4, PowerType
  <2>3. Wrap(a.base * p) \in Int /\ (a.base = 0 => Wrap(a.base * p) = 0)
    <3>1. Wrap(0) = 0
      BY WrapFits, TableSize DEF Fits
    <3>2. 0 * p = 0
      BY <2>2
    <3> QED
      BY <2>2, <3>1, <3>2, WrapType
  <2> HIDE DEF p, n
  <2>4. Sound(n) /\ n.int = a.int /\ n.base = Wrap(a.base * p) /\ n.exp = a.exp
    BY <1>1, <1>4, <2>1, <2>3, NumberParts
  <2> QED
    BY <1>1, <1>4, <2>3, <2>4 DEF n
<1>5. CASE a.exp >= 0 /\ k = a.exp
  <2>1. n = a
    BY <1>1, <1>5 DEF WithAccuracy
  <2> QED
    BY <1>5, <2>1
<1> QED
  BY <1>1, <1>2, <1>3, <1>4, <1>5

(* setAccuracy keeps the value, but where it forgets m_exp.                  *)
LEMMA AccuracyExact ==
  ASSUME NEW a, Sound(a), NEW k \in -1..MaxPower, ~Rescaled(a, k)
  PROVE  LET n == WithAccuracy(a, k)
             s == MaxOf(Scale(n), Scale(a))
         IN At(n, s) = At(IF k < 0 THEN Number(a.int, 0, -1) ELSE a, s)
<1> DEFINE n == WithAccuracy(a, k)
           s == MaxOf(Scale(n), Scale(a))
<1>1. /\ Sound(n)
      /\ a.exp < 0 \/ k < 0 => n = Number(a.int, 0, k)
      /\ a.exp >= 0 /\ k >= 0 => n.int = a.int /\ n.exp = a.exp
      /\ a.exp >= 0 /\ k >= 0 /\ (k = a.exp \/ a.base = 0) => n.base = a.base
  BY AccuracyParts
<1>2. a.int \in Int /\ a.base \in Int /\ a.exp \in -1..MaxPower
      /\ Scale(a) \in 0..MaxPower /\ Scale(n) \in 0..MaxPower
  BY <1>1, ScaleType
<1> HIDE DEF n
<1>3. CASE k < 0
  <2>1. k = -1
    BY <1>3
  <2> QED
    BY <1>1, <2>1 DEF n
<1>4. CASE k >= 0 /\ a.exp >= 0
  <2>1. n.base = a.base
    BY <1>1, <1>2, <1>4 DEF Rescaled
  <2>2. n = a
    BY <1>1, <1>4, <2>1 DEF Sound, Numbers
  <2> QED
    BY <1>4, <2>2 DEF n
<1>5. CASE k >= 0 /\ a.exp < 0
  <2>1. n = Number(a.int, 0, k) /\ a.base = 0
    BY <1>1, <1>2, <1>5 DEF Sound
  <2>2. n.int = a.int /\ n.base = 0
    BY <2>1 DEF Number
  <2>3. s \in Scale(a)..MaxPower /\ s \in Scale(n)..MaxPower
    BY <1>2 DEF MaxOf
  <2> HIDE DEF s
  <2>4. /\ At(a, s) = a.int * Power(s) + a.base * Power(s - Scale(a))
        /\ At(n, s) = n.int * Power(s) + n.base * Power(s - Scale(n))
        /\ Power(s - Scale(a)) \in Nat /\ Power(s - Scale(n)) \in Nat
    BY <1>1, <2>3, AtParts
  <2>5. \A p \in Nat : 0 * p = 0
    OBVIOUS
  <2>6. At(n, s) = At(a, s)
    BY <2>1, <2>2, <2>4, <2>5
  <2> QED
    BY <1>5, <2>6 DEF s, n
<1> QED
  BY <1>2, <1>3, <1>4, <1>5

(* Reading a string.                                                         *)
LEMMA LiteralParts ==
  ASSUME NEW s \in Literals
  PROVE  /\ s.neg \in BOOLEAN /\ s.whole \in 0..LongMax /\ s.frac \in Nat
         /\ s.places \in -1..MaxPower /\ MaxOf(s.places, 0) \in 0..MaxPower
         /\ s.frac < Power(MaxOf(s.places, 0)) /\ (s.places <= 0 => s.frac = 0)
<1>1. s.neg \in BOOLEAN /\ s.whole \in 0..LongMax /\ s.frac \in Nat
      /\ s.places \in -1..MaxPower
      /\ s.frac < TenPowers[IF s.places < 0 THEN 0 ELSE s.places]
  BY LiteralsAssumption DEF LiteralsAssumption
<1>2. MaxPower \in Nat /\ TenPowers[0] = 1
  BY TableAssumption DEF TableAssumption
<1>3. MaxOf(s.places, 0) = (IF s.places < 0 THEN 0 ELSE s.places)
      /\ MaxOf(s.places, 0) \in 0..MaxPower
  BY <1>1, <1>2 DEF MaxOf
<1>4. s.frac < Power(MaxOf(s.places, 0))
  BY <1>1, <1>3 DEF Power
<1>5. s.places <= 0 => s.frac = 0
  BY <1>1, <1>2
<1> QED
  BY <1>1, <1>3, <1>4, <1>5

(* What a literal says.                                                      *)
LEMMA ReadParts ==
  ASSUME NEW s \in Literals
  PROVE  LET u == s.whole * Power(MaxOf(s.places, 0)) + s.frac
         IN u \in Nat /\ Read(s) \in Int /\ Read(s) = IF s.neg THEN -u ELSE u
<1>1. s.whole \in Nat /\ s.frac \in Nat /\ Power(MaxOf(s.places, 0)) \in Nat
  <2>1. MaxOf(s.places, 0) \in 0..MaxPower /\ s.whole \in 0..LongMax /\ s.frac \in Nat
    BY LiteralParts
  <2> QED
    BY <2>1, PowerType, TableSize
<1> DEFINE u == s.whole * Power(MaxOf(s.places, 0)) + s.frac
<1>2. u \in Nat
  BY <1>1
<1>3. Read(s) = IF s.neg THEN -u ELSE u
  BY DEF Read
<1> HIDE DEF u
<1>4. Read(s) \in Int
  BY <1>2, <1>3
<1> QED
  BY <1>2, <1>3, <1>4 DEF u

(* A number read from a string: normal, and what the string says.            *)
LEMMA StringParts ==
  ASSUME NEW s \in Literals, NEW old \in Int
  PROVE  LET n == FromString(s, old)
         IN /\ Sound(n) /\ n.exp = s.places
            /\ n.int = IF s.neg THEN -s.whole ELSE s.whole
            /\ s.places # 0 \/ old = 0 =>
                 /\ Normal(n)
                 /\ SignLost(s) \/ Value(n) = Read(s)
<1> DEFINE n == FromString(s, old)
           int == IF s.neg THEN -s.whole ELSE s.whole
           digits == IF s.places = 0 THEN old ELSE s.frac
           base == IF s.places < 0 THEN 0 ELSE IF int < 0 THEN -digits ELSE digits
           P == Power(MaxOf(s.places, 0))
<1>1. s.whole \in Nat /\ s.frac \in Nat /\ s.places \in -1..MaxPower /\ P \in Nat \ {0}
      /\ s.frac < P /\ (s.places <= 0 => s.frac = 0)
  BY LiteralParts, PowerType, TableSize
<1>2. int \in Int /\ digits \in Int /\ base \in Int /\ (s.places = -1 => base = 0)
  BY <1>1
<1>3. n = Number(int, base, s.places)
  BY DEF FromString
<1>4. Sound(n) /\ n.int = int /\ n.base = base /\ n.exp = s.places
  <2> HIDE DEF n, int, base
  <2> QED
    BY <1>1, <1>2, <1>3, NumberParts
<1>5. ASSUME s.places # 0 \/ old = 0 PROVE base = IF int < 0 THEN -s.frac ELSE s.frac
  BY <1>1, <1>2, <1>5
<1>6. ASSUME s.places # 0 \/ old = 0 PROVE Normal(n)
  <2>1. Abs(base) < P /\ (int > 0 => base >= 0) /\ (int < 0 => base <= 0)
    BY <1>1, <1>2, <1>5, <1>6 DEF Abs
  <2> QED
    BY <1>4, <2>1 DEF Normal, Scale
<1>7. ASSUME s.places # 0 \/ old = 0, ~SignLost(s) PROVE Value(n) = Read(s)
  <2>1. Value(n) = int * P + base
    BY <1>4 DEF Value, Scale
  <2>2. Read(s) = IF s.neg THEN -(s.whole * P + s.frac) ELSE s.whole * P + s.frac
    BY ReadParts
  <2>3. CASE s.neg
    <3>1. int = -s.whole /\ base = -s.frac
      BY <1>1, <1>5, <1>7, <2>3 DEF SignLost
    <3>2. \A i, f, p \in Nat : (-i) * p + (-f) = -(i * p + f)
      OBVIOUS
    <3> HIDE DEF n, int, base, P
    <3> QED
      BY <1>1, <2>1, <2>2, <2>3, <3>1, <3>2
  <2>4. CASE ~s.neg
    <3>1. int = s.whole /\ base = s.frac
      BY <1>1, <1>5, <1>7, <2>4
    <3> QED
      BY <2>1, <2>2, <2>4, <3>1
  <2> QED
    BY <2>3, <2>4
<1> QED
  BY <1>4, <1>6, <1>7

(* Zeros at the end are dropped, and nothing else.                           *)
LEMMA StripParts ==
  ASSUME NEW g \in Int, NEW e \in 0..MaxPower
  PROVE  LET k == Strip(g, e)
         IN k[2] \in 0..e /\ k[1] \in Int /\ g = Power(e - k[2]) * k[1]
<1> DEFINE Even(j) == Rem(g, Power(e - j)) = 0
           S == {j \in 0..e : Even(j)}
           Last(j) == Even(j) /\ (j = 0 \/ Rem(g, Power(e - j + 1)) # 0)
           kept == CHOOSE j \in 0..e : Last(j)
<1>1. e \in Nat /\ S \subseteq Nat
  BY TableSize
<1>2. e \in S
  <2>1. Power(e - e) = 1
    BY <1>1, PowerType
  <2>2. Rem(1 * g, 1) = 0
    BY ExactDivision
  <2>3. 1 * g = g
    OBVIOUS
  <2> QED
    BY <1>1, <2>1, <2>2, <2>3
<1>3. PICK m \in S : \A k \in S : m <= k
  <2>1. S # {}
    BY <1>2, Zenon
  <2> QED
    BY <1>1, <2>1, LeastNatural, Zenon
<1>4. Last(m) /\ m \in 0..e
  <2>1. m \in 0..e /\ Even(m)
    OBVIOUS
  <2>2. ASSUME m # 0 PROVE Rem(g, Power(e - m + 1)) # 0
    <3>1. m - 1 \in 0..e /\ e - (m - 1) = e - m + 1 /\ ~(m <= m - 1)
      BY <1>1, <2>1, <2>2
    <3>2. ~Even(m - 1)
      BY <1>3, <3>1
    <3> QED
      BY <3>1, <3>2
  <2> QED
    BY <2>1, <2>2
<1>5. kept \in 0..e /\ Last(kept)
  <2> HIDE DEF Last
  <2> QED
    BY <1>4, Zenon
<1>6. Strip(g, e) = <<Quot(g, Power(e - kept)), kept>>
  BY Zenon DEF Strip
<1> HIDE DEF kept
<1> DEFINE p == Power(e - kept)
<1>7. p \in Nat \ {0}
  BY <1>1, <1>5, PowerType, TableSize
<1>8. Rem(g, p) = 0
  BY <1>5
<1> HIDE DEF p
<1>9. p \in Int /\ p # 0
  BY <1>7
<1>10. Quot(g, p) \in Int /\ g = p * Quot(g, p) + Rem(g, p)
  BY <1>9, Division, Zenon
<1>11. p * Quot(g, p) \in Int
  BY <1>9, <1>10
<1>12. g = p * Quot(g, p)
  BY <1>8, <1>10, <1>11
<1>13. Strip(g, e)[1] = Quot(g, p) /\ Strip(g, e)[2] = kept
  BY <1>6 DEF p
<1> QED
  BY <1>5, <1>10, <1>12, <1>13 DEF p

(* The double of a literal is one.                                           *)
LEMMA LiteralDouble ==
  ASSUME NEW s \in Literals
  PROVE  /\ DoubleRead(s) \in Int /\ InReach(DoubleRead(s))
         /\ Round(DoubleRead(s)) = DoubleRead(s)
<1> DEFINE P == Power(MaxOf(s.places, 0))
           q == One \div P
           parts == s.whole * One + s.frac * q
<1>1. /\ s.whole \in Nat /\ s.whole <= LongMax /\ s.frac \in Nat /\ s.frac < P
      /\ P \in Nat \ {0} /\ One \in Nat \ {0} /\ LongMax \in Nat
  BY LiteralParts, PowerType, TableSize, DoubleFacts
<1>2. One % P = 0
  BY DoublesAssumption DEF DoublesAssumption
<1> HIDE DEF P
<1>3. One = P * q /\ q \in Nat
  BY <1>1, <1>2
<1> HIDE DEF q
<1>4. s.frac * q <= One
  <2>1. q * s.frac <= q * P
    BY <1>1, <1>3, Products
  <2> QED
    BY <1>1, <1>3, <2>1
<1>5. s.whole * One <= LongMax * One
  <2>1. One * s.whole <= One * LongMax
    BY <1>1, Products
  <2> QED
    BY <1>1, <2>1
<1>6. parts \in Nat /\ parts <= (LongMax + 1) * One
  <2>1. (LongMax + 1) * One = LongMax * One + One /\ LongMax * One \in Int
    BY <1>1
  <2>2. s.whole * One \in Nat /\ s.frac * q \in Nat
    BY <1>1, <1>3
  <2> QED
    BY <1>1, <1>4, <1>5, <2>1, <2>2
<1>7. Parts(s) = IF s.neg THEN -parts ELSE parts
  BY DEF Parts, parts, q, P
<1> HIDE DEF parts
<1>8. Parts(s) \in Int /\ Abs(Parts(s)) <= (LongMax + 1) * One
  BY <1>6, <1>7 DEF Abs
<1>9. InReach(Parts(s))
  BY <1>8, Reach
<1>10. InReach(Round(Parts(s)))
  BY ReachAssumption DEF ReachAssumption, DoubleRead
<1> QED
  BY <1>8, <1>9, <1>10, RoundTwice DEF DoubleRead

(* Reading a double.                                                         *)
LEMMA DoubleParts ==
  ASSUME NEW val \in Int, InReach(val), Round(val) = val
  PROVE  LET n == FromDouble(val)
         IN /\ Sound(n) /\ Scale(n) <= DefaultAccuracy /\ Normal(n)
            /\ Abs(val * Power(DefaultAccuracy) - At(n, DefaultAccuracy) * One) < One
<1> DEFINE D == DefaultAccuracy
           P == Power(D)
           int == Quot(val, One)
           rest == val - int * One
           G == Quot(Round(Round(rest) * P), One)
           strip == Strip(G, D)
           n == FromDouble(val)
<1>1. /\ D \in 0..MaxPower /\ D \in Nat /\ MaxPower \in Nat
      /\ P \in Nat \ {0} /\ One \in Nat \ {0}
  BY PowerType, TableSize, DoubleFacts, NumberBoundsAssumption
     DEF NumberBoundsAssumption
<1>2. n = Number(int, strip[1], strip[2])
  BY DEF FromDouble
<1> HIDE DEF n
<1>3. /\ int \in Int /\ rest \in Int /\ Abs(rest) < One
      /\ (val >= 0 => rest >= 0 /\ int >= 0) /\ (val <= 0 => rest <= 0 /\ int <= 0)
      /\ val = int * One + rest
  <2>1. /\ int \in Int /\ Rem(val, One) \in Int /\ val = One * int + Rem(val, One)
        /\ Abs(Rem(val, One)) < Abs(One)
        /\ (val >= 0 => Rem(val, One) >= 0 /\ int >= 0)
        /\ (val <= 0 => Rem(val, One) <= 0 /\ int <= 0)
    BY <1>1, Division
  <2>2. Abs(One) = One
    BY <1>1 DEF Abs
  <2> HIDE DEF int
  <2>3. One * int = int * One /\ int * One \in Int
    BY <1>1, <2>1
  <2>4. rest = Rem(val, One)
    BY <2>1, <2>3
  <2> QED
    BY <2>1, <2>2, <2>3, <2>4
<1>4. Round(rest) = rest
  <2>1. (int > 0 => val >= int * One) /\ (int < 0 => val <= int * One)
    <3> HIDE DEF int
    <3>1. int * One \in Int
      BY <1>1, <1>3
    <3> QED
      BY <1>3, <3>1
  <2> HIDE DEF int
  <2> QED
    BY <1>3, <2>1, PartBelow
<1> HIDE DEF rest
<1>5. /\ G \in Int /\ Abs(G) < P /\ Abs(rest * P - G * One) < One
      /\ (rest >= 0 => G >= 0) /\ (rest <= 0 => G <= 0)
  BY <1>3, <1>4, DigitsOfDouble
<1> HIDE DEF G
<1>6. strip[2] \in 0..D /\ strip[1] \in Int /\ G = Power(D - strip[2]) * strip[1]
  BY <1>1, <1>5, StripParts
<1> HIDE DEF strip, int, D
<1>7. strip[2] \in -1..MaxPower /\ strip[2] # -1
  BY <1>1, <1>6
<1>8. Sound(n) /\ n.int = int /\ n.base = strip[1] /\ n.exp = strip[2]
  BY <1>2, <1>3, <1>6, <1>7, NumberParts
<1>9. Scale(n) = strip[2] /\ D \in Scale(n)..MaxPower /\ Scale(n) <= D
  BY <1>1, <1>6, <1>7, <1>8, ScaleType
<1> DEFINE R == Power(D - Scale(n))
           S == Power(Scale(n))
<1>10. /\ R \in Nat \ {0} /\ S \in Nat \ {0} /\ P = S * R
       /\ At(n, D) = n.int * P + n.base * R
  BY <1>8, <1>9, AtParts, ScaleType
<1> HIDE DEF R, S, P
<1>11. n.base * R = G /\ n.base \in Int
  BY <1>6, <1>8, <1>9, <1>10 DEF R
<1>12. Normal(n)
  <2>1. \A b \in Int, r, p \in Nat \ {0} :
          Abs(b * r) < p * r => Abs(b) < p
    <3> TAKE b \in Int, r \in Nat \ {0}, p \in Nat \ {0}
    <3>1. ASSUME b >= p PROVE b * r >= p * r
      BY <3>1
    <3>2. ASSUME -b >= p PROVE -(b * r) >= p * r
      BY <3>2
    <3>3. b * r \in Int /\ p * r \in Int
      OBVIOUS
    <3> QED
      BY <3>1, <3>2, <3>3 DEF Abs
  <2>2. \A b \in Int, r \in Nat \ {0} : (b * r >= 0 => b >= 0) /\ (b * r <= 0 => b <= 0)
    OBVIOUS
  <2>3. Abs(n.base) < S
    BY <1>5, <1>10, <1>11, <2>1
  <2>4. (rest >= 0 => n.base >= 0) /\ (rest <= 0 => n.base <= 0)
    BY <1>5, <1>10, <1>11, <2>2
  <2>5. (n.int > 0 => rest >= 0) /\ (n.int < 0 => rest <= 0)
    BY <1>3, <1>8
  <2> QED
    BY <2>3, <2>4, <2>5, <1>3 DEF Normal, S
<1>13. val * P - At(n, D) * One = rest * P - G * One
  <2>1. At(n, D) = int * P + G
    BY <1>8, <1>10, <1>11
  <2>2. \A i, r, p, g, o \in Int : (i * o + r) * p - (i * p + g) * o = r * p - g * o
    OBVIOUS
  <2>3. P \in Int /\ One \in Int
    BY <1>1
  <2> QED
    BY <1>3, <1>5, <2>1, <2>2, <2>3
<1>14. Abs(val * P - At(n, D) * One) < One
  BY <1>5, <1>13
<1> QED
  BY <1>8, <1>9, <1>12, <1>14 DEF P, D, n

(* Digits that go with an integer part: fewer than make one, of its sign.    *)
Fraction(i, u, p) ==
  u \in Int /\ -p < u /\ u < p /\ (i > 0 => u >= 0) /\ (i < 0 => u <= 0)

(* The normal form, said with it.                                            *)
LEMMA NormalFraction ==
  ASSUME NEW n, Sound(n)
  PROVE  Normal(n) <=> Fraction(n.int, n.base, Power(Scale(n)))
BY ScaleType DEF Normal, Abs, Fraction

(* Lifting to more digits keeps the bound of the digits and their sign.      *)
LEMMA NormalLift ==
  ASSUME NEW n, Sound(n), Normal(n), NEW scale \in Scale(n)..MaxPower
  PROVE  LET u == n.base * Power(scale - Scale(n))
         IN /\ u \in Int /\ Fraction(n.int, u, Power(scale))
            /\ (n.base < 0 <=> u < 0) /\ (n.base > 0 <=> u > 0)
<1> DEFINE p == Power(scale - Scale(n))
           q == Power(Scale(n))
           b == n.base
           u == b * p
<1>1. /\ p \in Nat \ {0} /\ q \in Nat \ {0} /\ Power(scale) = q * p
      /\ b \in Int /\ n.int \in Int
  BY AtParts, ScaleType
<1>2. -q < b /\ b < q /\ (n.int > 0 => b >= 0) /\ (n.int < 0 => b <= 0)
  BY <1>1 DEF Normal, Abs
<1> HIDE DEF p, q, b
<1>3. \A c \in Int, k \in Nat \ {0} :
        /\ c * k \in Int
        /\ (c > 0 <=> c * k > 0) /\ (c < 0 <=> c * k < 0)
  OBVIOUS
<1>4. \A c \in Int, k \in Nat \ {0}, m \in Nat \ {0} :
        -m < c /\ c < m => -(m * k) < c * k /\ c * k < m * k
  <2> TAKE c \in Int, k \in Nat \ {0}, m \in Nat \ {0}
  <2> HAVE -m < c /\ c < m
  <2>1. (m - c) * k > 0 /\ (m + c) * k > 0
    BY <1>3
  <2>2. (m - c) * k = m * k - c * k /\ (m + c) * k = m * k + c * k
    OBVIOUS
  <2>3. m * k \in Int /\ c * k \in Int
    OBVIOUS
  <2> QED
    BY <2>1, <2>2, <2>3
<1>5. u \in Int /\ -Power(scale) < u /\ u < Power(scale)
  BY <1>1, <1>2, <1>4, <1>3
<1>6. (b > 0 <=> u > 0) /\ (b < 0 <=> u < 0)
  BY <1>1, <1>3
<1>7. (n.int > 0 => u >= 0) /\ (n.int < 0 => u <= 0)
  BY <1>1, <1>2, <1>5, <1>6
<1> QED
  BY <1>5, <1>6, <1>7 DEF p, b, Fraction

(* Numbers in normal form are ordered by their integer parts first.          *)
LEMMA OrderParts ==
  ASSUME NEW i \in Int, NEW j \in Int, NEW p \in Nat \ {0},
         NEW u \in Int, NEW v \in Int, Fraction(i, u, p), Fraction(j, v, p)
  PROVE  /\ i * p + u < j * p + v <=> i < j \/ (i = j /\ u < v)
         /\ i * p + u > j * p + v <=> i > j \/ (i = j /\ u > v)
         /\ i * p + u = j * p + v <=> i = j /\ u = v
<1> DEFINE A == i * p
           B == j * p
<1>1. A \in Int /\ B \in Int
  OBVIOUS
<1>0. /\ u \in Int /\ -p < u /\ u < p /\ (i > 0 => u >= 0) /\ (i < 0 => u <= 0)
      /\ v \in Int /\ -p < v /\ v < p /\ (j > 0 => v >= 0) /\ (j < 0 => v <= 0)
  BY DEF Fraction
<1>2. \A k, l \in Int : (k + 2 <= l => k * p + 2 * p <= l * p) /\ (k + 1 = l => k * p + p = l * p)
  <2> TAKE k \in Int, l \in Int
  <2>1. k + 1 = l => k * p + p = l * p
    OBVIOUS
  <2>2. ASSUME k + 2 <= l PROVE k * p + 2 * p <= l * p
    <3>1. (l - (k + 2)) * p >= 0
      BY <2>2
    <3>2. (l - (k + 2)) * p = l * p - (k * p + 2 * p)
      OBVIOUS
    <3>3. l * p \in Int /\ k * p + 2 * p \in Int
      OBVIOUS
    <3> QED
      BY <3>1, <3>2, <3>3
  <2> QED
    BY <2>1, <2>2
<1>3. /\ i + 2 <= j => A + 2 * p <= B
      /\ i + 1 = j => A + p = B
      /\ j + 2 <= i => B + 2 * p <= A
      /\ j + 1 = i => B + p = A
      /\ i = j => A = B
  BY <1>2
<1> HIDE DEF A, B
<1>4. i < j => A + u < B + v
  <2>1. CASE i + 2 <= j
    BY <1>0, <1>1, <1>3, <2>1
  <2>2. CASE i + 1 = j
    BY <1>0, <1>1, <1>3, <2>2
  <2> QED
    BY <2>1, <2>2
<1>5. j < i => B + v < A + u
  <2>1. CASE j + 2 <= i
    BY <1>0, <1>1, <1>3, <2>1
  <2>2. CASE j + 1 = i
    BY <1>0, <1>1, <1>3, <2>2
  <2> QED
    BY <2>1, <2>2
<1>6. i = j => (A + u < B + v <=> u < v) /\ (A + u > B + v <=> u > v) /\ (A + u = B + v <=> u = v)
  BY <1>0, <1>1, <1>3
<1>7. /\ A + u < B + v <=> i < j \/ (i = j /\ u < v)
      /\ A + u > B + v <=> i > j \/ (i = j /\ u > v)
      /\ A + u = B + v <=> i = j /\ u = v
  BY <1>0, <1>1, <1>4, <1>5, <1>6
<1> QED
  BY <1>7 DEF A, B

(* Comparison of two numbers.                                                *)
LEMMA AlignedParts ==
  ASSUME NEW a, NEW b, Sound(a), Sound(b), Alignable(a, b)
  PROVE  LET s == MaxOf(Scale(a), Scale(b))
         IN /\ Aligned(a, b)[1] = a.base * Power(s - Scale(a))
            /\ Aligned(a, b)[2] = b.base * Power(s - Scale(b))
<1> DEFINE e == MaxOf(a.exp, b.exp)
           s == MaxOf(Scale(a), Scale(b))
<1>1. /\ e \in a.exp..MaxPower /\ e - a.exp <= MaxPower
      /\ e \in b.exp..MaxPower /\ e - b.exp <= MaxPower
      /\ MaxOf(e, 0) = s
  BY SumParts
<1>2. a.exp \in Int /\ b.exp \in Int /\ a.base \in Int /\ b.base \in Int
      /\ a.exp \in -1..MaxPower /\ b.exp \in -1..MaxPower
  BY ScaleType
<1>3. Lifted(a, e) = a.base * Power(s - Scale(a)) /\ Lifted(b, e) = b.base * Power(s - Scale(b))
  BY <1>1, LiftedParts
<1>4. Power(0) = 1
  BY PowerType
<1>5. CASE b.exp > a.exp
  <2>1. e = b.exp /\ Power(b.exp - b.exp) = 1 /\ b.base * 1 = b.base
    BY <1>2, <1>4, <1>5 DEF MaxOf
  <2>2. Lifted(a, e) = a.base * Power(b.exp - a.exp) /\ Lifted(b, e) = b.base
    BY <2>1 DEF Lifted
  <2> QED
    BY <1>3, <1>5, <2>2 DEF Aligned
<1>6. CASE ~(b.exp > a.exp)
  <2>1. e = a.exp /\ Power(a.exp - a.exp) = 1 /\ a.base * 1 = a.base
    BY <1>2, <1>4, <1>6 DEF MaxOf
  <2>2. Lifted(b, e) = b.base * Power(a.exp - b.exp) /\ Lifted(a, e) = a.base
    BY <2>1 DEF Lifted
  <2> QED
    BY <1>3, <1>6, <2>2 DEF Aligned
<1> QED
  BY <1>5, <1>6

(* <, > and == of two numbers in normal form.                                *)
LEMMA CompareNumbers ==
  ASSUME NEW a, NEW b, Sound(a), Sound(b), Normal(a), Normal(b), Alignable(a, b)
  PROVE  LET s == MaxOf(Scale(a), Scale(b))
         IN /\ Less(a, b) <=> At(a, s) < At(b, s)
            /\ Greater(a, b) <=> At(a, s) > At(b, s)
            /\ Equal(a, b) <=> At(a, s) = At(b, s)
<1> DEFINE s == MaxOf(Scale(a), Scale(b))
           u == a.base * Power(s - Scale(a))
           v == b.base * Power(s - Scale(b))
           p == Power(s)
<1>1. a.int \in Int /\ b.int \in Int /\ Scale(a) \in 0..MaxPower /\ Scale(b) \in 0..MaxPower
  BY ScaleType
<1>2. s \in Scale(a)..MaxPower /\ s \in Scale(b)..MaxPower
  BY <1>1 DEF MaxOf
<1>3. Aligned(a, b)[1] = u /\ Aligned(a, b)[2] = v
  BY AlignedParts
<1>4. At(a, s) = a.int * p + u /\ At(b, s) = b.int * p + v /\ p \in Nat \ {0}
  BY <1>2, AtParts
<1>5. u \in Int /\ Fraction(a.int, u, p)
  BY <1>2, NormalLift
<1>6. v \in Int /\ Fraction(b.int, v, p)
  BY <1>2, NormalLift
<1> HIDE DEF s, u, v, p
<1> DEFINE i == a.int
           j == b.int
<1>8. p \in Nat \ {0} /\ i \in Int /\ j \in Int /\ Fraction(i, u, p) /\ Fraction(j, v, p)
  BY <1>1, <1>4, <1>5, <1>6
<1> HIDE DEF i, j
<1>9. /\ i * p + u < j * p + v <=> i < j \/ (i = j /\ u < v)
      /\ i * p + u > j * p + v <=> i > j \/ (i = j /\ u > v)
      /\ i * p + u = j * p + v <=> i = j /\ u = v
  BY <1>5, <1>6, <1>8, OrderParts
<1>7. /\ At(a, s) < At(b, s) <=> a.int < b.int \/ (a.int = b.int /\ u < v)
      /\ At(a, s) > At(b, s) <=> a.int > b.int \/ (a.int = b.int /\ u > v)
      /\ At(a, s) = At(b, s) <=> a.int = b.int /\ u = v
  BY <1>4, <1>9 DEF i, j
<1>10. /\ Less(a, b) <=> At(a, s) < At(b, s)
       /\ Greater(a, b) <=> At(a, s) > At(b, s)
       /\ Equal(a, b) <=> At(a, s) = At(b, s)
  BY <1>3, <1>7 DEF Less, Greater, Equal
<1> QED
  BY <1>10 DEF s

(* Comparison with an int.                                                   *)
LEMMA CompareInt ==
  ASSUME NEW a, Sound(a), Normal(a), NEW w \in Int
  PROVE  /\ a.int # w \/ a.base >= 0 => (LessInt(a, w) <=> Value(a) < w * Power(Scale(a)))
         /\ GreaterInt(a, w) <=> Value(a) > w * Power(Scale(a))
         /\ EqualInt(a, w) <=> Value(a) = w * Power(Scale(a))
<1> DEFINE p == Power(Scale(a))
<1>1. a.int \in Int /\ a.base \in Int /\ p \in Nat \ {0}
  BY ScaleType
<1>2. Fraction(a.int, a.base, p)
  BY NormalFraction
<1>3. Value(a) = a.int * p + a.base
  BY DEF Value
<1> HIDE DEF p
<1>4. Fraction(w, 0, p)
  BY <1>1 DEF Fraction
<1>5. /\ a.int * p + a.base < w * p + 0 <=> a.int < w \/ (a.int = w /\ a.base < 0)
      /\ a.int * p + a.base > w * p + 0 <=> a.int > w \/ (a.int = w /\ a.base > 0)
      /\ a.int * p + a.base = w * p + 0 <=> a.int = w /\ a.base = 0
  <2>1. 0 \in Int
    OBVIOUS
  <2> QED
    BY <1>1, <1>2, <1>4, <2>1, OrderParts
<1>6. w * p + 0 = w * p
  BY <1>1
<1>7. /\ a.int # w \/ a.base >= 0 => (LessInt(a, w) <=> Value(a) < w * p)
      /\ GreaterInt(a, w) <=> Value(a) > w * p
      /\ EqualInt(a, w) <=> Value(a) = w * p
  BY <1>1, <1>3, <1>5, <1>6 DEF LessInt, GreaterInt, EqualInt
<1> QED
  BY <1>7 DEF p

(* How many digits a number has.                                             *)
LEMMA DigitsParts ==
  ASSUME NEW n \in Nat, NEW d \in 1..MaxPower, n < Power(d)
  PROVE  Digits(n) \in 1..d
<1> DEFINE S == {k \in 1..MaxPower : n < Power(k)}
           Has(k) == n < Power(k) /\ (k = 1 \/ n >= Power(k - 1))
           digits == CHOOSE k \in 1..MaxPower : Has(k)
<1>1. MaxPower \in Nat \ {0} /\ S \subseteq Nat /\ d \in S
  BY TableSize
<1>2. \A k \in 0..MaxPower : Power(k) \in Nat
  BY PowerType
<1>3. ~(n >= Power(MaxPower))
  <2>1. d = MaxPower \/ Power(d) < Power(MaxPower)
    BY <1>1, PowerGrows
  <2>2. Power(d) \in Nat /\ Power(MaxPower) \in Nat
    BY <1>1, <1>2
  <2> QED
    BY <2>1, <2>2
<1>4. PICK m \in S : \A k \in S : m <= k
  <2>1. S # {}
    BY <1>1, Zenon
  <2> QED
    BY <1>1, <2>1, LeastNatural, Zenon
<1>5. m \in 1..MaxPower /\ Has(m)
  <2>1. m \in 1..MaxPower /\ n < Power(m)
    OBVIOUS
  <2>2. ASSUME m # 1 PROVE n >= Power(m - 1)
    <3>1. m - 1 \in 1..MaxPower /\ ~(m <= m - 1) /\ m - 1 \in 0..MaxPower
      BY <1>1, <2>1, <2>2
    <3>2. ~(n < Power(m - 1))
      BY <1>4, <3>1
    <3>3. Power(m - 1) \in Nat
      BY <1>2, <3>1
    <3> QED
      BY <3>2, <3>3
  <2> QED
    BY <2>1, <2>2
<1>6. digits \in 1..MaxPower /\ Has(digits)
  <2> HIDE DEF Has
  <2> QED
    BY <1>5, Zenon
<1>7. Digits(n) = digits
  BY <1>3, Zenon DEF Digits
<1> HIDE DEF digits
<1>8. ~(digits > d)
  <2> SUFFICES ASSUME digits > d PROVE FALSE
    OBVIOUS
  <2>1. digits - 1 \in 1..MaxPower /\ d <= digits - 1 /\ digits # 1 /\ d \in Nat /\ digits - 1 \in Nat
        /\ digits - 1 \in 0..MaxPower /\ d \in 0..MaxPower
    BY <1>1, <1>6
  <2>2. d = digits - 1 \/ Power(d) < Power(digits - 1)
    BY <2>1, PowerGrows
  <2>3. n >= Power(digits - 1) /\ Power(d) \in Nat /\ Power(digits - 1) \in Nat
    BY <1>2, <1>6, <2>1
  <2> QED
    BY <2>2, <2>3
<1> QED
  BY <1>1, <1>6, <1>7, <1>8

(* toString, read again.                                                     *)
LEMMA PrintParts ==
  ASSUME NEW n, Sound(n), Normal(n), n.int = 0 => n.base >= 0, NEW old
  PROVE  LET y == FromString(ToString(n), old)
             s == MaxOf(Scale(n), Scale(y))
         IN At(y, s) = At(n, s)
<1> DEFINE r == ToString(n)
           y == FromString(r, old)
           s == MaxOf(Scale(n), Scale(y))
           places == IF n.exp < 0 THEN -1 ELSE MaxOf(n.exp, Digits(Abs(n.base)))
<1>1. /\ n.int \in Int /\ n.base \in Int /\ n.exp \in -1..MaxPower /\ MaxPower \in Nat \ {0}
      /\ Scale(n) \in 0..MaxPower /\ Power(Scale(n)) \in Nat \ {0}
      /\ (n.exp = -1 => Scale(n) = 0) /\ (n.exp # -1 => Scale(n) = n.exp)
  BY ScaleType, TableSize
<1>2. /\ Abs(n.base) \in Nat /\ Abs(n.base) < Power(Scale(n))
      /\ (n.int > 0 => n.base >= 0) /\ (n.int < 0 => n.base <= 0)
  BY <1>1 DEF Normal, Abs
<1>3. /\ places \in -1..MaxPower /\ places # 0 /\ (places = -1 => n.base = 0)
      /\ n.base = 0 \/ places = n.exp
  <2>1. CASE n.exp = -1
    BY <1>1, <2>1 DEF Sound
  <2>2. CASE n.exp = 0
    <3>1. Power(0) = 1
      BY PowerType
    <3>2. Abs(n.base) < Power(1)
      <4>1. Power(1) \in Nat \ {0}
        BY <1>1, PowerType
      <4>2. Abs(n.base) = 0
        BY <1>1, <1>2, <2>2, <3>1
      <4> QED
        BY <4>1, <4>2
    <3>3. Digits(Abs(n.base)) \in 1..1
      BY <1>1, <1>2, <3>2, DigitsParts
    <3>4. n.base = 0
      BY <1>1, <1>2, <2>2, <3>1 DEF Abs
    <3> QED
      BY <1>1, <2>2, <3>3, <3>4 DEF MaxOf
  <2>3. CASE n.exp \in 1..MaxPower
    <3>1. Digits(Abs(n.base)) \in 1..n.exp
      BY <1>1, <1>2, <2>3, DigitsParts
    <3> QED
      BY <1>1, <2>3, <3>1 DEF MaxOf
  <2> QED
    BY <1>1, <2>1, <2>2, <2>3
<1>4. y = Number(n.int, n.base, places)
  <2>1. /\ (r.neg <=> n.int < 0) /\ r.whole = Abs(n.int) /\ r.places = places
        /\ r.frac = IF n.exp < 0 THEN 0 ELSE Abs(n.base)
    BY DEF ToString
  <2>2. (IF r.neg THEN -r.whole ELSE r.whole) = n.int
    <3>1. CASE n.int < 0
      BY <1>1, <2>1, <3>1 DEF Abs
    <3>2. CASE ~(n.int < 0)
      BY <1>1, <2>1, <3>2 DEF Abs
    <3> QED
      BY <3>1, <3>2
  <2>3. (IF r.places = 0 THEN old ELSE r.frac) = IF n.exp < 0 THEN 0 ELSE Abs(n.base)
    BY <1>3, <2>1
  <2>4. (IF r.places < 0 THEN 0 ELSE IF n.int < 0 THEN -Abs(n.base) ELSE Abs(n.base)) = n.base
    BY <1>1, <1>2, <1>3, <2>1 DEF Abs
  <2>5. n.exp < 0 => r.places < 0
    BY <2>1
  <2> HIDE DEF r, places
  <2>6. y = Number(n.int, IF r.places < 0 THEN 0
                          ELSE IF n.int < 0 THEN -(IF n.exp < 0 THEN 0 ELSE Abs(n.base))
                               ELSE IF n.exp < 0 THEN 0 ELSE Abs(n.base), r.places)
    BY <2>2, <2>3 DEF FromString
  <2>7. n.exp < 0 => n.exp = -1 /\ n.base = 0
    BY <1>1 DEF Sound
  <2>8. y = Number(n.int, n.base, r.places)
    <3>1. CASE n.exp < 0
      BY <2>5, <2>6, <2>7, <3>1
    <3>2. CASE ~(n.exp < 0)
      BY <2>4, <2>6, <3>2
    <3> QED
      BY <3>1, <3>2
  <2> QED
    BY <2>1, <2>8
<1> HIDE DEF places, y
<1>5. Sound(y) /\ y.int = n.int /\ y.base = n.base /\ y.exp = places
  BY <1>1, <1>3, <1>4, NumberParts
<1>6. Scale(y) \in 0..MaxPower
  BY <1>5, ScaleType
<1>7. s \in Scale(n)..MaxPower /\ s \in Scale(y)..MaxPower
  BY <1>1, <1>6 DEF MaxOf
<1> HIDE DEF s
<1>8. /\ At(n, s) = n.int * Power(s) + n.base * Power(s - Scale(n))
      /\ At(y, s) = n.int * Power(s) + n.base * Power(s - Scale(y))
      /\ Power(s - Scale(n)) \in Nat /\ Power(s - Scale(y)) \in Nat
  BY <1>5, <1>7, AtParts
<1>9. CASE n.base = 0
  <2>1. \A p \in Nat : 0 * p = 0
    OBVIOUS
  <2>2. At(y, s) = At(n, s)
    BY <1>8, <1>9, <2>1
  <2> QED
    BY <2>2 DEF y, s
<1>10. CASE places = n.exp
  <2>1. Scale(y) = Scale(n)
    BY <1>5, <1>10 DEF Scale
  <2>2. At(y, s) = At(n, s)
    BY <1>8, <2>1
  <2> QED
    BY <2>2 DEF y, s
<1> QED
  BY <1>3, <1>9, <1>10

(* The normal form after the operations.                                     *)
LEMMA CarriedNormal ==
  ASSUME NEW i \in Int, NEW j \in Int, NEW u \in Int, NEW v \in Int, NEW e \in -1..MaxPower,
         Fraction(i, u, Power(MaxOf(e, 0))), Fraction(j, v, Power(MaxOf(e, 0))),
         e = -1 => u + v = 0, CarriedFits(i + j, u + v, e)
  PROVE  LET n == Carried(Wrap(i + j), Wrap(u + v), e)
         IN Normal(n) \/ n.int = 0 \/ Abs(n.base) = Power(n.exp)
<1> DEFINE n == Carried(Wrap(i + j), Wrap(u + v), e)
           c == Carry(i + j, u + v, e)
           k == i + j
           w == u + v
           p == Power(MaxOf(e, 0))
<1>1. k \in Int /\ w \in Int
  OBVIOUS
<1>2. n.int = k + c /\ n.base = w - c * Power(e)
  BY <1>1, CarriedExact
<1>3. Sound(n) /\ n.exp = e
  BY <1>1, CarriedType
<1>4. Scale(n) = MaxOf(e, 0)
  BY <1>3 DEF Scale
<1>5. p \in Nat \ {0}
  BY <1>3, <1>4, ScaleType
<1>6. /\ -p < u /\ u < p /\ (i > 0 => u >= 0) /\ (i < 0 => u <= 0)
      /\ -p < v /\ v < p /\ (j > 0 => v >= 0) /\ (j < 0 => v <= 0)
  BY DEF Fraction
<1>7. CASE e = -1
  <2>1. w = 0 /\ Power(e) = 0
    BY <1>7 DEF Power
  <2>2. c \in Int
    BY <1>1, CarryType
  <2> HIDE DEF n, c, k, w, p
  <2>3. n.base = 0 /\ n.int \in Int
    BY <1>1, <1>2, <2>1, <2>2
  <2>4. Normal(n)
    BY <1>4, <1>5, <2>3 DEF Normal, Abs, p
  <2> QED
    BY <2>4 DEF n
<1>8. CASE e # -1
  <2>1. Power(e) = p /\ MaxOf(e, 0) = e
    BY <1>8 DEF MaxOf
  <2>2. /\ (c = -1 => n.base = w + p) /\ (c = 0 => n.base = w) /\ (c = 1 => n.base = w - p)
        /\ c \in {-1, 0, 1}
    <3>1. c \in {-1, 0, 1}
      BY <1>1, CarryType
    <3> HIDE DEF n, c, k, w, p
    <3> QED
      BY <1>1, <1>2, <1>5, <2>1, <3>1
  <2>3. /\ (k < 0 /\ w < -p) \/ (k > 0 /\ w < 0) => c = -1
        /\ ~((k < 0 /\ w < -p) \/ (k > 0 /\ w < 0))
           /\ ((k > 0 /\ w > p) \/ (k < 0 /\ w > 0)) => c = 1
        /\ ~((k < 0 /\ w < -p) \/ (k > 0 /\ w < 0))
           /\ ~((k > 0 /\ w > p) \/ (k < 0 /\ w > 0)) => c = 0
    <3> HIDE DEF p
    <3> QED
      BY <1>1, <1>5, <2>1 DEF Carry
  <2>4. k = i + j /\ w = u + v
    OBVIOUS
  <2> HIDE DEF n, c, k, w, p
  <2>5. Fraction(n.int, n.base, p) \/ n.int = 0 \/ Abs(n.base) = p
    <3>1. CASE k = 0
      <4>1. c = 0
        BY <2>3, <3>1
      <4> QED
        BY <1>2, <3>1, <4>1
    <3>2. CASE k > 0 /\ w < 0
      <4>1. w >= -p
        BY <1>5, <1>6, <2>4, <3>2
      <4>2. n.int = k - 1 /\ n.base = w + p
        BY <1>1, <1>2, <2>2, <2>3, <3>2
      <4> QED
        BY <1>1, <1>5, <3>2, <4>1, <4>2 DEF Fraction
    <3>3. CASE k > 0 /\ w >= 0
      <4>1. CASE w > p
        <5>1. n.int = k + 1 /\ n.base = w - p
          BY <1>1, <1>2, <1>5, <2>2, <2>3, <3>3, <4>1
        <5>2. w < 2 * p
          BY <1>5, <1>6, <2>4
        <5> QED
          BY <1>1, <1>5, <3>3, <4>1, <5>1, <5>2 DEF Fraction
      <4>2. CASE w <= p
        <5>1. n.int = k /\ n.base = w
          BY <1>1, <1>2, <1>5, <2>2, <2>3, <3>3, <4>2
        <5> QED
          BY <1>1, <1>5, <3>3, <4>2, <5>1 DEF Fraction, Abs
      <4> QED
        BY <1>1, <1>5, <4>1, <4>2
    <3>4. CASE k < 0 /\ w > 0
      <4>1. w <= p
        BY <1>5, <1>6, <2>4, <3>4
      <4>2. n.int = k + 1 /\ n.base = w - p
        BY <1>1, <1>2, <1>5, <2>2, <2>3, <3>4
      <4> QED
        BY <1>1, <1>5, <3>4, <4>1, <4>2 DEF Fraction
    <3>5. CASE k < 0 /\ w <= 0
      <4>1. CASE w < -p
        <5>1. n.int = k - 1 /\ n.base = w + p
          BY <1>1, <1>2, <1>5, <2>2, <2>3, <3>5, <4>1
        <5>2. w > -(2 * p)
          BY <1>5, <1>6, <2>4
        <5> QED
          BY <1>1, <1>5, <3>5, <4>1, <5>1, <5>2 DEF Fraction
      <4>2. CASE w >= -p
        <5>1. n.int = k /\ n.base = w
          BY <1>1, <1>2, <1>5, <2>2, <2>3, <3>5, <4>2
        <5> QED
          BY <1>1, <1>5, <3>5, <4>2, <5>1 DEF Fraction, Abs
      <4> QED
        BY <1>1, <1>5, <4>1, <4>2
    <3> QED
      BY <1>1, <3>1, <3>2, <3>3, <3>4, <3>5
  <2>6. Fraction(n.int, n.base, p) => Normal(n)
    BY <1>3, <1>4, NormalFraction DEF p
  <2>7. Normal(n) \/ n.int = 0 \/ Abs(n.base) = Power(n.exp)
    BY <1>3, <2>1, <2>5, <2>6
  <2> QED
    BY <2>7 DEF n
<1> QED
  BY <1>7, <1>8

(* Sums and differences, if their integer parts do not cancel.               *)
LEMMA SumNormal ==
  ASSUME NEW a, NEW b, Sound(a), Sound(b), Normal(a), Normal(b), Alignable(a, b)
  PROVE  /\ LET n == Sum(a, b)
            IN SumFits(a, b) => Normal(n) \/ n.int = 0 \/ Abs(n.base) = Power(n.exp)
         /\ LET n == Difference(a, b)
            IN DifferenceFits(a, b) => Normal(n) \/ n.int = 0 \/ Abs(n.base) = Power(n.exp)
<1> DEFINE e == MaxOf(a.exp, b.exp)
           u == Lifted(a, e)
           v == Lifted(b, e)
           p == Power(MaxOf(e, 0))
<1>1. /\ e \in -1..MaxPower /\ u \in Int /\ v \in Int /\ (e = -1 => u = 0 /\ v = 0)
      /\ e \in a.exp..MaxPower /\ e - a.exp <= MaxPower
      /\ e \in b.exp..MaxPower /\ e - b.exp <= MaxPower
      /\ MaxOf(e, 0) \in Scale(a)..MaxPower /\ MaxOf(e, 0) \in Scale(b)..MaxPower
  BY SumParts
<1>2. a.int \in Int /\ b.int \in Int
  BY ScaleType
<1>3. /\ u = a.base * Power(MaxOf(e, 0) - Scale(a))
      /\ v = b.base * Power(MaxOf(e, 0) - Scale(b))
  BY <1>1, LiftedParts
<1>4. Fraction(a.int, u, p)
  BY <1>1, <1>3, NormalLift
<1>5. Fraction(b.int, v, p)
  BY <1>1, <1>3, NormalLift
<1>6. p \in Nat \ {0}
  BY <1>1, AtParts
<1> HIDE DEF e, u, v
<1>7. Fraction(-b.int, -v, p)
  <2> HIDE DEF p
  <2> QED
    BY <1>1, <1>2, <1>5, <1>6 DEF Fraction
<1>8. -b.int \in Int /\ -v \in Int /\ a.int + (-b.int) = a.int - b.int /\ u + (-v) = u - v
      /\ (e = -1 => u + v = 0 /\ u + (-v) = 0)
  BY <1>1, <1>2
<1>9. ASSUME SumFits(a, b)
      PROVE  LET n == Sum(a, b) IN Normal(n) \/ n.int = 0 \/ Abs(n.base) = Power(n.exp)
  <2>1. CarriedFits(a.int + b.int, u + v, e)
        /\ Sum(a, b) = Carried(Wrap(a.int + b.int), Wrap(u + v), e)
    BY <1>9 DEF SumFits, Sum, e, u, v
  <2> QED
    BY <1>1, <1>2, <1>4, <1>5, <1>8, <2>1, CarriedNormal
<1>10. ASSUME DifferenceFits(a, b)
       PROVE  LET n == Difference(a, b)
              IN Normal(n) \/ n.int = 0 \/ Abs(n.base) = Power(n.exp)
  <2>1. CarriedFits(a.int + (-b.int), u + (-v), e)
        /\ Difference(a, b) = Carried(Wrap(a.int + (-b.int)), Wrap(u + (-v)), e)
    BY <1>8, <1>10 DEF DifferenceFits, Difference, e, u, v
  <2> DEFINE j == -b.int
             w == -v
  <2>2. j \in Int /\ w \in Int /\ Fraction(j, w, p) /\ (e = -1 => u + w = 0)
        /\ CarriedFits(a.int + j, u + w, e)
        /\ Difference(a, b) = Carried(Wrap(a.int + j), Wrap(u + w), e)
    BY <1>7, <1>8, <2>1
  <2> HIDE DEF j, w
  <2> QED
    BY <1>1, <1>2, <1>4, <2>2, CarriedNormal
<1> QED
  BY <1>9, <1>10

(* The unary minus.                                                          *)
LEMMA MinusParts ==
  ASSUME NEW a, Sound(a)
  PROVE  /\ Sound(Minus(a))
         /\ MinusFits(a) =>
              /\ Value(Minus(a)) = -Value(a)
              /\ Normal(a) => Normal(Minus(a))
<1> DEFINE n == Minus(a)
           p == Power(Scale(a))
<1>1. a.int \in Int /\ a.base \in Int /\ a.exp \in -1..MaxPower /\ p \in Nat \ {0}
      /\ (a.exp = -1 => a.base = 0)
  BY ScaleType DEF Sound
<1>2. Wrap(-a.int) \in Int /\ Wrap(-a.base) \in Int /\ Wrap(0) = 0
  <2>1. Wrap(0) = 0
    BY WrapFits, TableSize DEF Fits
  <2> QED
    BY <1>1, <2>1, WrapType
<1>3. a.exp = -1 => Wrap(-a.base) = 0
  BY <1>1, <1>2
<1>4. Sound(n) /\ n.int = Wrap(-a.int) /\ n.base = Wrap(-a.base) /\ n.exp = a.exp
  BY <1>1, <1>2, <1>3, NumberParts DEF Minus
<1>5. Scale(n) = Scale(a)
  BY <1>4 DEF Scale
<1>6. ASSUME MinusFits(a) PROVE Value(n) = -Value(a) /\ (Normal(a) => Normal(n))
  <2> HIDE DEF n, p
  <2>1. n.int = -a.int /\ n.base = -a.base
    BY <1>4, <1>6 DEF MinusFits, Fits
  <2>2. Value(n) = (-a.int) * p + (-a.base) /\ Value(a) = a.int * p + a.base
    BY <1>5, <2>1 DEF Value, p
  <2>3. \A i, c \in Int, q \in Nat : (-i) * q + (-c) = -(i * q + c)
    OBVIOUS
  <2>4. Value(n) = -Value(a)
    BY <1>1, <2>2, <2>3
  <2>5. Fraction(a.int, a.base, p) => Fraction(n.int, n.base, p)
    BY <1>1, <2>1 DEF Fraction
  <2>6. Normal(a) => Normal(n)
    BY <1>4, <1>5, <2>5, NormalFraction DEF p
  <2> QED
    BY <2>4, <2>6
<1> QED
  BY <1>4, <1>6

(* The factors of a product have one sign each, and so have its three terms. *)
LEMMA OneSign ==
  ASSUME NEW n, Sound(n), Normal(n)
  PROVE  (n.int >= 0 /\ n.base >= 0) \/ (n.int <= 0 /\ n.base <= 0)
BY ScaleType DEF Normal

(* An integer and what a division adds, of one sign, with its remainder.     *)
LEMMA RemainderNormal ==
  ASSUME NEW n, Sound(n), NEW m \in Int, NEW t \in Int,
         (m >= 0 /\ t >= 0) \/ (m <= 0 /\ t <= 0),
         n.int = m + Quot(t, Power(Scale(n))), n.base = Rem(t, Power(Scale(n)))
  PROVE  Normal(n)
<1> DEFINE p == Power(Scale(n))
           q == Quot(t, p)
           r == Rem(t, p)
<1>1. p \in Nat \ {0}
  BY ScaleType
<1> HIDE DEF p
<1>2. p \in Int /\ p # 0 /\ p > 0
  BY <1>1
<1>3. /\ q \in Int /\ r \in Int /\ Abs(r) < Abs(p)
      /\ (t >= 0 => r >= 0) /\ (t <= 0 => r <= 0)
      /\ (t >= 0 => q >= 0) /\ (t <= 0 => q <= 0)
  BY <1>2, Division
<1>4. n.int = m + q /\ n.base = r
  BY DEF p
<1> HIDE DEF q, r
<1>5. Fraction(n.int, n.base, p)
  BY <1>2, <1>3, <1>4 DEF Abs, Fraction
<1> QED
  BY <1>5, NormalFraction DEF p

(* Products keep the form,                                                   *)
LEMMA ProductNormal ==
  ASSUME NEW a, NEW b, Sound(a), Sound(b), Normal(a), Normal(b), a.exp + b.exp <= MaxPower,
         ProductFits(a, b)
  PROVE  Normal(Product(a, b))
<1> DEFINE n == Product(a, b)
           pa == Power(a.exp)
           pb == Power(b.exp)
           t == a.int * b.base * pa + b.int * a.base * pb + a.base * b.base
           m == a.int * b.int
<1>1. /\ a.int \in Int /\ a.base \in Int /\ b.int \in Int /\ b.base \in Int
      /\ pa \in Nat /\ pb \in Nat
  BY ScaleType, FactorType
<1>2. Sound(n) /\ n.exp = ProductExp(a, b) /\ t \in Int
      /\ n.int = m + Quot(t, Divisor(ProductExp(a, b)))
      /\ n.base = Rem(t, Divisor(ProductExp(a, b)))
  BY ProductParts, CrossExact
<1>3. Divisor(ProductExp(a, b)) = Power(Scale(n))
  BY <1>2, ProductExpType, DivisorType DEF Scale
<1> HIDE DEF n, pa, pb
<1>4. \A c, d \in Int, k \in Nat :
        /\ (c >= 0 /\ d >= 0) \/ (c <= 0 /\ d <= 0) => c * d >= 0 /\ c * d * k >= 0
        /\ (c >= 0 /\ d <= 0) \/ (c <= 0 /\ d >= 0) => c * d <= 0 /\ c * d * k <= 0
  <2> TAKE c \in Int, d \in Int, k \in Nat
  <2>1. /\ (c >= 0 /\ d >= 0) \/ (c <= 0 /\ d <= 0) => c * d >= 0
        /\ (c >= 0 /\ d <= 0) \/ (c <= 0 /\ d >= 0) => c * d <= 0
    OBVIOUS
  <2>2. \A f \in Int : (f >= 0 => f * k >= 0) /\ (f <= 0 => f * k <= 0)
    OBVIOUS
  <2> QED
    BY <2>1, <2>2
<1> DEFINE t1 == a.int * b.base * pa
           t2 == b.int * a.base * pb
           t3 == a.base * b.base
<1>5. t1 \in Int /\ t2 \in Int /\ t3 \in Int /\ m \in Int
  BY <1>1
<1>6. (m >= 0 /\ t1 >= 0 /\ t2 >= 0 /\ t3 >= 0) \/ (m <= 0 /\ t1 <= 0 /\ t2 <= 0 /\ t3 <= 0)
  <2>1. (a.int >= 0 /\ a.base >= 0) \/ (a.int <= 0 /\ a.base <= 0)
    BY OneSign
  <2>2. (b.int >= 0 /\ b.base >= 0) \/ (b.int <= 0 /\ b.base <= 0)
    BY OneSign
  <2>3. CASE a.int >= 0 /\ a.base >= 0 /\ b.int >= 0 /\ b.base >= 0
    <3>1. m >= 0 /\ t3 >= 0
      BY <1>1, <1>4, <2>3
    <3>2. t1 >= 0
      BY <1>1, <1>4, <2>3
    <3>3. t2 >= 0
      BY <1>1, <1>4, <2>3
    <3> HIDE DEF m, t1, t2, t3
    <3> QED
      BY <3>1, <3>2, <3>3
  <2>4. CASE a.int <= 0 /\ a.base <= 0 /\ b.int <= 0 /\ b.base <= 0
    <3>1. m >= 0 /\ t3 >= 0
      BY <1>1, <1>4, <2>4
    <3>2. t1 >= 0
      BY <1>1, <1>4, <2>4
    <3>3. t2 >= 0
      BY <1>1, <1>4, <2>4
    <3> HIDE DEF m, t1, t2, t3
    <3> QED
      BY <3>1, <3>2, <3>3
  <2>5. CASE a.int >= 0 /\ a.base >= 0 /\ b.int <= 0 /\ b.base <= 0
    BY <1>1, <1>4, <2>5
  <2>6. CASE a.int <= 0 /\ a.base <= 0 /\ b.int >= 0 /\ b.base >= 0
    BY <1>1, <1>4, <2>6
  <2> QED
    BY <2>1, <2>2, <2>3, <2>4, <2>5, <2>6
<1>7. (m >= 0 /\ t >= 0) \/ (m <= 0 /\ t <= 0)
  <2>1. t = t1 + t2 + t3
    OBVIOUS
  <2> HIDE DEF t, t1, t2, t3, m
  <2> QED
    BY <1>5, <1>6, <2>1
<1> HIDE DEF t, m
<1>8. Normal(n)
  BY <1>2, <1>3, <1>5, <1>7, RemainderNormal
<1> QED
  BY <1>8 DEF n

(* quotients bring it about,                                                 *)
LEMMA QuotientNormal ==
  ASSUME NEW a, NEW b, Sound(a), Sound(b), a.exp + b.exp <= MaxPower, Theirs(b) # 0
  PROVE  Normal(Quotient(a, b))
<1> DEFINE n == Quotient(a, b)
           k == Quot(Wrap(Rounded(a, b)), Theirs(b))
<1>1. Sound(n) /\ n.exp = a.exp /\ k \in Int
      /\ n.int = Quot(k, Power(Scale(a))) /\ n.base = Rem(k, Power(Scale(a)))
  BY QuotientParts
<1>2. Scale(n) = Scale(a) /\ Power(Scale(a)) \in Int /\ Power(Scale(a)) # 0
  BY <1>1, ScaleType DEF Scale
<1> HIDE DEF n, k
<1>3. Quot(k, Power(Scale(a))) \in Int
  BY <1>1, <1>2, Division
<1> DEFINE m == 0
<1>4. m \in Int /\ n.int = m + Quot(k, Power(Scale(n))) /\ n.base = Rem(k, Power(Scale(n)))
  BY <1>1, <1>2, <1>3
<1>5. (m >= 0 /\ k >= 0) \/ (m <= 0 /\ k <= 0)
  BY <1>1
<1> HIDE DEF m
<1>6. Normal(n)
  BY <1>1, <1>4, <1>5, RemainderNormal
<1> QED
  BY <1>6 DEF n

(* and setAccuracy keeps it, but where it forgets m_exp.                     *)
LEMMA AccuracyNormal ==
  ASSUME NEW a, Sound(a), Normal(a), NEW k \in -1..MaxPower, ~Rescaled(a, k)
  PROVE  Normal(WithAccuracy(a, k))
<1> DEFINE n == WithAccuracy(a, k)
<1>1. /\ Sound(n)
      /\ a.exp < 0 \/ k < 0 => n = Number(a.int, 0, k)
      /\ a.exp >= 0 /\ k >= 0 => n.int = a.int /\ n.exp = a.exp
      /\ a.exp >= 0 /\ k >= 0 /\ (k = a.exp \/ a.base = 0) => n.base = a.base
  BY AccuracyParts
<1>2. a.exp \in -1..MaxPower /\ Power(Scale(n)) \in Nat \ {0}
  BY <1>1, ScaleType
<1> HIDE DEF n
<1>3. CASE a.exp < 0 \/ k < 0
  <2>1. n.base = 0
    BY <1>1, <1>3 DEF Number
  <2>2. Normal(n)
    BY <1>2, <2>1 DEF Normal, Abs
  <2> QED
    BY <2>2 DEF n
<1>4. CASE a.exp >= 0 /\ k >= 0
  <2>1. n.int = a.int /\ n.exp = a.exp /\ n.base = a.base
    BY <1>1, <1>4 DEF Rescaled
  <2>2. Normal(n)
    BY <2>1 DEF Normal, Scale
  <2> QED
    BY <2>2 DEF n
<1> QED
  BY <1>2, <1>3, <1>4

(* The double of a number that was read stays on its side of every double:   *)
(* the sum of the rounded parts passes none.                                 *)
LEMMA RoundedSum ==
  ASSUME NEW i \in Int, Abs(i) <= LongMax, NEW f \in Int, Abs(f) < One,
         i > 0 => f >= 0, i < 0 => f <= 0,
         NEW d \in Int, InReach(d), Round(d) = d
  PROVE  LET r == Round(i * One + Round(f))
         IN /\ r \in Int
            /\ i * One + f >= d => r >= d
            /\ i * One + f <= d => r <= d
<1> DEFINE I == i * One
           e == d - I
           F == Round(f)
           S == I + F
           r == Round(S)
<1>1. One \in Nat \ {0} /\ LongMax \in Nat /\ I \in Int /\ e \in Int
  BY DoubleFacts, TableSize
<1>2. One <= (LongMax + 1) * One /\ (LongMax + 1) * One \in Int /\ Abs(I) <= LongMax * One
      /\ (LongMax + 1) * One = LongMax * One + One /\ LongMax * One \in Nat
  <2>1. Abs(i) \in Nat
    BY DEF Abs
  <2>2. One * Abs(i) <= One * LongMax
    BY <1>1, <2>1, Products
  <2>3. Abs(I) = One * Abs(i)
    BY <1>1 DEF Abs
  <2>4. (LongMax + 1) * One = LongMax * One + One /\ LongMax * One \in Nat
        /\ One * LongMax = LongMax * One
    BY <1>1
  <2> QED
    BY <1>1, <2>2, <2>3, <2>4
<1>3. InReach(f)
  <2>1. Abs(f) <= (LongMax + 1) * One
    BY <1>1, <1>2 DEF Abs
  <2> QED
    BY <2>1, Reach
<1> HIDE DEF I
<1>4. /\ Round(0) = 0 /\ Round(One) = One /\ Round(-One) = -One
      /\ InReach(0) /\ InReach(One) /\ InReach(-One)
  <2>1. Power(DefaultAccuracy) \in Nat \ {0}
    BY PowerType, NumberBoundsAssumption DEF NumberBoundsAssumption
  <2>2. 0 * One = 0 /\ 1 * One = One /\ (-1) * One = -One
    BY <1>1
  <2>3. \A k \in {-1, 0, 1} : k \in Int /\ Abs(k) <= Power(DefaultAccuracy)
    BY <2>1 DEF Abs
  <2> QED
    BY <2>2, <2>3, WholeDouble
<1>5. /\ F \in Int /\ -One <= F /\ F <= One /\ (f >= 0 => F >= 0) /\ (f <= 0 => F <= 0)
  <2>1. f <= One /\ -One <= f /\ -One \in Int /\ One \in Int
    BY <1>1 DEF Abs
  <2>2. F <= One /\ F \in Int
    BY <1>3, <1>4, <2>1, RoundOrder
  <2>3. -One <= F
    BY <1>3, <1>4, <2>1, RoundOrder
  <2>4. f >= 0 => F >= 0
    BY <1>3, <1>4, RoundOrder
  <2>5. f <= 0 => F <= 0
    BY <1>3, <1>4, RoundOrder
  <2> QED
    BY <2>2, <2>3, <2>4, <2>5
<1>6. ASSUME Abs(e) < One, i > 0 => e >= 0, i < 0 => e <= 0
      PROVE  (f >= e => F >= e) /\ (f <= e => F <= e)
  <2>1. (i > 0 => d >= i * One) /\ (i < 0 => d <= i * One)
    BY <1>1, <1>6 DEF I
  <2>2. InReach(e) /\ Round(e) = e
    BY <1>1, <1>6, <2>1, PartBelow DEF I
  <2> HIDE DEF e
  <2> QED
    BY <1>1, <1>3, <2>2, RoundOrder
<1> HIDE DEF F
<1>7. S \in Int /\ InReach(S)
  <2>1. Abs(S) <= (LongMax + 1) * One
    BY <1>1, <1>2, <1>5 DEF Abs
  <2> QED
    BY <1>1, <1>5, <2>1, Reach
<1>8. I + f >= d => S >= d
  <2> SUFFICES ASSUME e <= f PROVE e <= F
    BY <1>1, <1>5
  <2>1. CASE e <= -One
    BY <1>1, <1>5, <2>1
  <2>2. CASE f >= 0 /\ e <= 0
    BY <1>1, <1>5, <2>2
  <2>3. CASE f >= 0 /\ e > 0
    <3>1. Abs(e) < One /\ ~(i < 0 /\ f > 0)
      BY <1>1, <2>3 DEF Abs
    <3>2. i >= 0
      BY <1>1, <2>3
    <3> QED
      BY <1>1, <1>6, <2>3, <3>1, <3>2
  <2>4. CASE f < 0 /\ e > -One
    <3>1. Abs(e) < One /\ i <= 0 /\ e <= 0
      BY <1>1, <2>4 DEF Abs
    <3> QED
      BY <1>6, <3>1
  <2> QED
    BY <1>1, <2>1, <2>2, <2>3, <2>4
<1>9. I + f <= d => S <= d
  <2> SUFFICES ASSUME f <= e PROVE F <= e
    BY <1>1, <1>5
  <2>1. CASE e >= One
    BY <1>1, <1>5, <2>1
  <2>2. CASE f <= 0 /\ e >= 0
    BY <1>1, <1>5, <2>2
  <2>3. CASE f <= 0 /\ e < 0
    <3>1. Abs(e) < One /\ i <= 0
      BY <1>1, <2>3 DEF Abs
    <3> QED
      BY <1>1, <1>6, <2>3, <3>1
  <2>4. CASE f > 0 /\ e < One
    <3>1. Abs(e) < One /\ i >= 0 /\ e >= 0
      BY <1>1, <2>4 DEF Abs
    <3> QED
      BY <1>6, <3>1
  <2> QED
    BY <1>1, <2>1, <2>2, <2>3, <2>4
<1> HIDE DEF S
<1>10. /\ r \in Int /\ (S >= d => r >= d) /\ (S <= d => r <= d)
  BY <1>7, RoundOrder
<1> QED
  BY <1>8, <1>9, <1>10 DEF S, F, I

(* The double of a number that was read,                                     *)
LEMMA ReadDouble ==
  ASSUME NEW n, Sound(n), HeldExactly(n), Abs(n.int) <= LongMax,
         One % Power(Scale(n)) = 0, NEW s \in Literals
  PROVE  LET d == DoubleRead(s)
             scale == MaxOf(DefaultAccuracy, Scale(n))
             exact == At(n, scale) * One
         IN /\ DoubleOf(n) < d => exact < d * Power(scale)
            /\ DoubleOf(n) > d => exact > d * Power(scale)
<1> DEFINE d == DoubleRead(s)
           scale == MaxOf(DefaultAccuracy, Scale(n))
           exact == At(n, scale) * One
           p == Power(Scale(n))
           q == Power(scale - Scale(n))
           o == One \div p
           f == n.base * o
           real == n.int * One + f
<1>1. /\ n.int \in Int /\ n.base \in Int /\ n.exp \in -1..MaxPower
      /\ (n.exp = -1 => Scale(n) = 0 /\ n.base = 0) /\ (n.exp # -1 => Scale(n) = n.exp)
      /\ p \in Nat \ {0}
  BY ScaleType DEF Sound
<1>2. One \in Nat \ {0} /\ d \in Int /\ InReach(d) /\ Round(d) = d
  BY DoubleFacts, LiteralDouble
<1>3. scale \in Scale(n)..MaxPower
  <2>1. Scale(n) \in 0..MaxPower /\ DefaultAccuracy \in 0..MaxPower /\ MaxPower \in Nat
    BY ScaleType, TableSize, NumberBoundsAssumption DEF NumberBoundsAssumption
  <2> QED
    BY <2>1 DEF MaxOf
<1>4. Abs(n.base) < p /\ (n.int > 0 => n.base >= 0) /\ (n.int < 0 => n.base <= 0)
  BY DEF HeldExactly, Normal
<1> HIDE DEF scale, p
<1>5. One = p * o /\ o \in Nat \ {0}
  <2>1. One = p * o /\ o \in Nat
    BY <1>1, <1>2 DEF p
  <2>2. o # 0
    BY <1>1, <1>2, <2>1
  <2> QED
    BY <2>1, <2>2
<1> HIDE DEF o, d
<1>6. /\ f \in Int /\ Abs(f) < One /\ (n.int > 0 => f >= 0) /\ (n.int < 0 => f <= 0)
      /\ n.base * One = p * f
  <2>1. f \in Int /\ n.base * One = p * f
    BY <1>1, <1>5
  <2>2. \A b \in Int : (b >= 0 => b * o >= 0) /\ (b <= 0 => b * o <= 0)
    BY <1>5
  <2>3. \A b \in Nat : b < p => b * o < p * o
    <3> TAKE b \in Nat
    <3> HAVE b < p
    <3>1. \A k \in Nat \ {0} : k * o > 0
      BY <1>5
    <3>2. (p - b) * o > 0
      BY <1>1, <3>1
    <3>3. (p - b) * o = p * o - b * o /\ p * o \in Int /\ b * o \in Int
      BY <1>1, <1>5
    <3> QED
      BY <3>2, <3>3
  <2>4. Abs(f) = Abs(n.base) * o
    BY <1>1, <1>5, <2>2 DEF Abs
  <2>5. Abs(n.base) \in Nat
    BY <1>1 DEF Abs
  <2>6. Abs(f) < One
    BY <1>4, <1>5, <2>3, <2>4, <2>5
  <2> QED
    BY <1>1, <1>4, <2>1, <2>2, <2>6
<1>7. Round(n.int * One) = n.int * One /\ Round(n.base * One) = n.base * One
  BY DEF HeldExactly
<1> HIDE DEF f
<1>8. DoubleOf(n) = Round(n.int * One + Round(f))
      \/ (n.exp = -1 /\ DoubleOf(n) = n.int * One)
  <2>1. CASE n.exp = -1
    BY <1>7, <2>1 DEF DoubleOf
  <2>2. CASE n.exp # -1
    <3>1. ~(n.exp < 0) /\ Power(n.exp) = p
      BY <1>1, <2>2 DEF p
    <3>2. Quot(n.base * One, p) = f
      BY <1>1, <1>6, ExactDivision
    <3> QED
      BY <1>7, <3>1, <3>2 DEF DoubleOf
  <2> QED
    BY <2>1, <2>2
<1>9. n.exp = -1 => f = 0
  <2>1. ASSUME n.exp = -1 PROVE f = 0
    <3>1. 0 * o = 0
      BY <1>5
    <3> QED
      BY <1>1, <2>1, <3>1 DEF f
  <2> QED
    BY <2>1
<1> DEFINE I == n.int * One
<1>10. I \in Int
  BY <1>1, <1>2
<1>11. /\ DoubleOf(n) \in Int
       /\ real >= d => DoubleOf(n) >= d
       /\ real <= d => DoubleOf(n) <= d
  <2> DEFINE r == Round(I + Round(f))
  <2>1. r \in Int /\ (real >= d => r >= d) /\ (real <= d => r <= d)
    BY <1>1, <1>2, <1>6, RoundedSum
  <2> HIDE DEF r
  <2>2. CASE DoubleOf(n) = r
    BY <2>1, <2>2
  <2>3. CASE n.exp = -1 /\ DoubleOf(n) = I
    BY <1>9, <1>10, <2>3
  <2> QED
    BY <1>8, <2>2, <2>3 DEF r
<1>12. exact = real * Power(scale) /\ Power(scale) \in Nat \ {0}
  <2>1. /\ Power(scale) \in Nat \ {0} /\ q \in Nat \ {0} /\ Power(scale) = p * q
        /\ At(n, scale) = n.int * Power(scale) + n.base * q
    BY <1>3, AtParts DEF p
  <2> HIDE DEF q
  <2>2. \A i, b, g, j, k, u \in Int :
          b * u = j * g => (i * (j * k) + b * k) * u = (i * u + g) * (j * k)
    <3> TAKE i \in Int, b \in Int, g \in Int, j \in Int, k \in Int, u \in Int
    <3> HAVE b * u = j * g
    <3>1. (i * (j * k) + b * k) * u = i * (j * k) * u + (b * u) * k
      OBVIOUS
    <3>2. (i * u + g) * (j * k) = i * u * (j * k) + (j * g) * k
      OBVIOUS
    <3>3. i * (j * k) * u = i * u * (j * k)
      OBVIOUS
    <3> QED
      BY <3>1, <3>2, <3>3
  <2>3. p \in Int /\ q \in Int /\ One \in Int
    BY <1>1, <1>2, <2>1
  <2>4. (n.int * (p * q) + n.base * q) * One = (n.int * One + f) * (p * q)
    <3> DEFINE i == n.int
               b == n.base
    <3>1. i \in Int /\ b \in Int /\ f \in Int /\ b * One = p * f
      BY <1>1, <1>6
    <3> HIDE DEF i, b
    <3>2. (i * (p * q) + b * q) * One = (i * One + f) * (p * q)
      BY <2>2, <2>3, <3>1
    <3> QED
      BY <3>2 DEF i, b
  <2> QED
    BY <2>1, <2>4
<1>13. real \in Int
  BY <1>6, <1>10
<1> HIDE DEF real, exact
<1>14. \A a, b \in Int, k \in Nat \ {0} : a < b => a * k < b * k
  <2> TAKE a \in Int, b \in Int, k \in Nat \ {0}
  <2> HAVE a < b
  <2>1. \A j \in Nat \ {0} : j * k > 0
    OBVIOUS
  <2>2. (b - a) * k > 0
    BY <2>1
  <2>3. (b - a) * k = b * k - a * k /\ b * k \in Int /\ a * k \in Int
    OBVIOUS
  <2> QED
    BY <2>2, <2>3
<1>15. ASSUME DoubleOf(n) < d PROVE exact < d * Power(scale)
  <2>1. real < d
    BY <1>2, <1>11, <1>13, <1>15
  <2> QED
    BY <1>2, <1>12, <1>13, <1>14, <2>1
<1>16. ASSUME DoubleOf(n) > d PROVE exact > d * Power(scale)
  <2>1. d < real
    BY <1>2, <1>11, <1>13, <1>16
  <2>2. d * Power(scale) < real * Power(scale)
    BY <1>2, <1>12, <1>13, <1>14, <2>1
  <2>3. d * Power(scale) \in Int /\ real * Power(scale) \in Int
    BY <1>2, <1>12, <1>13
  <2> QED
    BY <1>12, <2>2, <2>3
<1> QED
  BY <1>15, <1>16 DEF d, exact, scale

(* and the double a number was made from.                                    *)
LEMMA MadeFromDouble ==
  ASSUME NEW val \in Int, InReach(val), Round(val) = val, NEW s \in Literals
  PROVE  LET n == FromDouble(val)
             d == DoubleRead(s)
             scale == MaxOf(DefaultAccuracy, Scale(n))
             exact == At(n, scale) * One
         IN /\ val < d => exact < d * Power(scale) + One
            /\ val > d => exact > d * Power(scale) - One
<1> DEFINE n == FromDouble(val)
           d == DoubleRead(s)
           acc == DefaultAccuracy
           scale == MaxOf(acc, Scale(n))
           exact == At(n, acc) * One
           P == Power(acc)
<1>1. /\ Sound(n) /\ Scale(n) <= acc /\ Abs(val * P - exact) < One
  BY DoubleParts
<1>2. /\ acc \in 0..MaxPower /\ P \in Nat \ {0} /\ One \in Nat \ {0} /\ d \in Int
      /\ MaxPower \in Nat
  BY PowerType, TableSize, DoubleFacts, LiteralDouble, NumberBoundsAssumption
     DEF NumberBoundsAssumption
<1> HIDE DEF n, acc
<1>3. Scale(n) \in 0..MaxPower /\ acc \in Scale(n)..MaxPower
  BY <1>1, <1>2, ScaleType
<1>4. scale = acc
  <2>1. acc \in Int /\ Scale(n) \in Int /\ Scale(n) <= acc
    BY <1>1, <1>2, <1>3
  <2> QED
    BY <2>1 DEF MaxOf
<1>5. At(n, acc) \in Int
  BY <1>1, <1>3, AtParts
<1> HIDE DEF d, P
<1>6. exact \in Int /\ val * P \in Int /\ d * P \in Int
  BY <1>2, <1>5
<1>7. \A a, b \in Int : a <= b => a * P <= b * P
  <2> TAKE a \in Int, b \in Int
  <2> HAVE a <= b
  <2>1. \A j \in Nat : j * P >= 0
    BY <1>2
  <2>2. (b - a) * P >= 0
    BY <2>1
  <2>3. (b - a) * P = b * P - a * P /\ b * P \in Int /\ a * P \in Int
    BY <1>2
  <2> QED
    BY <2>2, <2>3
<1>8. (val < d => val * P <= d * P) /\ (val > d => d * P <= val * P)
  BY <1>2, <1>7
<1> HIDE DEF exact
<1>9. val * P - exact < One /\ exact - val * P < One
  BY <1>1, <1>2, <1>6 DEF Abs
<1>10. (val < d => exact < d * P + One) /\ (val > d => exact > d * P - One)
  BY <1>2, <1>6, <1>8, <1>9
<1> QED
  BY <1>4, <1>10 DEF n, d, P, acc, scale, exact

-----------------------------------------------------------------------------
(* The inductive invariant: a number whose powers of ten are in the table    *)
(* has no digits if it has no point.                                         *)
NumberIInv == Sound(x) /\ ArithmeticExact /\ ViewsAgree

(* What is printed and compared depends on the number alone.                 *)
LEMMA SoundLooks ==
  ASSUME NEW n, Sound(n), Normal(n)
  PROVE  \A s \in Literals, old \in Garbage :
           LET y == FromString(s, old)
               scale == MaxOf(Scale(n), Scale(y))
           IN /\ Normal(y) /\ Alignable(n, y) =>
                   /\ Less(n, y) <=> At(n, scale) < At(y, scale)
                   /\ Greater(n, y) <=> At(n, scale) > At(y, scale)
                   /\ Equal(n, y) <=> At(n, scale) = At(y, scale)
              /\ n.int # s.whole \/ n.base >= 0 =>
                   (LessInt(n, s.whole) <=> Value(n) < s.whole * Power(Scale(n)))
              /\ GreaterInt(n, s.whole) <=> Value(n) > s.whole * Power(Scale(n))
              /\ EqualInt(n, s.whole) <=> Value(n) = s.whole * Power(Scale(n))
<1> TAKE s \in Literals, old \in Garbage
<1> DEFINE y == FromString(s, old)
<1>1. Sound(y)
  BY StringParts, NumberBoundsAssumption DEF NumberBoundsAssumption
<1>2. s.whole \in Int
  BY LiteralParts, TableSize
<1> HIDE DEF y
<1>3. Normal(y) /\ Alignable(n, y) =>
        LET scale == MaxOf(Scale(n), Scale(y))
        IN /\ Less(n, y) <=> At(n, scale) < At(y, scale)
           /\ Greater(n, y) <=> At(n, scale) > At(y, scale)
           /\ Equal(n, y) <=> At(n, scale) = At(y, scale)
  BY <1>1, CompareNumbers
<1>4. /\ n.int # s.whole \/ n.base >= 0 =>
           (LessInt(n, s.whole) <=> Value(n) < s.whole * Power(Scale(n)))
      /\ GreaterInt(n, s.whole) <=> Value(n) > s.whole * Power(Scale(n))
      /\ EqualInt(n, s.whole) <=> Value(n) = s.whole * Power(Scale(n))
  BY <1>2, CompareInt
<1> QED
  BY <1>3, <1>4 DEF y

(* So a step that leaves a sound number leaves one that looks right.         *)
LEMMA SoundViews ==
  Sound(x') => PrintsAgree' /\ ComparesAgree'
<1> SUFFICES ASSUME Sound(x') PROVE PrintsAgree' /\ ComparesAgree'
  OBVIOUS
<1>1. PrintsAgree'
  BY PrintParts DEF PrintsAgree
<1>2. ComparesAgree'
  BY SoundLooks, Zenon DEF ComparesAgree
<1> QED
  BY <1>1, <1>2

(* It holds of the number a program starts with,                             *)
LEMMA InitNumberIInv == NumberInit => NumberIInv
<1> SUFFICES ASSUME NumberInit PROVE NumberIInv
  OBVIOUS
<1>1. x = Number(0, 0, 0) /\ last = [op |-> "none"]
  BY DEF NumberInit
<1>2. Sound(x)
  <2>1. 0 \in -1..MaxPower
    BY TableSize
  <2> QED
    BY <1>1, <2>1, NumberParts
<1>3. ArithmeticExact
  BY <1>1 DEF ArithmeticExact
<1>4. PrintsAgree
  BY <1>2, PrintParts DEF PrintsAgree
<1>5. ComparesAgree
  BY <1>2, SoundLooks, Zenon DEF ComparesAgree
<1>6. NormalKept /\ DoublesAgree
  BY <1>1 DEF NormalKept, DoublesAgree
<1> QED
  BY <1>2, <1>3, <1>4, <1>5, <1>6 DEF NumberIInv, ViewsAgree

(* The double of a string keeps its side,                                    *)
StringDouble(n, dbl) ==
  LET scale == MaxOf(DefaultAccuracy, Scale(n))
      exact == At(n, scale) * One
  IN \A s \in Literals :
       LET d == DoubleRead(s)
       IN /\ dbl < d => exact < d * Power(scale)
          /\ dbl > d => exact > d * Power(scale)

LEMMA StringDoubles ==
  ASSUME NEW s \in Literals, NEW old \in Int, HeldExactly(FromString(s, old))
  PROVE  StringDouble(FromString(s, old), DoubleOf(FromString(s, old)))
<1> DEFINE n == FromString(s, old)
<1>1. /\ Sound(n) /\ n.exp = s.places
      /\ n.int = IF s.neg THEN -s.whole ELSE s.whole
  BY StringParts
<1>2. s.whole \in 0..LongMax /\ LongMax \in Nat
  BY LiteralParts, TableSize
<1>3. One % Power(MaxOf(s.places, 0)) = 0
  BY DoublesAssumption DEF DoublesAssumption
<1> HIDE DEF n
<1>4. Abs(n.int) <= LongMax
  BY <1>1, <1>2 DEF Abs
<1>5. One % Power(Scale(n)) = 0
  BY <1>1, <1>3 DEF Scale
<1> QED
  BY <1>1, <1>4, <1>5, ReadDouble DEF StringDouble, n

(* which is what DoublesAgree says after a string,                           *)
LEMMA StringSides ==
  ASSUME Sound(x'), last'.op \in {"string", "number"},
         HeldExactly(x') => StringDouble(x', double')
  PROVE  DoublesAgree'
<1>1. last'.op # "double"
  OBVIOUS
<1>2. CASE ~HeldExactly(x')
  BY <1>1, <1>2 DEF DoublesAgree
<1>3. CASE HeldExactly(x')
  <2> SUFFICES ASSUME NEW s \in Literals
      PROVE  LET scale == MaxOf(DefaultAccuracy, Scale(x'))
                 exact == At(x', scale) * One
                 unit == IF last'.op = "double" THEN One ELSE 0
                 d == DoubleRead(s)
             IN /\ DoubleLess(double', d) => exact < d * Power(scale) + unit
                /\ DoubleGreater(double', d) => exact > d * Power(scale) - unit
    BY DEF DoublesAgree
  <2> DEFINE scale == MaxOf(DefaultAccuracy, Scale(x'))
             d == DoubleRead(s)
             bound == d * Power(scale)
  <2>1. /\ double' < d => At(x', scale) * One < bound
        /\ double' > d => At(x', scale) * One > bound
    BY <1>3 DEF StringDouble
  <2>2. bound \in Int
    <3>1. scale \in 0..MaxPower
      BY ScaleType, TableSize, NumberBoundsAssumption DEF NumberBoundsAssumption, MaxOf
    <3> QED
      BY <3>1, LiteralDouble, PowerType
  <2>3. bound + 0 = bound /\ bound - 0 = bound
    BY <2>2
  <2> QED
    BY <1>1, <2>1, <2>3 DEF DoubleLess, DoubleGreater
<1> QED
  BY <1>2, <1>3

(* and after a double;                                                       *)
LEMMA DoubleSides ==
  ASSUME NEW val \in Int, InReach(val), Round(val) = val,
         x' = FromDouble(val), double' = val, last'.op = "double"
  PROVE  DoublesAgree'
<1> SUFFICES ASSUME NEW s \in Literals
    PROVE  LET scale == MaxOf(DefaultAccuracy, Scale(x'))
               exact == At(x', scale) * One
               unit == IF last'.op = "double" THEN One ELSE 0
               d == DoubleRead(s)
           IN /\ DoubleLess(double', d) => exact < d * Power(scale) + unit
              /\ DoubleGreater(double', d) => exact > d * Power(scale) - unit
  BY DEF DoublesAgree
<1> QED
  BY MadeFromDouble DEF DoubleLess, DoubleGreater

(* an operation that throws leaves a number with the digits it had,          *)
LEMMA ThrownParts ==
  ASSUME NEW b, Sound(x), NEW i, Compute("thrown", b, Number(Wrap(i), x.base, x.exp)),
         i \in Int
  PROVE  Sound(x') /\ ArithmeticExact' /\ NormalKept' /\ DoublesAgree'
<1>1. /\ x' = Number(Wrap(i), x.base, x.exp)
      /\ last' = [op |-> "thrown", before |-> x, operand |-> b]
  BY DEF Compute, Do
<1>2. x.base \in Int /\ x.exp \in -1..MaxPower /\ (x.exp = -1 => x.base = 0)
  BY DEF Sound, Numbers
<1>3. Sound(x')
  BY <1>1, <1>2, WrapType, NumberParts
<1>4. ArithmeticExact' /\ NormalKept' /\ DoublesAgree'
  BY <1>1 DEF ArithmeticExact, NormalKept, DoublesAgree
<1> QED
  BY <1>3, <1>4

(* and every operation keeps it.                                             *)
LEMMA NextNumberIInv == NumberIInv /\ [NumberNext]_numberVars => NumberIInv'
<1> SUFFICES ASSUME NumberIInv, [NumberNext]_numberVars PROVE NumberIInv'
  OBVIOUS
<1> USE DEF NumberIInv
<1>0. SUFFICES Sound(x') /\ ArithmeticExact' /\ NormalKept' /\ DoublesAgree'
  BY SoundViews DEF ViewsAgree
<1>1. Sound(x) /\ x.base \in Int
  BY ScaleType
<1>2. ASSUME NEW s \in Literals, AssignString(s)
      PROVE  Sound(x') /\ ArithmeticExact' /\ NormalKept' /\ DoublesAgree'
  <2>1. /\ x' = FromString(s, x.base) /\ double' = DoubleOf(x')
        /\ last' = [op |-> "string", before |-> x, operand |-> s]
    BY <1>2 DEF AssignString, Do
  <2>2. /\ Sound(x')
        /\ s.places # 0 \/ x.base = 0 => Normal(x') /\ (SignLost(s) \/ Value(x') = Read(s))
    BY <1>1, <2>1, StringParts
  <2>3. ArithmeticExact'
    BY <2>1, <2>2 DEF ArithmeticExact, Stale
  <2>4. NormalKept'
    BY <2>1, <2>2 DEF NormalKept
  <2>5. DoublesAgree'
    <3>1. HeldExactly(x') => StringDouble(x', double')
      BY <1>1, <2>1, StringDoubles
    <3> QED
      BY <2>1, <2>2, <3>1, StringSides
  <2> QED
    BY <2>2, <2>3, <2>4, <2>5
<1>3. ASSUME NEW s \in Literals, NEW old \in Garbage, AssignNumber(s, old)
      PROVE  Sound(x') /\ ArithmeticExact' /\ NormalKept' /\ DoublesAgree'
  <2>1. /\ x' = FromString(s, old) /\ double' = DoubleOf(x')
        /\ last' = [op |-> "number", before |-> x, operand |-> s]
    BY <1>3 DEF AssignNumber, Do
  <2>0. old \in Int
    BY NumberBoundsAssumption DEF NumberBoundsAssumption
  <2>2. /\ Sound(x')
        /\ s.places # 0 => Normal(x') /\ (SignLost(s) \/ Value(x') = Read(s))
    BY <2>0, <2>1, StringParts
  <2>3. ArithmeticExact'
    BY <2>1, <2>2 DEF ArithmeticExact
  <2>4. NormalKept'
    BY <2>1, <2>2 DEF NormalKept
  <2>5. DoublesAgree'
    <3>1. HeldExactly(x') => StringDouble(x', double')
      BY <2>0, <2>1, StringDoubles
    <3> QED
      BY <2>1, <2>2, <3>1, StringSides
  <2> QED
    BY <2>2, <2>3, <2>4, <2>5
<1>4. ASSUME NEW s \in Literals, AssignDouble(s)
      PROVE  Sound(x') /\ ArithmeticExact' /\ NormalKept' /\ DoublesAgree'
  <2> DEFINE val == DoubleRead(s)
  <2>0. val \in Int /\ InReach(val) /\ Round(val) = val
    BY LiteralDouble
  <2> HIDE DEF val
  <2>1. /\ x' = FromDouble(val) /\ double' = val
        /\ last' = [op |-> "double", before |-> x, operand |-> s]
    BY <1>4 DEF AssignDouble, Do, val
  <2>2. /\ Sound(x') /\ Normal(x')
        /\ Abs(double' * Power(DefaultAccuracy) - At(x', DefaultAccuracy) * One) < One
    BY <2>0, <2>1, DoubleParts
  <2>3. ArithmeticExact'
    BY <2>1, <2>2 DEF ArithmeticExact
  <2>4. NormalKept'
    BY <2>1, <2>2 DEF NormalKept
  <2>5. DoublesAgree'
    BY <2>0, <2>1, DoubleSides
  <2> QED
    BY <2>2, <2>3, <2>4, <2>5
<1>5. ASSUME Negate
      PROVE  Sound(x') /\ ArithmeticExact' /\ NormalKept' /\ DoublesAgree'
  <2>1. x' = Minus(x) /\ last' = [op |-> "negate", before |-> x, operand |-> x]
    BY <1>5 DEF Negate, Do
  <2>2. /\ Sound(x')
        /\ MinusFits(x) => Value(x') = -Value(x) /\ (Normal(x) => Normal(x'))
    BY <1>1, <2>1, MinusParts
  <2>3. ArithmeticExact'
    BY <2>1, <2>2 DEF ArithmeticExact
  <2>4. NormalKept'
    BY <2>1, <2>2 DEF NormalKept
  <2>5. DoublesAgree'
    BY <2>1 DEF DoublesAgree
  <2> QED
    BY <2>2, <2>3, <2>4, <2>5
<1>6. ASSUME NEW b, Sound(b), AddTo(b)
      PROVE  Sound(x') /\ ArithmeticExact' /\ NormalKept' /\ DoublesAgree'
  <2>1. CASE Alignable(x, b) /\ Compute("add", b, Sum(x, b))
    <3>1. /\ x' = Sum(x, b)
          /\ last' = [op |-> "add", before |-> x, operand |-> b]
      BY <2>1 DEF Compute, Do
    <3>2. Sound(x')
      BY <1>1, <1>6, <2>1, <3>1, SumType
    <3>3. ArithmeticExact'
      <4>1. SumFits(x, b) => Value(x') = At(x, Scale(x')) + At(b, Scale(x'))
        BY <1>1, <1>6, <2>1, <3>1, SumExact
      <4> QED
        BY <3>1, <4>1 DEF ArithmeticExact
    <3>4. NormalKept'
      <4>1. SumFits(x, b) /\ Normal(x) /\ Normal(b) =>
              Normal(x') \/ x'.int = 0 \/ Abs(x'.base) = Power(x'.exp)
        BY <1>1, <1>6, <2>1, <3>1, SumNormal
      <4> QED
        BY <3>1, <4>1 DEF NormalKept
    <3>5. DoublesAgree'
      BY <3>1 DEF DoublesAgree
    <3> QED
      BY <3>2, <3>3, <3>4, <3>5
  <2>2. CASE Compute("thrown", b, Number(Wrap(x.int + b.int), x.base, x.exp))
    <3>1. x.int + b.int \in Int
      BY <1>1, <1>6, ScaleType
    <3> QED
      BY <1>1, <2>2, <3>1, ThrownParts
  <2> QED
    BY <1>6, <2>1, <2>2 DEF AddTo
<1>7. ASSUME NEW b, Sound(b), TakeFrom(b)
      PROVE  Sound(x') /\ ArithmeticExact' /\ NormalKept' /\ DoublesAgree'
  <2>1. CASE Alignable(x, b) /\ Compute("subtract", b, Difference(x, b))
    <3>1. /\ x' = Difference(x, b)
          /\ last' = [op |-> "subtract", before |-> x, operand |-> b]
      BY <2>1 DEF Compute, Do
    <3>2. Sound(x')
      BY <1>1, <1>7, <2>1, <3>1, SumType
    <3>3. ArithmeticExact'
      <4>1. DifferenceFits(x, b) => Value(x') = At(x, Scale(x')) - At(b, Scale(x'))
        BY <1>1, <1>7, <2>1, <3>1, DifferenceExact
      <4> QED
        BY <3>1, <4>1 DEF ArithmeticExact
    <3>4. NormalKept'
      <4>1. DifferenceFits(x, b) /\ Normal(x) /\ Normal(b) =>
              Normal(x') \/ x'.int = 0 \/ Abs(x'.base) = Power(x'.exp)
        BY <1>1, <1>7, <2>1, <3>1, SumNormal
      <4> QED
        BY <3>1, <4>1 DEF NormalKept
    <3>5. DoublesAgree'
      BY <3>1 DEF DoublesAgree
    <3> QED
      BY <3>2, <3>3, <3>4, <3>5
  <2>2. CASE Compute("thrown", b, Number(Wrap(x.int - b.int), x.base, x.exp))
    <3>1. x.int - b.int \in Int
      BY <1>1, <1>7, ScaleType
    <3> QED
      BY <1>1, <2>2, <3>1, ThrownParts
  <2> QED
    BY <1>7, <2>1, <2>2 DEF TakeFrom
<1>8. ASSUME NEW b, Sound(b), Multiply(b)
      PROVE  Sound(x') /\ ArithmeticExact' /\ NormalKept' /\ DoublesAgree'
  <2>1. /\ x' = Product(x, b) /\ x.exp + b.exp <= MaxPower
        /\ last' = [op |-> "multiply", before |-> x, operand |-> b]
    BY <1>8 DEF Multiply, InTable, Compute, Do
  <2>3. Sound(x')
    BY <1>1, <1>8, <2>1, ProductParts
  <2>4. ArithmeticExact'
    <3>1. ProductFits(x, b) /\ ~TermLost(x, b) =>
            At(x', Scale(x) + Scale(b)) = Value(x) * Value(b)
      BY <1>1, <1>8, <2>1, ProductExact
    <3> QED
      BY <2>1, <3>1 DEF ArithmeticExact
  <2>5. NormalKept'
    <3>1. ProductFits(x, b) /\ Normal(x) /\ Normal(b) => Normal(x')
      BY <1>1, <1>8, <2>1, ProductNormal
    <3> QED
      BY <2>1, <3>1 DEF NormalKept
  <2>6. DoublesAgree'
    BY <2>1 DEF DoublesAgree
  <2> QED
    BY <2>3, <2>4, <2>5, <2>6
<1>9. ASSUME NEW b, Sound(b), Divide(b)
      PROVE  Sound(x') /\ ArithmeticExact' /\ NormalKept' /\ DoublesAgree'
  <2>1. /\ x' = Quotient(x, b) /\ x.exp + b.exp <= MaxPower /\ Theirs(b) # 0
        /\ last' = [op |-> "divide", before |-> x, operand |-> b]
    BY <1>9 DEF Divide, InTable, Compute, Do
  <2>3. Sound(x')
    BY <1>1, <1>9, <2>1, QuotientParts
  <2>4. ArithmeticExact'
    <3>1. Fits(Rounded(x, b)) =>
            LET off == Abs(Value(x') * Theirs(b) - Mine(x, b))
            IN IF Mine(x, b) >= 0 /\ Theirs(b) > 0 THEN 2 * off <= Theirs(b)
               ELSE 2 * off < 3 * Abs(Theirs(b))
      BY <1>1, <1>9, <2>1, QuotientExact
    <3> QED
      BY <2>1, <3>1 DEF ArithmeticExact
  <2>5. NormalKept'
    <3>1. Normal(x')
      BY <1>1, <1>9, <2>1, QuotientNormal
    <3> QED
      BY <3>1 DEF NormalKept
  <2>6. DoublesAgree'
    BY <2>1 DEF DoublesAgree
  <2> QED
    BY <2>3, <2>4, <2>5, <2>6
<1>10. ASSUME NEW n \in -1..DefaultAccuracy, SetAccuracy(n)
       PROVE  Sound(x') /\ ArithmeticExact' /\ NormalKept' /\ DoublesAgree'
  <2>1. x' = WithAccuracy(x, n) /\ last' = [op |-> "accuracy", before |-> x, operand |-> n]
    BY <1>10 DEF SetAccuracy, Compute, Do
  <2>2. n \in -1..MaxPower
    BY NumberBoundsAssumption, TableSize DEF NumberBoundsAssumption
  <2>3. Sound(x')
    BY <1>1, <2>1, <2>2, AccuracyParts
  <2>4. ArithmeticExact'
    <3>1. ~Rescaled(x, n) =>
            LET s == MaxOf(Scale(x'), Scale(x))
            IN At(x', s) = At(IF n < 0 THEN Number(x.int, 0, -1) ELSE x, s)
      BY <1>1, <2>1, <2>2, AccuracyExact
    <3> QED
      BY <2>1, <3>1 DEF ArithmeticExact
  <2>5. NormalKept'
    <3>1. ~Rescaled(x, n) /\ Normal(x) => Normal(x')
      BY <1>1, <2>1, <2>2, AccuracyNormal
    <3> QED
      BY <2>1, <3>1 DEF NormalKept
  <2>6. DoublesAgree'
    BY <2>1 DEF DoublesAgree
  <2> QED
    BY <2>3, <2>4, <2>5, <2>6
<1>11. CASE UNCHANGED numberVars
  BY <1>11 DEF numberVars, ArithmeticExact, ViewsAgree, NormalKept, DoublesAgree
<1>12. \A s \in Literals, old \in Garbage : Sound(FromString(s, old))
  BY StringParts, NumberBoundsAssumption DEF NumberBoundsAssumption
<1> QED
  BY <1>2, <1>3, <1>4, <1>5, <1>6, <1>7, <1>8, <1>9, <1>10, <1>11, <1>12 DEF NumberNext

(* Reading and arithmetic are exact, up to what ArithmeticExact names, after *)
(* any number of operations and for all literals.                            *)
THEOREM NumbersAreExact == NumberSpec => []ArithmeticExact
<1>1. NumberIInv => ArithmeticExact
  BY DEF NumberIInv
<1> QED
  BY InitNumberIInv, NextNumberIInv, <1>1, PTL DEF NumberSpec

(* A number prints and compares as what it is, with the exceptions ViewsAgree *)
(* names.                                                                    *)
THEOREM NumbersLookRight == NumberSpec => []ViewsAgree
<1>1. NumberIInv => ViewsAgree
  BY DEF NumberIInv
<1> QED
  BY InitNumberIInv, NextNumberIInv, <1>1, PTL DEF NumberSpec
=============================================================================
