------------------------------ MODULE OrderBook ------------------------------
(***************************************************************************)
(* The mixed order book (fin/mixed_orderbook) and the reservations of its     *)
(* items, which each exchange connector keeps (fin/exchange.cpp).             *)
(*                                                                         *)
(* One thread updates the book.  Strategies take copies of its items and       *)
(* reserve amounts of them, each call of the connector under the instrument's *)
(* mutex; the copy keeps the amount it was taken with.  addInstrument takes    *)
(* no mutex: it is a call of several steps, with which the calls of the        *)
(* strategies can overlap.  Asks have positive amounts and bids, as            *)
(* reserveItem expects them, negative ones.                                    *)
(***************************************************************************)
EXTENDS Integers, FiniteSets

CONSTANTS Exchanges, Instruments,
          Prices,
          Size,        \* bound: the largest amount of an item
          Strategies,  \* threads that reserve items
          Traded,      \* bound: the exchanges whose connectors they use
          NULL,
          MaxUpdates,  \* bound: updates of the book
          MaxConfigs,  \* bound: calls of addInstrument
          MaxGrants    \* bound: reservations granted

ASSUME ExchangesAssumption ==
  IsFiniteSet(Exchanges) /\ IsFiniteSet(Strategies) /\ Traded \subseteq Exchanges
ASSUME SizeAssumption == Size \in Nat \ {0}
ASSUME BoundsAssumption == MaxUpdates \in Nat /\ MaxConfigs \in Nat /\ MaxGrants \in Nat

Dirs == {"Bid", "Ask"}

\* What identifies an item in the book (its unique index), and a reservation.
Keys == Exchanges \X Dirs \X Prices
Lines == Exchanges \X Instruments \X Dirs \X Prices

Amounts(dir) == IF dir = "Ask" THEN 1..Size ELSE -Size..-1
Items == [instrument : Instruments, amount : Amounts("Ask") \union Amounts("Bid")]
Line(key, i) == <<key[1], i, key[2], key[3]>>

ASSUME NullAssumption == NULL \notin Instruments \union Int \union Items

VARIABLES
  instrument,  \* m_instrument of the book
  book,        \* the items of both sides, by exchange, direction and price
  added,       \* the instruments each exchange has in m_orderBookReserve
  adding,      \* those whose asks addInstrument has still to clear
  reserve,     \* the amount reserved on each line; 0 when it has no entry
  item,        \* the key and the copy of the item each strategy works on
  held,        \* what it was granted and has not given back
  read,        \* unreserveAll: what getItemReserve returned, NULL between calls
  updates, configs, grants,
  told,        \* history: the last amount the book was told for each key
  repeated,    \* history: keys whose amount was changed while they were listed
  peak,        \* history: the largest amount (of either sign) each line has had
  mishaps      \* history: what the reservations do not survive

bookVars == <<instrument, book, updates, told, repeated, peak>>
vars == <<bookVars, added, adding, reserve, item, held, read, configs, grants, mishaps>>

NoItem == [key |-> NULL, instrument |-> NULL, amount |-> 0]

Init ==
  /\ instrument \in Instruments
  /\ book = [k \in Keys |-> NULL]
  /\ added = {}
  /\ adding = {}
  /\ reserve = [l \in Lines |-> 0]
  /\ item = [s \in Strategies |-> NoItem]
  /\ held = [s \in Strategies |-> 0]
  /\ read = [s \in Strategies |-> NULL]
  /\ updates = 0 /\ configs = 0 /\ grants = 0
  /\ told = [k \in Keys |-> 0]
  /\ repeated = {}
  /\ peak = [l \in Lines |-> 0]
  /\ mishaps = {}

-----------------------------------------------------------------------------
\* The book.

Larger(a, b) == IF a < 0 \/ b < 0 THEN (IF a < b THEN a ELSE b)
                ELSE (IF a > b THEN a ELSE b)

Heard(k, amount) ==
  /\ updates < MaxUpdates
  /\ updates' = updates + 1
  /\ told' = [told EXCEPT ![k] = amount]

\* updateBook with an amount of 0: the entry is looked up by exchange and price.
Erase(k) ==
  /\ Heard(k, 0)
  /\ book' = [book EXCEPT ![k] = NULL]
  /\ repeated' = repeated \ {k}
  /\ UNCHANGED <<instrument, added, adding, reserve, item, held, read, configs, grants, peak, mishaps>>

\* updateBook with another amount: insert keeps the entry that is there.
Insert(k, amount) ==
  /\ Heard(k, amount)
  /\ IF book[k] = NULL
     THEN /\ book' = [book EXCEPT ![k] = [instrument |-> instrument, amount |-> amount]]
          /\ repeated' = repeated
          /\ peak' = [peak EXCEPT ![Line(k, instrument)] = Larger(@, amount)]
     ELSE book' = book /\ repeated' = repeated \union {k} /\ UNCHANGED peak
  /\ UNCHANGED <<instrument, added, adding, reserve, item, held, read, configs, grants, mishaps>>

\* Mutant: the whole book is cleared for one exchange.
MutClearAll(E) ==
  /\ updates < MaxUpdates
  /\ updates' = updates + 1
  /\ book' = [k \in Keys |-> NULL]
  /\ told' = [k \in Keys |-> IF k[1] \in E THEN 0 ELSE told[k]]
  /\ repeated' = {k \in repeated : k[1] \notin E}
  /\ UNCHANGED <<instrument, added, adding, reserve, item, held, read, configs, grants, peak, mishaps>>

\* clear(exchange) and clear().
Clear(E) ==
  /\ updates < MaxUpdates
  /\ updates' = updates + 1
  /\ book' = [k \in Keys |-> IF k[1] \in E THEN NULL ELSE book[k]]
  /\ told' = [k \in Keys |-> IF k[1] \in E THEN 0 ELSE told[k]]
  /\ repeated' = {k \in repeated : k[1] \notin E}
  /\ UNCHANGED <<instrument, added, adding, reserve, item, held, read, configs, grants, peak, mishaps>>

\* setInstrument leaves the items of the instrument before.
SetInstrument(i) ==
  /\ i # instrument
  /\ updates < MaxUpdates
  /\ updates' = updates + 1
  /\ instrument' = i
  /\ mishaps' = mishaps \union
       (IF \E k \in Keys : book[k] # NULL THEN {"switched"} ELSE {})
  /\ UNCHANGED <<book, told, repeated, peak, added, adding, reserve, item, held, read, configs, grants>>

-----------------------------------------------------------------------------
\* The connector.

\* What a statement of addInstrument clears, without a lock.
Cleared(e, i, dir) ==
  /\ reserve' = [l \in Lines |-> IF <<l[1], l[2], l[3]>> = <<e, i, dir>> THEN 0 ELSE reserve[l]]
  /\ mishaps' = mishaps \union
       (IF reserve' # reserve THEN {"reset"} ELSE {})

\* addInstrument: the entry is made if there is none, and its bids are cleared;
AddInstrument(e, i) ==
  /\ configs < MaxConfigs /\ <<e, i>> \notin adding
  /\ configs' = configs + 1
  /\ added' = added \union {<<e, i>>}
  /\ adding' = adding \union {<<e, i>>}
  /\ Cleared(e, i, "Bid")
  /\ UNCHANGED <<bookVars, item, held, read, grants>>

\* then its asks.
EndAddInstrument(e, i) ==
  /\ <<e, i>> \in adding
  /\ adding' = adding \ {<<e, i>>}
  /\ Cleared(e, i, "Ask")
  /\ UNCHANGED <<bookVars, added, item, held, read, configs, grants>>

LineOf(s) == Line(item[s].key, item[s].instrument)
Known(s) == <<item[s].key[1], item[s].instrument>> \in added
Ready(s) == item[s] # NoItem /\ read[s] = NULL

\* A strategy copies the item it is going to work on.
Pick(s, k) ==
  /\ item[s] = NoItem
  /\ k[1] \in Traded /\ book[k] # NULL
  /\ item' = [item EXCEPT ![s] = [key |-> k, instrument |-> book[k].instrument,
                                  amount |-> book[k].amount]]
  /\ UNCHANGED <<bookVars, added, adding, reserve, held, read, configs, grants, mishaps>>

\* Mutant: what is reserved already does not count.
MutExceeds(s, q) ==
  IF item[s].amount > 0 THEN q > item[s].amount ELSE q < item[s].amount

\* More than the copy's amount would be reserved on the line.
Exceeds(s, q) ==
  LET sum == reserve[LineOf(s)] + q
  IN IF item[s].amount > 0 THEN sum > item[s].amount ELSE sum < item[s].amount

\* Item::reserve, reserveItem.  A refusal changes nothing.
Reserve(s, q) ==
  /\ Ready(s) /\ Known(s)
  /\ q \in Amounts(item[s].key[2])
  /\ ~Exceeds(s, q)
  /\ grants < MaxGrants
  /\ grants' = grants + 1
  /\ reserve' = [reserve EXCEPT ![LineOf(s)] = @ + q]
  /\ held' = [held EXCEPT ![s] = @ + q]
  /\ UNCHANGED <<bookVars, added, adding, item, read, configs, mishaps>>

Subtract(s, q) == reserve' = [reserve EXCEPT ![LineOf(s)] = @ - q]

\* Item::unreserve, unreserveItem: a strategy gives back part of what it holds.
Unreserve(s, q) ==
  /\ Ready(s) /\ Known(s)
  /\ q \in Amounts(item[s].key[2])
  /\ IF q > 0 THEN q <= held[s] ELSE q >= held[s]
  /\ Subtract(s, q)
  /\ held' = [held EXCEPT ![s] = @ - q]
  /\ UNCHANGED <<bookVars, added, adding, item, read, configs, grants, mishaps>>

\* Others hold something on the line of s.
Shared(s) ==
  \E t \in Strategies \ {s} : item[t] # NoItem /\ LineOf(t) = LineOf(s) /\ held[t] # 0

\* unreserveAll, the critical section of getItemReserve.
ReadReserve(s) ==
  /\ Ready(s) /\ Known(s)
  /\ read' = [read EXCEPT ![s] = reserve[LineOf(s)]]
  /\ mishaps' = mishaps \union (IF Shared(s) THEN {"swept"} ELSE {})
  /\ UNCHANGED <<bookVars, added, adding, reserve, item, held, configs, grants>>

\* Mutant: all there is now is given back, not what was read.
MutClearReserve(s) ==
  /\ read[s] # NULL
  /\ reserve' = [reserve EXCEPT ![LineOf(s)] = 0]
  /\ held' = [held EXCEPT ![s] = 0]
  /\ read' = [read EXCEPT ![s] = NULL]
  /\ UNCHANGED <<bookVars, added, adding, item, configs, grants, mishaps>>

\* unreserveAll, the critical section of unreserveItem.
UnreserveRead(s) ==
  /\ read[s] # NULL
  /\ Subtract(s, read[s])
  /\ held' = [held EXCEPT ![s] = 0]
  /\ read' = [read EXCEPT ![s] = NULL]
  /\ UNCHANGED <<bookVars, added, adding, item, configs, grants, mishaps>>

\* A statement of addInstrument and another call may be in the tables of e at once:
\* an entry is made while they are searched, or what is reserved in a direction is
\* cleared while a strategy reserves, gives back or reads it.  What follows is
\* undefined, and not modelled.
Race(e, i) ==
  /\ \/ /\ configs < MaxConfigs /\ <<e, i>> \notin added
        /\ \/ \E s \in Strategies : item[s] # NoItem /\ item[s].key[1] = e
           \/ \E j \in Instruments : <<e, j>> \in adding
     \/ \E s \in Strategies :
          /\ item[s] # NoItem /\ item[s].key[1] = e /\ item[s].instrument = i
          /\ IF <<e, i>> \in adding THEN item[s].key[2] = "Ask"
             ELSE configs < MaxConfigs /\ item[s].key[2] = "Bid"
  /\ mishaps' = mishaps \union {"raced"}
  /\ UNCHANGED <<bookVars, added, adding, reserve, item, held, read, configs, grants>>

-----------------------------------------------------------------------------

Update ==
  \/ \E k \in Keys : Erase(k) \/ \E a \in Amounts(k[2]) : Insert(k, a)
  \/ \E e \in Exchanges : Clear({e})
  \/ Clear(Exchanges)
  \/ \E i \in Instruments : SetInstrument(i)

Strategy(s) ==
  \/ \E k \in Keys : Pick(s, k)
  \/ \E q \in Amounts("Ask") \union Amounts("Bid") : Reserve(s, q) \/ Unreserve(s, q)
  \/ ReadReserve(s) \/ UnreserveRead(s)

Configure(e, i) == AddInstrument(e, i) \/ EndAddInstrument(e, i) \/ Race(e, i)

Next ==
  /\ "raced" \notin mishaps
  /\ \/ Update
     \/ \E e \in Traded, i \in Instruments : Configure(e, i)
     \/ \E s \in Strategies : Strategy(s)

Spec == Init /\ [][Next]_vars

-----------------------------------------------------------------------------

\* The book lists a price of an exchange exactly when the last that was heard of
\* it was an amount, whatever was cleared in between; and with that amount, unless
\* the amount was changed while the price was listed.
BookMatchesFeed ==
  \A k \in Keys :
    /\ (book[k] = NULL) <=> (told[k] = 0)
    /\ book[k] # NULL /\ k \notin repeated => book[k].amount = told[k]
    /\ book[k] # NULL /\ "switched" \notin mishaps => book[k].instrument = instrument

\* Until unreserveAll is called on a line that others hold too, or addInstrument
\* clears one that is reserved, no more is reserved on a line than the largest
\* amount it was listed with, stale copies of its items included.
WithinListed ==
  mishaps \intersect {"swept", "reset"} = {} =>
  \A l \in Lines : IF l[3] = "Ask" THEN reserve[l] <= peak[l] ELSE reserve[l] >= peak[l]

\* A quantity counted in the direction of a line: bids have negative amounts.
Toward(l, q) == IF l[3] = "Ask" THEN q ELSE -q

\* What each strategy holds of a line, and all the units of it.
Share(l) ==
  [s \in Strategies |->
     IF item[s] # NoItem /\ LineOf(s) = l THEN Toward(l, held[s]) ELSE 0]
Units(f) == UNION {{s} \X (1..f[s]) : s \in Strategies}

\* What is reserved on a line is what its strategies hold together, until
\* unreserveAll is called on a line that others hold too, or addInstrument
\* clears a line that is reserved.  The two critical sections of unreserveAll do
\* no harm by themselves.
HoldersCovered ==
  mishaps \intersect {"swept", "reset"} = {} =>
    \A l \in Lines : reserve[l] = Toward(l, Cardinality(Units(Share(l))))
==============================================================================
